--------------------------- MODULE Recovery_proofs ---------------------------
(***************************************************************************)
(* What TLAPS proves of backups and restores, for any files, contents and  *)
(* keys, and any number of runs, writes, backups and restores.             *)
(***************************************************************************)
EXTENDS Recovery, FiniteSetTheorems, WellFoundedInduction, SequenceTheorems, TLAPS

-----------------------------------------------------------------------------
(* Backups *)

(* An entry names the hash of what it names the blob of, and a blob. *)
EntrySound(e) == e.blob = e.hash /\ (e.blob = Gone => e = NoEntry)

(* File f had the content of blob b, or lacked if b is none, at a moment   *)
(* of which the contents are S; or b is a database without its log.        *)
Had(f, b, S) == WithoutWal(f, b) \/ b[2] \in S

(* An anchored manifest is made of contents that the files had in its run. *)
ManifestInv ==
    \A m \in Backups, f \in Files :
        /\ EntrySound(manifests[m].files[f])
        /\ Had(f, manifests[m].files[f].blob, lived[m][f])

(* And the run under way: what is on disk, what was scanned and what was   *)
(* uploaded was there during the run; only changes are uploaded.           *)
RunInv ==
    /\ \A d \in Databases : main[d] = 0 <=> disk[d] = 0
    /\ \A f \in Files :
          /\ EntrySound(uploaded[f])
          /\ uploaded[f] # NoEntry => pc = "upload" /\ f \in Changed \ todo
    /\ pc # "idle" => \A f \in Files :
          /\ disk[f] \in seen[f]
          /\ f \notin toScan => Had(f, scanned[f], seen[f])
    /\ pc # "idle" /\ ~full => last # 0
    /\ pc \in {"upload", "skipped"} => toScan = {}
    /\ pc = "upload" =>
          /\ todo \subseteq Changed
          /\ \A f \in Changed \ todo :
                uploaded[f] # NoEntry /\ Had(f, uploaded[f].blob, seen[f])
    /\ pc = "skipped" => Changed = {} /\ Deleted = {} /\ ~full

ContentInv == ContentTypeOK /\ ManifestInv /\ RunInv

-----------------------------------------------------------------------------
(* Restores *)

(* The files of the manifest asked for that are there, but for those in L. *)
Restored(L) ==
    \A f \in FilesOf(wanted) \ (L \cup errors) : target[f] = manifests[wanted].files[f].blob

Unlinked == \A f \in Obsolete \ (left \cup kept) : target[f] = Gone

ChainInv ==
    /\ at \in {"lookup", "mfs"} => chain = <<>>
    /\ at = "lookup" => manifests # <<>>
    /\ at \notin {"idle", "lookup", "unresolved", "failed"} => wanted # 0
    /\ chain # <<>> => chain[Len(chain)] = wanted
    /\ at \in {"anchor", "download", "delete", "context", "marker", "done"} => chain # <<>>
    /\ at \in {"context", "marker"} => auto

RestoreInv ==
    /\ at = "download" => step # 0 /\ left \subseteq FilesOf(chain[step])
    /\ at = "download" /\ step = Len(chain) => Restored(left)
    /\ at = "delete" => left \subseteq Obsolete /\ Restored({}) /\ Unlinked
    /\ merkleVerified =>
          /\ at \in {"context", "marker", "done", "failed"}
          /\ chain # <<>>
          /\ \A f \in FilesOf(wanted) :
                Rewritten(f) \/ target[f] = manifests[wanted].files[f].hash
          /\ \A f \in Obsolete \ kept : Rewritten(f) \/ target[f] = Gone
    /\ CleanRestoreVerifies

Inv == ContentInv /\ TypeOK /\ ChainInv /\ RestoreInv

-----------------------------------------------------------------------------
(* First(S) *)

LEMMA Smallest ==
    ASSUME NEW T \in SUBSET Nat, T # {}
    PROVE  \E m \in T : \A k \in T : m <= k
<1> DEFINE R == StrictSubsetOrdering(Nat)
           Below == {1..n : n \in T}
<1>1. IsWellFoundedOn(R, FiniteSubsetsOf(Nat))
  BY FS_StrictSubsetOrderingWellFounded
<1>2. Below \subseteq FiniteSubsetsOf(Nat)
  <2>1. \A n \in T : IsFiniteSet(1..n) /\ 1..n \subseteq Nat
    BY FS_Interval
  <2>q. QED
    BY <2>1 DEF FiniteSubsetsOf
<1>3. PICK x \in Below : \A y \in Below : <<y, x>> \notin R
  <2> HIDE DEF R
  <2>1. Below # {}
    OBVIOUS
  <2> HIDE DEF Below
  <2>q. QED
    BY <1>1, <1>2, <2>1, WFMin
<1>4. PICK m \in T : x = 1..m
  OBVIOUS
<1>5. ASSUME NEW k \in T, k < m PROVE FALSE
  <2>1. m \in 1..m /\ m \notin 1..k
    BY <1>5
  <2>2. 1..k \subseteq 1..m /\ 1..k # 1..m
    BY <1>5, <2>1
  <2>3. <<1..k, 1..m>> \in R
    BY <2>2 DEF StrictSubsetOrdering
  <2>q. QED
    BY <1>3, <1>4, <2>3
<1>q. QED
  BY <1>5

(* It is a file of S. *)
LEMMA FirstIsIn ==
    ASSUME NEW S \in SUBSET Files, S # {}
    PROVE  First(S) \in S
<1> DEFINE T == {i \in DOMAIN Paths : Paths[i] \in S}
<1>1. DOMAIN Paths = 1..Len(Paths) /\ Len(Paths) \in Nat
  BY ContentAssumption, LenProperties
<1>2. T # {} /\ T \in SUBSET Nat
  BY <1>1 DEF Files
<1>3. PICK i \in T : \A k \in T : i <= k
  BY <1>2, Smallest
<1>4. \A j \in 1..(i - 1) : Paths[j] \notin S
  <2>1. SUFFICES ASSUME NEW j \in 1..(i - 1), Paths[j] \in S PROVE FALSE
    OBVIOUS
  <2>2. j \in T
    BY <1>1, <1>3, <2>1
  <2>q. QED
    BY <1>1, <1>3, <2>1, <2>2
<1>5. \E k \in DOMAIN Paths : Paths[k] \in S /\ \A j \in 1..(k - 1) : Paths[j] \notin S
  BY <1>3, <1>4
<1>q. QED
  BY <1>5 DEF First

-----------------------------------------------------------------------------
(* The backups *)

LEMMA NoEntryType == NoEntry \in Entry /\ Gone \in Bytes /\ EntrySound(NoEntry)
  BY DEF NoEntry, Entry, Bytes, EntrySound, Gone

LEMMA BackupsAre ==
    ASSUME ContentTypeOK
    PROVE  /\ Backups = 1..Len(manifests) /\ Len(manifests) \in Nat
           /\ DOMAIN lived = Backups
           /\ \A m \in Backups : /\ manifests[m] \in Manifest
                                 /\ manifests[m].parent < m
                                 /\ manifests[m].parent \in Nat
                                 /\ \A f \in Files : manifests[m].files[f] \in Entry
                                 /\ lived[m] \in [Files -> SUBSET Values]
<1>1. manifests \in Seq(Manifest) /\ lived \in Seq([Files -> SUBSET Values])
  BY DEF ContentTypeOK
<1>2. Backups = 1..Len(manifests) /\ Len(manifests) \in Nat /\ DOMAIN lived = 1..Len(lived)
  BY <1>1, LenProperties DEF Backups
<1>3. Len(lived) = Len(manifests)
  BY DEF ContentTypeOK
<1>4. \A m \in Backups : manifests[m] \in Manifest /\ lived[m] \in [Files -> SUBSET Values]
  BY <1>1, <1>2, <1>3, ElementOfSeq
<1>q. QED
  BY <1>2, <1>3, <1>4 DEF ContentTypeOK, Manifest, Backups

(* The entries of the last manifest. *)
LEMMA PreviousEntryIs ==
    ASSUME ContentInv, NEW f \in Files
    PROVE  PreviousEntry(f) \in Entry /\ EntrySound(PreviousEntry(f))
<1>1. CASE full \/ last = 0
  BY <1>1, NoEntryType DEF PreviousEntry
<1>2. CASE ~full /\ last # 0
  <2>1. last \in Backups
    BY <1>2, BackupsAre DEF ContentInv, ContentTypeOK
  <2>q. QED
    BY <1>2, <2>1, BackupsAre DEF ContentInv, ManifestInv, PreviousEntry
<1>q. QED
  BY <1>1, <1>2

LEMMA InitContent == ContentInit => ContentInv
<1> SUFFICES ASSUME ContentInit PROVE ContentInv
  OBVIOUS
<1>1. PICK c \in Contents : /\ disk = [f \in Files |-> IF f = ContextFile THEN 0 ELSE c]
                            /\ main = [d \in Databases |-> c]
  BY DEF ContentInit
<1>2. c \in Values /\ c # 0 /\ 0 \in Values
  BY ContentAssumption DEF Values
<1>3. manifests = <<>> /\ lived = <<>> /\ Len(manifests) = 0 /\ Len(lived) = 0 /\ Backups = {}
  BY EmptySeq DEF ContentInit, Backups
<1>4. manifests \in Seq(Manifest) /\ lived \in Seq([Files -> SUBSET Values])
  BY <1>3, EmptySeq
<1>5. ContentTypeOK
  <2>1. disk \in [Files -> Values]
    BY <1>1, <1>2
  <2>2. main \in [Databases -> Values]
    BY <1>1, <1>2
  <2>3. scanned \in [Files -> Bytes] /\ uploaded \in [Files -> Entry]
    BY NoEntryType DEF ContentInit, Quiet
  <2>4. \A m \in DOMAIN manifests : manifests[m].parent < m
    BY <1>3 DEF Backups
  <2>5. edits \in 0..MaxEdits /\ runs \in 0..MaxRuns /\ last \in 0..Len(manifests)
    BY <1>3, ContentAssumption DEF ContentInit
  <2>6. /\ seen \in [Files -> SUBSET Values] /\ toScan \subseteq Files /\ todo \subseteq Files
        /\ full \in BOOLEAN /\ key \in Keys /\ pc = "idle"
    BY DEF ContentInit, Quiet
  <2>7. Len(lived) = Len(manifests)
    BY <1>3
  <2>q. QED
    BY <1>4, <2>1, <2>2, <2>3, <2>4, <2>5, <2>6, <2>7 DEF ContentTypeOK
<1>6. ManifestInv
  BY <1>3 DEF ManifestInv
<1>7. RunInv
  <2>1. \A d \in Databases : d \in Files /\ d # ContextFile
    BY ContentAssumption
  <2>q. QED
    BY <1>1, <1>2, <2>1, NoEntryType DEF ContentInit, RunInv, Quiet
<1>q. QED
  BY <1>5, <1>6, <1>7 DEF ContentInv

-----------------------------------------------------------------------------
(* Steps of the agent *)

LEMMA EditKeeps ==
    ASSUME ContentInv, NEW f \in Files \ {ContextFile}, NEW c \in {0} \cup Contents, Edit(f, c)
    PROVE  ContentInv'
<1>1. /\ disk' = [disk EXCEPT ![f] = c]
      /\ UNCHANGED <<runs, pc, full, toScan, scanned, todo, uploaded, last, key, manifests, lived>>
      /\ edits' = edits + 1 /\ edits < MaxEdits
      /\ seen' = IF pc = "idle" THEN seen ELSE [seen EXCEPT ![f] = @ \cup {c}]
      /\ main' = IF f \in Databases /\ (c = 0 \/ main[f] = 0)
                 THEN [main EXCEPT ![f] = c] ELSE main
  BY DEF Edit
<1>2. c \in Values
  BY DEF Values
<1>3. ContentTypeOK'
  <2>1. disk' \in [Files -> Values] /\ main' \in [Databases -> Values]
    BY <1>1, <1>2 DEF ContentInv, ContentTypeOK
  <2>2. seen' \in [Files -> SUBSET Values]
    BY <1>1, <1>2 DEF ContentInv, ContentTypeOK
  <2>3. edits' \in 0..MaxEdits
    BY <1>1, ContentAssumption DEF ContentInv, ContentTypeOK
  <2>q. QED
    BY <1>1, <2>1, <2>2, <2>3 DEF ContentInv, ContentTypeOK
<1>4. ManifestInv'
  BY <1>1 DEF ContentInv, ManifestInv, Backups
<1>5. \A d \in Databases : main'[d] = 0 <=> disk'[d] = 0
  <2>1. Databases \subseteq Files
    BY ContentAssumption
  <2>2. \A d \in Files : disk'[d] = IF d = f THEN c ELSE disk[d]
    BY <1>1 DEF ContentInv, ContentTypeOK
  <2>3. \A d \in Databases : main'[d] = IF d = f /\ (c = 0 \/ main[f] = 0) THEN c ELSE main[d]
    BY <1>1 DEF ContentInv, ContentTypeOK
  <2>q. QED
    BY <2>1, <2>2, <2>3 DEF ContentInv, RunInv
<1>6. /\ \A g \in Files : seen[g] \subseteq seen'[g]
      /\ pc # "idle" => \A g \in Files : disk'[g] \in seen'[g]
  BY <1>1 DEF ContentInv, ContentTypeOK, RunInv
<1>7. Changed' = Changed /\ Deleted' = Deleted
  BY <1>1 DEF Changed, Deleted, PreviousEntry
<1>8. RunInv'
  <2>1. \A g \in Files : \A b : Had(g, b, seen[g]) => Had(g, b, seen'[g])
    BY <1>6 DEF Had
  <2>2. Changed \subseteq Files
    BY DEF Changed
  <2>q. QED
    BY <1>1, <1>5, <1>6, <1>7, <2>1, <2>2 DEF ContentInv, RunInv
<1>q. QED
  BY <1>3, <1>4, <1>8 DEF ContentInv

LEMMA CheckpointKeeps ==
    ASSUME ContentInv, NEW d \in Databases, Checkpoint(d)
    PROVE  ContentInv'
<1>1. /\ main' = [main EXCEPT ![d] = disk[d]]
      /\ UNCHANGED <<disk, edits, runs, pc, full, toScan, scanned, todo, uploaded,
                     last, key, manifests, seen, lived>>
  BY DEF Checkpoint
<1>2. d \in Files
  BY ContentAssumption
<1>3. ContentTypeOK'
  <2>1. main' \in [Databases -> Values]
    BY <1>1, <1>2 DEF ContentInv, ContentTypeOK
  <2>q. QED
    BY <1>1, <2>1 DEF ContentInv, ContentTypeOK
<1>4. ManifestInv'
  BY <1>1 DEF ContentInv, ManifestInv, Backups
<1>5. \A e \in Databases : main'[e] = 0 <=> disk'[e] = 0
  BY <1>1 DEF ContentInv, ContentTypeOK, RunInv
<1>6. Changed' = Changed /\ Deleted' = Deleted
  BY <1>1 DEF Changed, Deleted, PreviousEntry
<1>7. RunInv'
  BY <1>1, <1>5, <1>6 DEF ContentInv, RunInv
<1>q. QED
  BY <1>3, <1>4, <1>7 DEF ContentInv

-----------------------------------------------------------------------------
(* Steps of a backup *)

(* A run is over, and may leave a new manifest. *)
LEMMA EndRunKeeps ==
    ASSUME ContentInv, EndRun, UNCHANGED <<disk, main, edits, runs>>,
           last' \in 0..Len(manifests'), key' \in Keys,
           manifests' \in Seq(Manifest), lived' \in Seq([Files -> SUBSET Values]),
           Len(lived') = Len(manifests'),
           \A m \in DOMAIN manifests' : manifests'[m].parent < m,
           ManifestInv'
    PROVE  ContentInv'
<1>1. /\ pc' = "idle" /\ full' = FALSE /\ toScan' = {} /\ todo' = {}
      /\ scanned' = [f \in Files |-> Gone] /\ uploaded' = [f \in Files |-> NoEntry]
      /\ seen' = [f \in Files |-> {}]
  BY DEF EndRun
<1>2. scanned' \in [Files -> Bytes] /\ uploaded' \in [Files -> Entry]
  BY <1>1, NoEntryType
<1>3. seen' \in [Files -> SUBSET Values]
  BY <1>1
<1>4. ContentTypeOK'
  BY <1>1, <1>2, <1>3 DEF ContentInv, ContentTypeOK
<1>5. RunInv'
  BY <1>1, NoEntryType DEF ContentInv, RunInv
<1>q. QED
  BY <1>4, <1>5 DEF ContentInv

LEMMA RunIsGivenUp ==
    ASSUME ContentInv,
           \/ Abort \/ SkipReturns \/ \E m \in 0..Len(manifests), k \in Keys : Restart(m, k)
    PROVE  ContentInv'
<1>1. /\ EndRun /\ UNCHANGED <<disk, main, edits, runs, manifests, lived>>
      /\ last' \in 0..Len(manifests) /\ key' \in Keys
  BY DEF Abort, SkipReturns, Restart, ContentInv, ContentTypeOK
<1>2. ManifestInv'
  BY <1>1 DEF ContentInv, ManifestInv, Backups
<1>q. QED
  BY <1>1, <1>2, EndRunKeeps DEF ContentInv, ContentTypeOK

LEMMA BeginKeeps ==
    ASSUME ContentInv, NEW captured \in BOOLEAN, NEW forced \in BOOLEAN, Begin(captured, forced)
    PROVE  ContentInv'
<1>1. /\ pc = "idle" /\ runs < MaxRuns /\ runs' = runs + 1
      /\ disk' = IF captured THEN [disk EXCEPT ![ContextFile] = runs + 1] ELSE disk
      /\ full' = (forced \/ last = 0)
      /\ pc' = "scan"
      /\ toScan' = Files
      /\ seen' = [f \in Files |-> {disk'[f]}]
      /\ UNCHANGED <<main, edits, scanned, todo, uploaded, last, key, manifests, lived>>
  BY DEF Begin, captureContextSnapshot
<1>2. ContextFile \in Files /\ ContextFile \notin Databases /\ Databases \subseteq Files
  BY ContentAssumption
<1>3. runs + 1 \in 0..MaxRuns /\ runs + 1 \in Values
  BY <1>1, ContentAssumption DEF ContentInv, ContentTypeOK, Values
<1>4. disk' \in [Files -> Values]
  BY <1>1, <1>3 DEF ContentInv, ContentTypeOK
<1>5. ContentTypeOK'
  <2>1. seen' \in [Files -> SUBSET Values]
    BY <1>1, <1>4
  <2>2. full' \in BOOLEAN
    BY <1>1
  <2>q. QED
    BY <1>1, <1>3, <1>4, <2>1, <2>2 DEF ContentInv, ContentTypeOK
<1>6. ManifestInv'
  BY <1>1 DEF ContentInv, ManifestInv, Backups
<1>7. RunInv'
  <2>1. \A d \in Databases : main'[d] = 0 <=> disk'[d] = 0
    BY <1>1, <1>2 DEF ContentInv, ContentTypeOK, RunInv
  <2>2. \A f \in Files : uploaded'[f] = NoEntry
    BY <1>1 DEF ContentInv, RunInv
  <2>3. \A f \in Files : disk'[f] \in seen'[f] /\ f \in toScan'
    BY <1>1
  <2>4. pc' = "scan" /\ (~full' => last' # 0)
    BY <1>1
  <2>5. \A f \in Files : EntrySound(uploaded'[f])
    BY <2>2, NoEntryType
  <2>q. QED
    BY <2>1, <2>2, <2>3, <2>4, <2>5 DEF RunInv
<1>q. QED
  BY <1>5, <1>6, <1>7 DEF ContentInv

(* What is read of a file is what it has, or lacks, now. *)
LEMMA ReadFileIs ==
    ASSUME ContentInv, NEW f \in Files
    PROVE  /\ ReadFile(f) \in Bytes
           /\ disk[f] # 0 => ReadFile(f) # Gone
           /\ pc # "idle" => Had(f, ReadFile(f), seen[f])
<1>1. disk[f] \in Values /\ (f \in Databases => main[f] \in Values /\ (main[f] = 0 <=> disk[f] = 0))
  BY DEF ContentInv, ContentTypeOK, RunInv
<1>2. CASE disk[f] = 0
  <2>1. pc # "idle" => disk[f] \in seen[f]
    BY DEF ContentInv, RunInv
  <2>q. QED
    BY <1>2, <2>1, NoEntryType DEF ReadFile, Had, Gone
<1>3. CASE disk[f] # 0 /\ f \in Databases
  BY <1>1, <1>3 DEF ReadFile, Had, WithoutWal, Bytes, Gone
<1>4. CASE disk[f] # 0 /\ f \notin Databases
  <2>1. pc # "idle" => disk[f] \in seen[f]
    BY DEF ContentInv, RunInv
  <2>q. QED
    BY <1>1, <1>4, <2>1 DEF ReadFile, Had, Bytes, Gone
<1>q. QED
  BY <1>2, <1>3, <1>4

LEMMA ScanKeeps ==
    ASSUME ContentInv, Scan
    PROVE  ContentInv'
<1> DEFINE f == First(toScan)
<1>1. /\ pc = "scan" /\ toScan # {}
      /\ scanned' = [scanned EXCEPT ![f] = ReadFile(f)]
      /\ toScan' = toScan \ {f}
      /\ UNCHANGED <<disk, main, edits, runs, pc, full, todo, uploaded, last, key,
                     manifests, seen, lived>>
  BY DEF Scan
<1>2. f \in toScan /\ f \in Files
  BY <1>1, FirstIsIn DEF ContentInv, ContentTypeOK
<1> HIDE DEF f
<1>3. ReadFile(f) \in Bytes /\ Had(f, ReadFile(f), seen[f])
  BY <1>1, <1>2, ReadFileIs
<1>4. ContentTypeOK'
  <2>1. scanned' \in [Files -> Bytes]
    BY <1>1, <1>3 DEF ContentInv, ContentTypeOK
  <2>q. QED
    BY <1>1, <2>1 DEF ContentInv, ContentTypeOK
<1>5. ManifestInv'
  BY <1>1 DEF ContentInv, ManifestInv, Backups
<1>6. \A g \in Files : g \notin toScan' => Had(g, scanned'[g], seen'[g])
  <2>1. \A g \in Files : scanned'[g] = IF g = f THEN ReadFile(f) ELSE scanned[g]
    BY <1>1 DEF ContentInv, ContentTypeOK
  <2>q. QED
    BY <1>1, <1>3, <2>1 DEF ContentInv, RunInv
<1>7. RunInv'
  <2>1. \A g \in Files : uploaded'[g] = NoEntry
    BY <1>1 DEF ContentInv, RunInv
  <2>q. QED
    BY <1>1, <1>6, <2>1, NoEntryType DEF ContentInv, RunInv
<1>q. QED
  BY <1>4, <1>5, <1>7 DEF ContentInv

LEMMA DetectChangesKeeps ==
    ASSUME ContentInv, DetectChanges
    PROVE  ContentInv'
<1>1. /\ pc = "scan" /\ toScan = {}
      /\ UNCHANGED <<disk, main, edits, runs, full, toScan, scanned, uploaded, last,
                     key, manifests, seen, lived>>
      /\ \/ pc' = "skipped" /\ todo' = {} /\ Changed = {} /\ Deleted = {} /\ ~full
         \/ pc' = "upload" /\ todo' = Changed
  BY DEF DetectChanges
<1>2. Changed' = Changed /\ Deleted' = Deleted /\ Changed \subseteq Files
  BY <1>1 DEF Changed, Deleted, PreviousEntry
<1>3. ContentTypeOK'
  BY <1>1, <1>2 DEF ContentInv, ContentTypeOK
<1>4. ManifestInv'
  BY <1>1 DEF ContentInv, ManifestInv, Backups
<1>5. RunInv'
  <2>1. \A g \in Files : uploaded'[g] = NoEntry
    BY <1>1 DEF ContentInv, RunInv
  <2>q. QED
    BY <1>1, <1>2, <2>1, NoEntryType DEF ContentInv, RunInv
<1>q. QED
  BY <1>3, <1>4, <1>5 DEF ContentInv

LEMMA UploadFileKeeps ==
    ASSUME ContentInv, UploadFile
    PROVE  ContentInv'
<1> DEFINE f == First(todo)
<1>1. /\ pc = "upload" /\ todo # {} /\ disk[f] # 0
      /\ todo' = todo \ {f}
      /\ UNCHANGED <<disk, main, edits, runs, pc, full, toScan, scanned, last, key,
                     manifests, seen, lived>>
  BY DEF UploadFile
<1>2. PICK b \in UploadReads(f) : uploaded' = [uploaded EXCEPT ![f] = EntryOf(f, b)]
  BY DEF UploadFile
<1>3. f \in todo /\ f \in Files
  BY <1>1, FirstIsIn DEF ContentInv, ContentTypeOK
<1> HIDE DEF f
<1>4. b \in Bytes /\ b # Gone /\ Had(f, b, seen[f])
  <2>1. CASE b = ReadFile(f)
    BY <1>1, <1>3, <2>1, ReadFileIs
  <2>2. CASE b = <<"copy", disk[f]>>
    <3>1. disk[f] \in Values /\ disk[f] \in seen[f]
      BY <1>1, <1>3 DEF ContentInv, ContentTypeOK, RunInv
    <3>q. QED
      BY <1>1, <2>2, <3>1 DEF Bytes, Gone, Had
  <2>q. QED
    BY <1>2, <2>1, <2>2 DEF UploadReads
<1> DEFINE e == EntryOf(f, b)
<1>5. e \in Entry /\ e.blob = b /\ e.hash = b
  BY <1>4 DEF EntryOf, Entry, ContentInv, ContentTypeOK
<1>6. uploaded' = [uploaded EXCEPT ![f] = e]
  BY <1>2
<1> HIDE DEF e
<1>7. \A g \in Files : uploaded'[g] = IF g = f THEN e ELSE uploaded[g]
  BY <1>6 DEF ContentInv, ContentTypeOK
<1>8. EntrySound(e) /\ e # NoEntry
  BY <1>4, <1>5 DEF EntrySound, NoEntry
<1>9. ContentTypeOK'
  <2>1. uploaded' \in [Files -> Entry]
    BY <1>5, <1>6 DEF ContentInv, ContentTypeOK
  <2>q. QED
    BY <1>1, <2>1 DEF ContentInv, ContentTypeOK
<1>10. ManifestInv'
  BY <1>1 DEF ContentInv, ManifestInv, Backups
<1>11. Changed' = Changed /\ Deleted' = Deleted /\ Changed \subseteq Files
  BY <1>1 DEF Changed, Deleted, PreviousEntry
<1>12. RunInv'
  <2>1. todo' \subseteq Changed' /\ f \in Changed' \ todo'
    BY <1>1, <1>3, <1>11 DEF ContentInv, RunInv
  <2>2. \A g \in Files : /\ EntrySound(uploaded'[g])
                         /\ uploaded'[g] # NoEntry => g \in Changed' \ todo'
    BY <1>1, <1>7, <1>8, <1>11, <2>1 DEF ContentInv, RunInv
  <2>3. \A g \in Changed' \ todo' : uploaded'[g] # NoEntry /\ Had(g, uploaded'[g].blob, seen'[g])
    <3>1. SUFFICES ASSUME NEW g \in Changed \ (todo \ {f})
                   PROVE  uploaded'[g] # NoEntry /\ Had(g, uploaded'[g].blob, seen[g])
      BY <1>1, <1>11
    <3>2. CASE g = f
      BY <1>3, <1>4, <1>5, <1>7, <1>8, <3>2
    <3>3. CASE g # f
      BY <1>1, <1>7, <1>11, <3>1, <3>3 DEF ContentInv, RunInv
    <3>q. QED
      BY <3>2, <3>3
  <2>4. /\ \A d \in Databases : main'[d] = 0 <=> disk'[d] = 0
        /\ \A g \in Files : disk'[g] \in seen'[g] /\ (g \notin toScan' => Had(g, scanned'[g], seen'[g]))
        /\ ~full' => last' # 0
        /\ toScan' = {} /\ pc' = "upload"
    BY <1>1 DEF ContentInv, RunInv
  <2>q. QED
    BY <2>1, <2>2, <2>3, <2>4 DEF RunInv
<1>q. QED
  BY <1>9, <1>10, <1>12 DEF ContentInv

(* What is anchored: every entry is of this run, or unchanged since.       *)
LEMMA EntriesAre ==
    ASSUME ContentInv, pc = "upload", todo = {}, NEW f \in Files
    PROVE  /\ Entries[f] \in Entry /\ EntrySound(Entries[f])
           /\ Had(f, Entries[f].blob, seen[f])
<1>1. toScan = {} /\ Had(f, scanned[f], seen[f])
  BY DEF ContentInv, RunInv
<1>2. CASE f \in Unchanged
  <2>1. Entries[f] = PreviousEntry(f) /\ PreviousEntry(f).hash = scanned[f]
    BY <1>2 DEF Entries, Unchanged
  <2>2. PreviousEntry(f) \in Entry /\ EntrySound(PreviousEntry(f))
    BY PreviousEntryIs
  <2>3. PreviousEntry(f).blob = scanned[f]
    BY <2>1, <2>2 DEF EntrySound
  <2>q. QED
    BY <1>1, <2>1, <2>2, <2>3
<1>3. CASE f \notin Unchanged
  <2>1. Entries[f] = uploaded[f]
    BY <1>3 DEF Entries
  <2>2. uploaded[f] \in Entry /\ EntrySound(uploaded[f])
    BY DEF ContentInv, ContentTypeOK, RunInv
  <2>3. CASE f \in Changed
    BY <2>1, <2>2, <2>3 DEF ContentInv, RunInv
  <2>4. CASE f \notin Changed
    <3>1. scanned[f] = Gone
      BY <1>3, <2>4 DEF Changed, Unchanged
    <3>2. uploaded[f] = NoEntry
      BY <2>4 DEF ContentInv, RunInv
    <3>3. uploaded[f].blob = scanned[f]
      BY <3>1, <3>2 DEF NoEntry
    <3>q. QED
      BY <1>1, <2>1, <2>2, <3>3
  <2>q. QED
    BY <2>3, <2>4
<1>q. QED
  BY <1>2, <1>3

(* Of what is anchored nothing changes when a backup is added. *)
Grows ==
    /\ Backups \subseteq Backups'
    /\ \A m \in Backups : manifests'[m] = manifests[m] /\ lived'[m] = lived[m]

LEMMA AnchorKeeps ==
    ASSUME ContentInv, NEW known \in BOOLEAN, Anchor(known)
    PROVE  ContentInv' /\ Grows /\ Backups' = Backups \cup {Len(manifests) + 1}
<1>1. /\ pc = "upload" /\ todo = {}
      /\ manifests' = Append(manifests, buildManifest)
      /\ lived' = Append(lived, seen)
      /\ last' = IF known THEN Len(manifests) + 1 ELSE last
      /\ EndRun /\ UNCHANGED <<disk, main, edits, runs, key>>
  BY DEF Anchor
<1>2. /\ manifests \in Seq(Manifest) /\ lived \in Seq([Files -> SUBSET Values])
      /\ Len(lived) = Len(manifests) /\ last \in 0..Len(manifests) /\ Len(manifests) \in Nat
      /\ seen \in [Files -> SUBSET Values] /\ Backups = 1..Len(manifests)
      /\ key \in Keys
  BY BackupsAre DEF ContentInv, ContentTypeOK
<1>3. buildManifest \in Manifest /\ buildManifest.files = Entries
      /\ buildManifest.parent \in 0..Len(manifests)
  <2>1. Entries \in [Files -> Entry]
    BY <1>1, EntriesAre DEF Entries
  <2>q. QED
    BY <1>2, <2>1 DEF buildManifest, Manifest
<1>4. /\ manifests' \in Seq(Manifest) /\ Len(manifests') = Len(manifests) + 1
      /\ \A i \in 1..Len(manifests) : manifests'[i] = manifests[i]
      /\ manifests'[Len(manifests) + 1] = buildManifest
  BY <1>1, <1>2, <1>3, AppendProperties
<1>5. /\ lived' \in Seq([Files -> SUBSET Values]) /\ Len(lived') = Len(lived) + 1
      /\ \A i \in 1..Len(lived) : lived'[i] = lived[i]
      /\ lived'[Len(lived) + 1] = seen
  BY <1>1, <1>2, AppendProperties
<1>6. Backups' = 1..(Len(manifests) + 1)
  BY <1>4, LenProperties DEF Backups
<1>7. \A m \in Backups' : m \in Backups \/ m = Len(manifests) + 1
  BY <1>2, <1>6
<1>8. Backups' = Backups \cup {Len(manifests) + 1}
  BY <1>2, <1>6
<1>9. Grows
  BY <1>2, <1>4, <1>5, <1>8 DEF Grows
<1>10. ManifestInv'
  <2>1. SUFFICES ASSUME NEW m \in Backups', NEW f \in Files
                 PROVE  /\ EntrySound(manifests'[m].files[f])
                        /\ Had(f, manifests'[m].files[f].blob, lived'[m][f])
    BY DEF ManifestInv
  <2>2. CASE m \in Backups
    BY <1>9, <2>2 DEF Grows, ContentInv, ManifestInv
  <2>3. CASE m = Len(manifests) + 1
    <3>1. manifests'[m].files[f] = Entries[f] /\ lived'[m] = seen
      BY <1>2, <1>3, <1>4, <1>5, <2>3
    <3>q. QED
      BY <1>1, <3>1, EntriesAre
  <2>q. QED
    BY <1>7, <2>1, <2>2, <2>3
<1>11. \A m \in DOMAIN manifests' : manifests'[m].parent < m
  <2>1. \A m \in Backups : manifests[m].parent < m
    BY BackupsAre DEF ContentInv
  <2>q. QED
    BY <1>2, <1>3, <1>4, <1>7, <2>1 DEF Backups
<1>12. last' \in 0..Len(manifests')
  BY <1>1, <1>2, <1>4
<1>q. QED
  BY <1>1, <1>2, <1>4, <1>5, <1>8, <1>9, <1>10, <1>11, <1>12, EndRunKeeps

LEMMA ContentNextKeeps ==
    ASSUME ContentInv, ContentNext
    PROVE  ContentInv' /\ UNCHANGED <<manifests, lived>>
<1>1. UNCHANGED <<manifests, lived>>
  BY DEF ContentNext, Edit, Checkpoint, Begin, Scan, UploadFile, DetectChanges, Abort, SkipReturns,
     Restart
<1>q. QED
  BY <1>1, EditKeeps, CheckpointKeeps, BeginKeeps, ScanKeeps, UploadFileKeeps, DetectChangesKeeps,
     RunIsGivenUp DEF ContentNext

(* A backup that was skipped had nothing to save. *)
LEMMA SkippedShown == ContentInv => SkippedIsSaved
<1> SUFFICES ASSUME ContentInv, pc = "skipped", NEW f \in Files
             PROVE  LET b == manifests[last].files[f].blob IN WithoutWal(f, b) \/ b[2] \in seen[f]
  BY DEF SkippedIsSaved
<1>1. /\ toScan = {} /\ Changed = {} /\ Deleted = {} /\ ~full /\ last # 0
      /\ Had(f, scanned[f], seen[f])
  BY DEF ContentInv, RunInv
<1>2. PreviousEntry(f) = manifests[last].files[f] /\ EntrySound(PreviousEntry(f))
  BY <1>1, PreviousEntryIs DEF PreviousEntry
<1>3. CASE scanned[f] = Gone
  <2>1. PreviousEntry(f) = NoEntry
    BY <1>1, <1>3 DEF Deleted
  <2>2. PreviousEntry(f).blob = scanned[f]
    BY <1>3, <2>1 DEF NoEntry
  <2>q. QED
    BY <1>1, <1>2, <2>2 DEF Had
<1>4. CASE scanned[f] # Gone
  <2>1. PreviousEntry(f).hash = scanned[f]
    BY <1>1, <1>4 DEF Changed
  <2>q. QED
    BY <1>1, <1>2, <2>1 DEF Had, EntrySound
<1>q. QED
  BY <1>3, <1>4

-----------------------------------------------------------------------------
(* Steps of the owner, as the restore sees them *)

LEMMA ContentKept ==
    ASSUME ContentInv, UNCHANGED content
    PROVE  ContentInv' /\ Grows
<1>1. UNCHANGED <<disk, main, edits, runs, pc, full, toScan, scanned, todo, uploaded,
                  last, key, manifests, seen, lived>>
  BY DEF content
<1>2. Changed' = Changed /\ Deleted' = Deleted
  BY <1>1 DEF Changed, Deleted, PreviousEntry
<1>3. ContentTypeOK' /\ ManifestInv'
  BY <1>1 DEF ContentInv, ContentTypeOK, ManifestInv, Backups
<1>4. RunInv'
  BY <1>1, <1>2 DEF ContentInv, RunInv
<1>q. QED
  BY <1>1, <1>3, <1>4 DEF ContentInv, Grows, Backups

(* The chain that a restore walks consists of backups. *)
LEMMA ChainIs ==
    ASSUME TypeOK, ContentInv
    PROVE  /\ Len(chain) \in Nat /\ DOMAIN chain = 1..Len(chain)
           /\ \A i \in DOMAIN chain : chain[i] \in Backups
           /\ chain # <<>> => Len(chain) \in DOMAIN chain /\ 1 \in DOMAIN chain
           /\ \A m \in Backups : m # 0 /\ m \in Nat
<1>1. chain \in Seq(Backups)
  BY DEF TypeOK
<1>2. Len(chain) \in Nat /\ DOMAIN chain = 1..Len(chain)
  BY <1>1, LenProperties
<1>3. \A i \in DOMAIN chain : chain[i] \in Backups
  BY <1>1, <1>2, ElementOfSeq
<1>4. chain # <<>> => Len(chain) \in Nat \ {0}
  BY <1>1, EmptySeq
<1>5. Backups = 1..Len(manifests) /\ Len(manifests) \in Nat
  BY BackupsAre DEF ContentInv
<1>q. QED
  BY <1>2, <1>3, <1>4, <1>5

(* The chain of a restore that has got as far as the anchor. *)
LEMMA ChainFound ==
    ASSUME Inv, chain # <<>>
    PROVE  /\ wanted \in Backups /\ chain[Len(chain)] = wanted
           /\ Len(chain) \in DOMAIN chain /\ 1 \in DOMAIN chain
           /\ DOMAIN chain = 1..Len(chain) /\ Len(chain) \in Nat
           /\ Obsolete \subseteq Files /\ Obsolete \cap FilesOf(wanted) = {}
           /\ \A i \in DOMAIN chain : /\ chain[i] \in Backups
                                      /\ FilesOf(chain[i]) \subseteq Obsolete \cup FilesOf(wanted)
<1>1. TypeOK /\ ContentInv
  BY DEF Inv
<1>2. /\ Len(chain) \in Nat /\ DOMAIN chain = 1..Len(chain)
      /\ Len(chain) \in DOMAIN chain /\ 1 \in DOMAIN chain
      /\ \A i \in DOMAIN chain : chain[i] \in Backups
  BY <1>1, ChainIs
<1>3. chain[Len(chain)] = wanted
  BY DEF Inv, ChainInv
<1>4. \A m : FilesOf(m) \subseteq Files
  BY DEF FilesOf
<1>q. QED
  BY <1>2, <1>3, <1>4 DEF Obsolete

LEMMA OwnerMoves ==
    ASSUME Inv, Grows, ContentInv', UNCHANGED <<restoreVars, target, localIndex>>,
           mfsMap' \subseteq Backups', registering' \in {0} \cup Backups'
    PROVE  Inv'
<1>1. /\ UNCHANGED <<restores, at, wanted, chain, step, left, errors, kept, myKey,
                     anchorCheck, merkleVerified, auto, marker, target, localIndex>>
      /\ Backups \subseteq Backups'
      /\ \A m \in Backups : manifests'[m] = manifests[m]
  BY DEF restoreVars, Grows
<1>2. TypeOK /\ ContentInv
  BY DEF Inv
<1>3. TypeOK'
  <2>1. chain' \in Seq(Backups')
    BY <1>1, <1>2, SeqMonotonic DEF TypeOK
  <2>2. /\ wanted' \in {0} \cup Backups' /\ localIndex' \subseteq Backups'
        /\ marker' \in [manifest : {0} \cup Backups', verified : BOOLEAN, context : BOOLEAN]
    BY <1>1, <1>2 DEF TypeOK
  <2>q. QED
    BY <1>1, <1>2, <2>1, <2>2 DEF TypeOK, ContentInv
<1>4. \A m \in Backups : FilesOf(m)' = FilesOf(m)
  BY <1>1 DEF FilesOf
<1>5. ChainInv'
  <2>1. manifests # <<>> => manifests' # <<>>
    <3>1. manifests # <<>> => 1 \in Backups
      BY <1>2, EmptySeq, BackupsAre DEF ContentInv, ContentTypeOK
    <3>q. QED
      BY <1>1, <3>1, EmptySeq, LenProperties DEF Backups
  <2>q. QED
    BY <1>1, <2>1 DEF Inv, ChainInv
<1>6. chain # <<>> => /\ wanted \in Backups /\ wanted = chain[Len(chain)]
                      /\ Obsolete' = Obsolete
  <2>1. SUFFICES ASSUME chain # <<>>
                 PROVE  /\ wanted \in Backups /\ wanted = chain[Len(chain)]
                        /\ Obsolete' = Obsolete
    OBVIOUS
  <2>2. wanted \in Backups /\ wanted = chain[Len(chain)]
    BY <1>2, <2>1, ChainIs DEF Inv, ChainInv
  <2>3. \A i \in DOMAIN chain : FilesOf(chain[i])' = FilesOf(chain[i])
    BY <1>1, <1>2, ChainIs DEF FilesOf
  <2>4. FilesOf(chain[Len(chain)])' = FilesOf(chain[Len(chain)])
    BY <1>1, <1>2, <2>1, ChainIs DEF FilesOf
  <2>q. QED
    BY <1>1, <2>2, <2>3, <2>4 DEF Obsolete
<1>7. RestoreInv'
  <2>1. chain # <<>> => /\ FilesOf(wanted)' = FilesOf(wanted)
                        /\ manifests'[wanted] = manifests[wanted]
    BY <1>1, <1>6 DEF FilesOf
  <2>2. at = "download" => step # 0 /\ left \subseteq FilesOf(chain[step])'
    <3>1. SUFFICES ASSUME at = "download" PROVE step # 0 /\ left \subseteq FilesOf(chain[step])'
      OBVIOUS
    <3>2. step # 0 /\ left \subseteq FilesOf(chain[step]) /\ step \in DOMAIN chain
      BY <1>2, <3>1, ChainIs DEF Inv, RestoreInv, TypeOK
    <3>q. QED
      BY <1>1, <1>2, <3>2, ChainIs DEF FilesOf
  <2>3. at \in {"download", "delete", "context", "marker", "done"} \/ merkleVerified => chain # <<>>
    BY DEF Inv, ChainInv, RestoreInv
  <2>4. \A L : chain # <<>> /\ Restored(L) => Restored(L)'
    BY <1>1, <2>1 DEF Restored
  <2>5. chain # <<>> /\ Unlinked => Unlinked'
    BY <1>1, <1>6 DEF Unlinked
  <2>6. CleanRestoreVerifies'
    BY <1>1, <2>1, <2>3 DEF Inv, RestoreInv, CleanRestoreVerifies
  <2>7. at = "download" /\ step = Len(chain) => Restored(left)'
    BY <1>1, <2>1, <2>3 DEF Inv, RestoreInv, Restored
  <2>8. at = "delete" => left \subseteq Obsolete' /\ Restored({})' /\ Unlinked'
    BY <1>1, <1>6, <2>3, <2>4, <2>5 DEF Inv, RestoreInv
  <2>9. merkleVerified =>
          /\ at \in {"context", "marker", "done", "failed"}
          /\ chain # <<>>
          /\ \A f \in FilesOf(wanted)' :
                Rewritten(f)' \/ target[f] = manifests'[wanted].files[f].hash
          /\ \A f \in Obsolete' \ kept : Rewritten(f)' \/ target[f] = Gone
    BY <1>1, <1>6, <2>1 DEF Inv, RestoreInv, Rewritten
  <2>q. QED
    BY <1>1, <2>2, <2>6, <2>7, <2>8, <2>9 DEF RestoreInv
<1>q. QED
  BY <1>3, <1>5, <1>7 DEF Inv

-----------------------------------------------------------------------------
(* Steps of a restore *)

(* What the steps of a restore do not write.                               *)
LEMMA RestoreKept ==
    ASSUME Inv, UNCHANGED content
    PROVE  /\ ContentInv' /\ TypeOK /\ ContentTypeOK'
           /\ Backups' = Backups /\ UNCHANGED manifests
           /\ \A m : FilesOf(m)' = FilesOf(m)
<1>1. UNCHANGED manifests
  BY DEF content
<1>2. ContentInv'
  BY ContentKept DEF Inv
<1>q. QED
  BY <1>1, <1>2 DEF Inv, ContentInv, Backups, FilesOf

LEMMA BegunKeeps ==
    ASSUME Inv, NEW m \in {0} \cup Backups, NEW k \in MyKeys, Begun(m, k), auto' \in BOOLEAN,
           \/ at' = "resolve" /\ m # 0
           \/ at' = "lookup" /\ manifests # <<>>
    PROVE  Inv'
<1>1. /\ restores < MaxRestores /\ restores' = restores + 1
      /\ wanted' = m /\ chain' = <<>> /\ step' = 0 /\ left' = {} /\ errors' = {} /\ kept' = {}
      /\ myKey' = k /\ anchorCheck' = "none" /\ merkleVerified' = FALSE
      /\ UNCHANGED <<content, localIndex, mfsMap, registering, target, marker>>
  BY DEF Begun
<1>2. /\ ContentInv' /\ TypeOK /\ ContentTypeOK' /\ Backups' = Backups /\ UNCHANGED manifests
  BY <1>1, RestoreKept
<1>3. TypeOK'
  <2>1. chain' \in Seq(Backups) /\ Len(chain') = 0
    BY <1>1, EmptySeq
  <2>2. restores' \in 0..MaxRestores /\ step' \in 0..Len(chain')
    BY <1>1, <1>2, <2>1, RecoveryAssumption DEF TypeOK
  <2>3. k \in Keys /\ at' \in Stages
    BY RecoveryAssumption DEF Stages
  <2>q. QED
    BY <1>1, <1>2, <2>1, <2>2, <2>3 DEF TypeOK
<1>4. ChainInv'
  BY <1>1, <1>2 DEF ChainInv
<1>5. RestoreInv'
  BY <1>1 DEF RestoreInv, CleanRestoreVerifies
<1>q. QED
  BY <1>2, <1>3, <1>4, <1>5 DEF Inv

(* A step that comes to another stage and touches neither the chain nor,   *)
(* but for the file that is written after verification, the files.         *)
LEMMA StageKeeps ==
    ASSUME Inv, UNCHANGED <<content, registering, restores, myKey, auto, mfsMap, wanted, chain,
                            step, left, errors, kept, merkleVerified>>,
           \/ UNCHANGED target
           \/ WriteRecoveryFile /\ at = "context" /\ at' \in {"marker", "failed"},
           localIndex' \subseteq Backups, anchorCheck' \in {"none", "verified",
               "manifest_not_latest_on_chain", "verification_unavailable"},
           marker' \in [manifest : {0} \cup Backups, verified : BOOLEAN, context : BOOLEAN],
           at' \in {"resolve", "anchor", "unresolved", "failed", "marker", "done"},
           at' = "resolve" => at = "mfs",
           at' = "anchor" => at = "resolve" /\ chain # <<>>,
           at' \in {"marker", "done"} => at \in {"context", "marker"},
           at' = "unresolved" => at = "mfs"
    PROVE  Inv'
<1>1. /\ ContentInv' /\ TypeOK /\ ContentTypeOK' /\ Backups' = Backups /\ UNCHANGED manifests
      /\ \A m : FilesOf(m)' = FilesOf(m)
  BY RestoreKept
<1>2. TypeOK'
  <2>1. target' \in [Files -> Bytes \cup {RecoveryNote}]
    BY <1>1 DEF TypeOK, WriteRecoveryFile
  <2>q. QED
    BY <1>1, <2>1 DEF TypeOK, Stages
<1>3. ChainInv'
  BY <1>1 DEF Inv, ChainInv
<1>4. Obsolete' = Obsolete /\ FilesOf(wanted)' = FilesOf(wanted)
  BY <1>1 DEF Obsolete, FilesOf
<1>5. at' \notin {"download", "delete"}
  OBVIOUS
<1>6. CleanRestoreVerifies'
  BY <1>1, <1>4 DEF Inv, RestoreInv, CleanRestoreVerifies
<1>7. ASSUME merkleVerified, NEW f \in Files
      PROVE  /\ Rewritten(f) => Rewritten(f)'
             /\ Rewritten(f)' \/ target'[f] = target[f]
  <2>1. at \in {"context", "marker", "done", "failed"}
    BY <1>7 DEF Inv, RestoreInv
  <2>2. CASE UNCHANGED target
    BY <2>1, <2>2 DEF Rewritten
  <2>3. CASE WriteRecoveryFile /\ at = "context" /\ at' \in {"marker", "failed"}
    <3>1. auto
      BY <2>3 DEF Inv, ChainInv
    <3>2. f = RecoveryFile => target'[f] = RecoveryNote
      BY <1>1, <2>3 DEF TypeOK, WriteRecoveryFile
    <3>3. f # RecoveryFile => target'[f] = target[f]
      BY <1>1, <2>3 DEF TypeOK, WriteRecoveryFile
    <3>q. QED
      BY <2>3, <3>1, <3>2, <3>3 DEF Rewritten
  <2>q. QED
    BY <2>2, <2>3
<1>8. ASSUME merkleVerified
      PROVE  /\ at' \in {"context", "marker", "done", "failed"} /\ chain # <<>>
             /\ \A f \in FilesOf(wanted) :
                   Rewritten(f)' \/ target'[f] = manifests[wanted].files[f].hash
             /\ \A f \in Obsolete \ kept : Rewritten(f)' \/ target'[f] = Gone
  <2>1. /\ at \in {"context", "marker", "done", "failed"} /\ chain # <<>>
        /\ \A f \in FilesOf(wanted) :
              Rewritten(f) \/ target[f] = manifests[wanted].files[f].hash
        /\ \A f \in Obsolete \ kept : Rewritten(f) \/ target[f] = Gone
    BY <1>8 DEF Inv, RestoreInv
  <2>2. FilesOf(wanted) \subseteq Files /\ Obsolete \subseteq Files
    BY <2>1, ChainFound DEF FilesOf
  <2>q. QED
    BY <1>7, <1>8, <2>1, <2>2
<1>9. RestoreInv'
  BY <1>1, <1>4, <1>5, <1>6, <1>8 DEF RestoreInv
<1>q. QED
  BY <1>1, <1>2, <1>3, <1>9 DEF Inv

LEMMA ResolveLocallyKeeps ==
    ASSUME Inv, ResolveLocally
    PROVE  Inv'
<1>1. /\ at = "lookup" /\ wanted' = Len(manifests) /\ at' \in {"resolve", "mfs"}
      /\ UNCHANGED <<localIndex, mfsMap, target, chain, step, left, errors, kept,
                     anchorCheck, merkleVerified, marker, content, registering, restores,
                     myKey, auto>>
  BY DEF ResolveLocally, RestoreKeeps
<1>2. /\ ContentInv' /\ TypeOK /\ ContentTypeOK' /\ Backups' = Backups /\ UNCHANGED manifests
  BY <1>1, RestoreKept
<1>3. chain = <<>> /\ manifests # <<>>
  BY <1>1 DEF Inv, ChainInv
<1>4. wanted' \in Backups /\ wanted' # 0
  BY <1>1, <1>3, BackupsAre, EmptySeq DEF Inv, ContentInv, ContentTypeOK
<1>5. TypeOK'
  BY <1>1, <1>2, <1>4 DEF TypeOK, Stages
<1>6. ChainInv'
  BY <1>1, <1>3, <1>4 DEF ChainInv
<1>7. RestoreInv'
  BY <1>1, <1>3 DEF Inv, RestoreInv, CleanRestoreVerifies
<1>q. QED
  BY <1>2, <1>5, <1>6, <1>7 DEF Inv

LEMMA ResolveManifestKeeps ==
    ASSUME Inv, ResolveManifest
    PROVE  Inv'
<1>1. /\ at = "resolve" /\ NextManifest # 0 /\ chain' = <<NextManifest>> \o chain
      /\ UNCHANGED <<localIndex, mfsMap, target, at, wanted, step, left, errors, kept,
                     anchorCheck, merkleVerified, marker, content, registering, restores,
                     myKey, auto>>
  BY DEF ResolveManifest, RestoreKeeps
<1>2. /\ ContentInv' /\ TypeOK /\ ContentTypeOK' /\ Backups' = Backups /\ UNCHANGED manifests
  BY <1>1, RestoreKept
<1>3. NextManifest \in Backups
  <2>1. CASE chain = <<>>
    BY <1>1, <1>2, <2>1 DEF NextManifest, TypeOK
  <2>2. CASE chain # <<>>
    <3>1. chain[1] \in Backups
      BY <1>2, <2>2, ChainIs DEF Inv
    <3>2. /\ manifests[chain[1]].parent \in Nat
          /\ manifests[chain[1]].parent < chain[1]
          /\ Backups = 1..Len(manifests) /\ Len(manifests) \in Nat
      BY <3>1, BackupsAre DEF Inv, ContentInv
    <3>q. QED
      BY <1>1, <2>2, <3>1, <3>2 DEF NextManifest
  <2>q. QED
    BY <2>1, <2>2
<1>4. /\ chain' \in Seq(Backups) /\ Len(chain') = Len(chain) + 1
      /\ \A i \in 1..(Len(chain) + 1) :
            chain'[i] = IF i = 1 THEN NextManifest ELSE chain[i - 1]
  <2>1. /\ <<NextManifest>> \in Seq(Backups) /\ Len(<<NextManifest>>) = 1
        /\ <<NextManifest>>[1] = NextManifest
    BY <1>3
  <2>2. chain \in Seq(Backups) /\ Len(chain) \in Nat
    BY <1>2, ChainIs DEF TypeOK, Inv
  <2>3. /\ chain' \in Seq(Backups) /\ Len(chain') = 1 + Len(chain)
        /\ \A i \in 1..(1 + Len(chain)) :
              chain'[i] = IF i <= 1 THEN <<NextManifest>>[i] ELSE chain[i - 1]
    BY <1>1, <2>1, <2>2, ConcatProperties
  <2>q. QED
    BY <2>1, <2>2, <2>3
<1>5. TypeOK'
  <2>1. step' \in 0..Len(chain')
    BY <1>1, <1>2, <1>4, ChainIs DEF TypeOK, Inv
  <2>q. QED
    BY <1>1, <1>2, <1>4, <2>1 DEF TypeOK
<1>6. ChainInv'
  <2>1. Len(chain) \in Nat /\ (chain # <<>> => Len(chain) # 0) /\ (chain = <<>> => Len(chain) = 0)
    BY <1>2, ChainIs, EmptySeq DEF TypeOK, Inv
  <2>2. chain'[Len(chain')] = wanted
    <3>1. CASE chain = <<>>
      BY <1>4, <2>1, <3>1 DEF NextManifest
    <3>2. CASE chain # <<>>
      BY <1>4, <2>1, <3>2 DEF Inv, ChainInv
    <3>q. QED
      BY <3>1, <3>2
  <2>q. QED
    BY <1>1, <1>2, <2>2 DEF Inv, ChainInv
<1>7. RestoreInv'
  BY <1>1 DEF Inv, RestoreInv, CleanRestoreVerifies
<1>q. QED
  BY <1>2, <1>5, <1>6, <1>7 DEF Inv

LEMMA BeginDownloadKeeps ==
    ASSUME Inv, at = "anchor", BeginDownload,
           anchorCheck' \in {"verified", "manifest_not_latest_on_chain",
                             "verification_unavailable"}
    PROVE  Inv'
<1>1. /\ at' = "download" /\ step' = 1 /\ left' = FilesOf(chain[1])
      /\ UNCHANGED <<localIndex, mfsMap, target, wanted, chain, errors, kept,
                     merkleVerified, marker, content, registering, restores, myKey, auto>>
  BY DEF BeginDownload, RestoreKeeps
<1>2. /\ ContentInv' /\ TypeOK /\ ContentTypeOK' /\ Backups' = Backups /\ UNCHANGED manifests
      /\ \A m : FilesOf(m)' = FilesOf(m)
  BY <1>1, RestoreKept
<1>3. chain # <<>> /\ ~merkleVerified
  BY DEF Inv, ChainInv, RestoreInv
<1>4. TypeOK'
  <2>1. step' \in 0..Len(chain') /\ left' \subseteq Files
    BY <1>1, <1>3, ChainFound DEF FilesOf
  <2>q. QED
    BY <1>1, <1>2, <2>1 DEF TypeOK, Stages
<1>5. ChainInv'
  BY <1>1, <1>2, <1>3 DEF Inv, ChainInv
<1>6. RestoreInv'
  <2>1. left' \subseteq FilesOf(chain[step])'
    BY <1>1, <1>2 DEF FilesOf
  <2>2. step' = Len(chain') => Restored(left)'
    <3>1. SUFFICES ASSUME 1 = Len(chain) PROVE FilesOf(wanted)' = left'
      BY <1>1 DEF Restored
    <3>2. chain[1] = wanted
      BY <1>3, <3>1, ChainFound
    <3>q. QED
      BY <1>1, <1>2, <3>2 DEF FilesOf
  <2>q. QED
    BY <1>1, <1>3, <2>1, <2>2 DEF RestoreInv, CleanRestoreVerifies
<1>q. QED
  BY <1>2, <1>4, <1>5, <1>6 DEF Inv

LEMMA DownloadFileKeeps ==
    ASSUME Inv, DownloadFile
    PROVE  Inv'
<1> DEFINE f == First(left)
           e == manifests[chain[step]].files[f]
<1>1. /\ at = "download" /\ left # {} /\ left' = left \ {f}
      /\ target' = [target EXCEPT ![f] = e.blob]
      /\ UNCHANGED <<localIndex, mfsMap, at, wanted, chain, step, errors, kept, anchorCheck,
                     merkleVerified, marker, content, registering, restores, myKey, auto>>
  BY DEF DownloadFile, RestoreKeeps
<1>2. /\ ContentInv' /\ TypeOK /\ ContentTypeOK' /\ Backups' = Backups /\ UNCHANGED manifests
      /\ \A m : FilesOf(m)' = FilesOf(m)
  BY <1>1, RestoreKept
<1>3. chain # <<>> /\ ~merkleVerified /\ step # 0 /\ left \subseteq FilesOf(chain[step])
  BY <1>1 DEF Inv, ChainInv, RestoreInv
<1>4. f \in left /\ f \in Files
  BY <1>1, <1>2, FirstIsIn DEF TypeOK
<1>5. step \in DOMAIN chain /\ chain[step] \in Backups
  BY <1>2, <1>3, ChainFound DEF TypeOK
<1>6. e.blob \in Bytes
  <2>1. e \in Entry
    BY <1>4, <1>5, BackupsAre DEF Inv, ContentInv
  <2>q. QED
    BY <2>1 DEF Entry
<1> HIDE DEF f
<1>7. TypeOK'
  <2>1. target' \in [Files -> Bytes \cup {RecoveryNote}]
    BY <1>1, <1>2, <1>6 DEF TypeOK
  <2>q. QED
    BY <1>1, <1>2, <2>1 DEF TypeOK
<1>8. ChainInv'
  BY <1>1, <1>2 DEF Inv, ChainInv
<1>9. RestoreInv'
  <2>1. left' \subseteq FilesOf(chain[step])'
    BY <1>1, <1>2, <1>3 DEF FilesOf
  <2>2. step' = Len(chain') => Restored(left)'
    <3>1. SUFFICES ASSUME step = Len(chain),
                          NEW g \in FilesOf(wanted) \ ((left \ {f}) \cup errors)
                   PROVE  target'[g] = manifests[wanted].files[g].blob
      BY <1>1, <1>2 DEF Restored, FilesOf
    <3>2. Restored(left) /\ chain[step] = wanted /\ g \in Files
      BY <1>1, <1>3, <3>1, ChainFound DEF Inv, RestoreInv, FilesOf
    <3>3. target'[g] = IF g = f THEN e.blob ELSE target[g]
      BY <1>1, <1>2, <3>2 DEF TypeOK
    <3>q. QED
      BY <3>1, <3>2, <3>3 DEF Restored
  <2>q. QED
    BY <1>1, <1>3, <2>1, <2>2 DEF RestoreInv, CleanRestoreVerifies
<1>q. QED
  BY <1>2, <1>7, <1>8, <1>9 DEF Inv

LEMMA DownloadFailsKeeps ==
    ASSUME Inv, DownloadFails
    PROVE  Inv'
<1> DEFINE f == First(left)
<1>1. /\ at = "download" /\ left # {} /\ left' = left \ {f} /\ errors' = errors \cup {f}
      /\ UNCHANGED <<localIndex, mfsMap, target, at, wanted, chain, step, kept, anchorCheck,
                     merkleVerified, marker, content, registering, restores, myKey, auto>>
  BY DEF DownloadFails, RestoreKeeps
<1>2. /\ ContentInv' /\ TypeOK /\ ContentTypeOK' /\ Backups' = Backups /\ UNCHANGED manifests
      /\ \A m : FilesOf(m)' = FilesOf(m)
  BY <1>1, RestoreKept
<1>3. chain # <<>> /\ ~merkleVerified /\ step # 0 /\ left \subseteq FilesOf(chain[step])
  BY <1>1 DEF Inv, ChainInv, RestoreInv
<1>4. f \in left /\ f \in Files
  BY <1>1, <1>2, FirstIsIn DEF TypeOK
<1> HIDE DEF f
<1>5. TypeOK'
  BY <1>1, <1>2, <1>4 DEF TypeOK
<1>6. ChainInv'
  BY <1>1, <1>2 DEF Inv, ChainInv
<1>7. RestoreInv'
  <2>1. left' \subseteq FilesOf(chain[step])'
    BY <1>1, <1>2, <1>3 DEF FilesOf
  <2>2. step' = Len(chain') => Restored(left)'
    BY <1>1, <1>2 DEF Inv, RestoreInv, Restored, FilesOf
  <2>q. QED
    BY <1>1, <1>3, <2>1, <2>2 DEF RestoreInv, CleanRestoreVerifies
<1>q. QED
  BY <1>2, <1>5, <1>6, <1>7 DEF Inv

LEMMA NextStepKeeps ==
    ASSUME Inv, NextStep
    PROVE  Inv'
<1>1. /\ at = "download" /\ left = {}
      /\ \/ /\ step < Len(chain) /\ step' = step + 1 /\ left' = FilesOf(chain[step + 1])
            /\ at' = at
         \/ step >= Len(chain) /\ at' = "delete" /\ left' = Obsolete /\ step' = step
      /\ UNCHANGED <<localIndex, mfsMap, target, wanted, chain, errors, kept, anchorCheck,
                     merkleVerified, marker, content, registering, restores, myKey, auto>>
  <2>1. Len(chain) \in Nat /\ step \in Nat
    BY ChainIs DEF Inv, TypeOK
  <2>q. QED
    BY <2>1 DEF NextStep, RestoreKeeps
<1>2. /\ ContentInv' /\ TypeOK /\ ContentTypeOK' /\ Backups' = Backups /\ UNCHANGED manifests
      /\ \A m : FilesOf(m)' = FilesOf(m)
  BY <1>1, RestoreKept
<1>3. chain # <<>> /\ ~merkleVerified /\ step # 0 /\ step \in 0..Len(chain) /\ Len(chain) \in Nat
  BY <1>1, <1>2, ChainFound DEF Inv, ChainInv, RestoreInv, TypeOK
<1>4. ChainInv'
  BY <1>1, <1>2, <1>3 DEF Inv, ChainInv
<1>5. CASE step < Len(chain) /\ step' = step + 1 /\ left' = FilesOf(chain[step + 1]) /\ at' = at
  <2>1. TypeOK'
    <3>1. step' \in 0..Len(chain') /\ left' \subseteq Files
      BY <1>1, <1>3, <1>5 DEF FilesOf
    <3>q. QED
      BY <1>1, <1>2, <1>5, <3>1 DEF TypeOK
  <2>2. left' \subseteq FilesOf(chain[step])'
    BY <1>1, <1>2, <1>5 DEF FilesOf
  <2>3. step' = Len(chain') => Restored(left)'
    <3>1. SUFFICES ASSUME step + 1 = Len(chain) PROVE FilesOf(wanted)' = left'
      BY <1>1, <1>5 DEF Restored
    <3>2. chain[step + 1] = wanted
      BY <1>3, <3>1, ChainFound
    <3>q. QED
      BY <1>1, <1>2, <1>5, <3>2 DEF FilesOf
  <2>4. RestoreInv'
    BY <1>1, <1>3, <1>5, <2>2, <2>3 DEF RestoreInv, CleanRestoreVerifies
  <2>q. QED
    BY <1>2, <1>4, <2>1, <2>4 DEF Inv
<1>6. CASE step >= Len(chain) /\ at' = "delete" /\ left' = Obsolete /\ step' = step
  <2>1. Obsolete' = Obsolete
    BY <1>1, <1>2 DEF Obsolete, FilesOf
  <2>2. TypeOK'
    BY <1>1, <1>2, <1>3, <1>6, ChainFound DEF TypeOK, Stages
  <2>3. Restored({})'
    <3>1. Restored({})
      BY <1>1, <1>3, <1>6 DEF Inv, RestoreInv
    <3>q. QED
      BY <1>1, <1>2, <3>1 DEF Restored, FilesOf
  <2>4. RestoreInv'
    BY <1>1, <1>3, <1>6, <2>1, <2>3 DEF RestoreInv, CleanRestoreVerifies, Unlinked
  <2>q. QED
    BY <1>2, <1>4, <2>2, <2>4 DEF Inv
<1>q. QED
  BY <1>1, <1>5, <1>6

LEMMA DeleteFileKeeps ==
    ASSUME Inv, NEW deleted \in BOOLEAN, DeleteFile(deleted)
    PROVE  Inv'
<1> DEFINE f == First(left)
<1>1. /\ at = "delete" /\ left # {} /\ left' = left \ {f}
      /\ target' = IF deleted THEN [target EXCEPT ![f] = Gone] ELSE target
      /\ kept' = IF deleted THEN kept ELSE kept \cup {f}
      /\ UNCHANGED <<localIndex, mfsMap, at, wanted, chain, step, errors, anchorCheck,
                     merkleVerified, marker, content, registering, restores, myKey, auto>>
  BY DEF DeleteFile, RestoreKeeps
<1>2. /\ ContentInv' /\ TypeOK /\ ContentTypeOK' /\ Backups' = Backups /\ UNCHANGED manifests
      /\ \A m : FilesOf(m)' = FilesOf(m)
  BY <1>1, RestoreKept
<1>3. chain # <<>> /\ ~merkleVerified /\ left \subseteq Obsolete /\ Restored({}) /\ Unlinked
  BY <1>1 DEF Inv, ChainInv, RestoreInv
<1>4. f \in left /\ f \in Files
  BY <1>1, <1>2, FirstIsIn DEF TypeOK
<1> HIDE DEF f
<1>5. TypeOK'
  <2>1. target' \in [Files -> Bytes \cup {RecoveryNote}]
    BY <1>1, <1>2, NoEntryType DEF TypeOK
  <2>q. QED
    BY <1>1, <1>2, <1>4, <2>1 DEF TypeOK
<1>6. ChainInv'
  BY <1>1, <1>2 DEF Inv, ChainInv
<1>7. \A g \in Files : target'[g] = IF deleted /\ g = f THEN Gone ELSE target[g]
  BY <1>1, <1>2 DEF TypeOK
<1>8. Obsolete' = Obsolete /\ FilesOf(wanted)' = FilesOf(wanted)
  BY <1>1, <1>2 DEF Obsolete, FilesOf
<1>9. Restored({})'
  <2>1. f \notin FilesOf(wanted)
    BY <1>3, <1>4, ChainFound
  <2>q. QED
    BY <1>1, <1>2, <1>3, <1>7, <1>8, <2>1 DEF Restored, FilesOf
<1>10. Unlinked'
  BY <1>1, <1>3, <1>7, <1>8, ChainFound DEF Unlinked
<1>11. RestoreInv'
  BY <1>1, <1>3, <1>8, <1>9, <1>10 DEF RestoreInv, CleanRestoreVerifies
<1>q. QED
  BY <1>2, <1>5, <1>6, <1>11 DEF Inv

LEMMA VerifyRestoredFilesKeeps ==
    ASSUME Inv, VerifyRestoredFiles
    PROVE  Inv'
<1>1. /\ at = "delete" /\ left = {}
      /\ merkleVerified' =
            \A f \in FilesOf(chain[Len(chain)]) : target[f] = Latest.files[f].hash
      /\ at' = IF auto THEN "context" ELSE "done"
      /\ UNCHANGED <<localIndex, mfsMap, target, wanted, chain, step, left, errors, kept,
                     anchorCheck, marker, content, registering, restores, myKey, auto>>
  BY DEF VerifyRestoredFiles, RestoreKeeps
<1>2. /\ ContentInv' /\ TypeOK /\ ContentTypeOK' /\ Backups' = Backups /\ UNCHANGED manifests
      /\ \A m : FilesOf(m)' = FilesOf(m)
  BY <1>1, RestoreKept
<1>3. /\ chain # <<>> /\ Restored({}) /\ Unlinked
      /\ wanted \in Backups /\ chain[Len(chain)] = wanted
  BY <1>1, ChainFound DEF Inv, ChainInv, RestoreInv
<1>4. merkleVerified' = \A f \in FilesOf(wanted) : target[f] = manifests[wanted].files[f].hash
  BY <1>1, <1>3 DEF Latest
<1>5. merkleVerified' \in BOOLEAN
  BY <1>4
<1>6. TypeOK'
  BY <1>1, <1>2, <1>5 DEF TypeOK, Stages
<1>7. ChainInv'
  BY <1>1, <1>2, <1>3 DEF Inv, ChainInv
<1>8. Obsolete' = Obsolete /\ FilesOf(wanted)' = FilesOf(wanted)
  BY <1>1, <1>2 DEF Obsolete, FilesOf
<1>9. \A f \in Obsolete \ kept : target[f] = Gone
  BY <1>1, <1>3 DEF Unlinked
<1>10. errors \cap FilesOf(wanted) = {} => merkleVerified'
  <2>1. SUFFICES ASSUME errors \cap FilesOf(wanted) = {}, NEW f \in FilesOf(wanted)
                 PROVE  target[f] = manifests[wanted].files[f].hash
    BY <1>4
  <2>2. f \in Files /\ EntrySound(manifests[wanted].files[f])
    BY <1>3 DEF FilesOf, Inv, ContentInv, ManifestInv
  <2>q. QED
    BY <1>3, <2>1, <2>2 DEF Restored, EntrySound
<1>11. RestoreInv'
  BY <1>1, <1>2, <1>3, <1>4, <1>8, <1>9, <1>10 DEF RestoreInv, CleanRestoreVerifies
<1>q. QED
  BY <1>2, <1>6, <1>7, <1>11 DEF Inv

LEMMA RestoreStepKeeps ==
    ASSUME Inv, RestoreStep
    PROVE  Inv'
<1>1. /\ TypeOK /\ ContentInv
      /\ marker \in [manifest : {0} \cup Backups, verified : BOOLEAN, context : BOOLEAN]
      /\ localIndex \subseteq Backups /\ merkleVerified \in BOOLEAN
  BY DEF Inv, TypeOK
<1>2. ASSUME ResolveFromMfs PROVE Inv'
  <2>1. /\ at = "mfs" /\ wanted # 0 /\ wanted \in {0} \cup Backups
    BY <1>2 DEF ResolveFromMfs, Inv, ChainInv, TypeOK
  <2>2. localIndex' \subseteq Backups /\ at' \in {"resolve", "unresolved"}
    BY <1>1, <1>2, <2>1 DEF ResolveFromMfs, cacheLocally
  <2>q. QED
    BY <1>1, <1>2, <2>1, <2>2, StageKeeps DEF ResolveFromMfs, RestoreKeeps, TypeOK
<1>3. ASSUME ChainResolved PROVE Inv'
  BY <1>1, <1>3, StageKeeps DEF ChainResolved, RestoreKeeps, TypeOK
<1>4. ASSUME NEW written \in BOOLEAN, InjectRecoveryContext(written) PROVE Inv'
  <2>1. marker' \in [manifest : {0} \cup Backups, verified : BOOLEAN, context : BOOLEAN]
    BY <1>1, <1>4 DEF InjectRecoveryContext
  <2>q. QED
    BY <1>1, <1>4, <2>1, StageKeeps DEF InjectRecoveryContext, RestoreKeeps, TypeOK
<1>5. ASSUME WriteRestoreMarker PROVE Inv'
  <2>1. marker' \in [manifest : {0} \cup Backups, verified : BOOLEAN, context : BOOLEAN]
    BY <1>1, <1>5 DEF WriteRestoreMarker, TypeOK
  <2>q. QED
    BY <1>1, <1>5, <2>1, StageKeeps DEF WriteRestoreMarker, RestoreKeeps, TypeOK
<1>6. ASSUME CheckAnchor \/ AnchorUnavailable PROVE Inv'
  BY <1>6, BeginDownloadKeeps DEF CheckAnchor, AnchorUnavailable
<1>7. ASSUME ResolveLocally \/ ResolveManifest \/ DownloadFile \/ DownloadFails \/ NextStep
             \/ VerifyRestoredFiles
      PROVE  Inv'
  BY <1>7, ResolveLocallyKeeps, ResolveManifestKeeps, DownloadFileKeeps, DownloadFailsKeeps,
     NextStepKeeps, VerifyRestoredFilesKeeps
<1>q. QED
  BY <1>2, <1>3, <1>4, <1>5, <1>6, <1>7, DeleteFileKeeps DEF RestoreStep

-----------------------------------------------------------------------------
(* The invariant *)

LEMMA InitInv == Init => Inv
<1> SUFFICES ASSUME Init PROVE Inv
  OBVIOUS
<1>1. ContentInv
  BY InitContent DEF Init
<1>2. PICK b \in {Gone} \cup ({"raw"} \X Contents) :
        target = [f \in Files |-> IF f = ContextFile THEN Gone ELSE b]
  BY DEF Init
<1>3. b \in Bytes
  <2>1. CASE b = Gone
    BY <2>1, NoEntryType
  <2>2. CASE b \in {"raw"} \X Contents
    BY <2>2, ContentAssumption DEF Bytes, Values
  <2>q. QED
    BY <2>1, <2>2
<1>4. TypeOK
  <2>1. target \in [Files -> Bytes \cup {RecoveryNote}]
    BY <1>2, <1>3, NoEntryType
  <2>2. chain \in Seq(Backups) /\ step \in 0..Len(chain) /\ restores \in 0..MaxRestores
    BY EmptySeq, RecoveryAssumption DEF Init
  <2>3. /\ left \subseteq Files /\ errors \subseteq Files /\ kept \subseteq Files
        /\ localIndex \subseteq Backups /\ mfsMap \subseteq Backups
        /\ registering \in {0} \cup Backups /\ wanted \in {0} \cup Backups
    BY DEF Init
  <2>4. /\ at \in Stages /\ myKey \in Keys /\ anchorCheck = "none"
        /\ merkleVerified \in BOOLEAN /\ auto \in BOOLEAN
    BY RecoveryAssumption DEF Init, Stages
  <2>5. marker \in [manifest : {0} \cup Backups, verified : BOOLEAN, context : BOOLEAN]
    BY DEF Init, NoMarker
  <2>q. QED
    BY <1>1, <2>1, <2>2, <2>3, <2>4, <2>5 DEF TypeOK, ContentInv
<1>5. ChainInv /\ RestoreInv
  BY DEF Init, ChainInv, RestoreInv, CleanRestoreVerifies
<1>q. QED
  BY <1>1, <1>4, <1>5 DEF Inv

LEMMA OwnerKeeps ==
    ASSUME Inv,
           \/ ContentNext /\ UNCHANGED rvars
           \/ \E known \in BOOLEAN : AnchorBackup(known)
           \/ \E read \in BOOLEAN : UpdateMfsCidMap(read)
           \/ UpdateMfsCidMapFails
    PROVE  Inv'
<1>1. ContentInv /\ mfsMap \subseteq Backups /\ registering \in {0} \cup Backups
  BY DEF Inv, TypeOK
<1>2. ASSUME ContentNext, UNCHANGED rvars PROVE Inv'
  <2>1. ContentInv' /\ UNCHANGED <<manifests, lived>>
    BY <1>1, <1>2, ContentNextKeeps
  <2>2. Grows /\ Backups' = Backups
    BY <2>1 DEF Grows, Backups
  <2>q. QED
    BY <1>1, <1>2, <2>1, <2>2, OwnerMoves DEF rvars
<1>3. ASSUME NEW known \in BOOLEAN, AnchorBackup(known) PROVE Inv'
  <2>1. Anchor(known)
    BY <1>3 DEF AnchorBackup
  <2>2. ContentInv' /\ Grows /\ Backups' = Backups \cup {Len(manifests) + 1}
    BY <1>1, <2>1, AnchorKeeps
  <2>q. QED
    BY <1>1, <1>3, <2>2, OwnerMoves DEF AnchorBackup
<1>4. ASSUME NEW read \in BOOLEAN, UpdateMfsCidMap(read) \/ UpdateMfsCidMapFails PROVE Inv'
  <2>1. UNCHANGED content
    BY <1>4 DEF UpdateMfsCidMap, UpdateMfsCidMapFails
  <2>2. ContentInv' /\ Grows /\ Backups' = Backups
    BY <1>1, <2>1, ContentKept DEF content, Backups
  <2>q. QED
    BY <1>1, <1>4, <2>2, OwnerMoves DEF UpdateMfsCidMap, UpdateMfsCidMapFails
<1>q. QED
  BY <1>2, <1>3, <1>4

LEMMA NextInv == Inv /\ [Next]_vars => Inv'
<1> SUFFICES ASSUME Inv, [Next]_vars PROVE Inv'
  OBVIOUS
<1>1. ContentInv /\ TypeOK
  BY DEF Inv
<1>2. ASSUME NEW k \in MyKeys, RestoreCommand(k) PROVE Inv'
  <2>1. PICK m \in Backups : RestoreFromManifestCid(m, k)
    BY <1>2 DEF RestoreCommand
  <2>2. m # 0
    BY <1>1, ChainIs
  <2>q. QED
    BY <2>1, <2>2, BegunKeeps DEF RestoreFromManifestCid
<1>3. ASSUME NEW k \in MyKeys, AutoRestoreTool(k) PROVE Inv'
  BY <1>3, BegunKeeps DEF AutoRestoreTool, RestoreFromChain
<1>4. ASSUME RestoreFails PROVE Inv'
  BY <1>1, <1>4, StageKeeps DEF RestoreFails, RestoreKeeps, TypeOK
<1>5. ASSUME UNCHANGED vars PROVE Inv'
  <2>1. UNCHANGED content /\ UNCHANGED rvars
    BY <1>5 DEF vars
  <2>2. ContentInv' /\ Grows /\ Backups' = Backups
    BY <1>1, <2>1, ContentKept DEF content, Backups
  <2>q. QED
    BY <1>1, <2>1, <2>2, OwnerMoves DEF rvars, TypeOK
<1>q. QED
  BY <1>2, <1>3, <1>4, <1>5, RestoreStepKeeps, OwnerKeeps DEF Next

(* A restore that is verified is one backup: what the manifest asked for   *)
(* names was there during its run, and what it does not name was absent.   *)
LEMMA VerifiedShown == Inv => VerifiedIsOneBackup
<1> SUFFICES ASSUME Inv, merkleVerified
             PROVE  /\ \A f \in FilesOf(wanted) :
                          \/ Rewritten(f)
                          \/ WithoutWal(f, target[f])
                          \/ target[f] # Gone /\ target[f][2] \in lived[wanted][f]
                    /\ \A f \in Obsolete \ kept :
                          /\ target[f] = Gone \/ Rewritten(f)
                          /\ 0 \in lived[wanted][f]
  BY DEF VerifiedIsOneBackup
<1>1. /\ chain # <<>>
      /\ \A f \in FilesOf(wanted) :
            Rewritten(f) \/ target[f] = manifests[wanted].files[f].hash
      /\ \A f \in Obsolete \ kept : Rewritten(f) \/ target[f] = Gone
  BY DEF Inv, RestoreInv
<1>2. wanted \in Backups /\ Obsolete \subseteq Files /\ Obsolete \cap FilesOf(wanted) = {}
  BY <1>1, ChainFound
<1>3. \A f \in Files : /\ EntrySound(manifests[wanted].files[f])
                       /\ Had(f, manifests[wanted].files[f].blob, lived[wanted][f])
  BY <1>2 DEF Inv, ContentInv, ManifestInv
<1>4. ASSUME NEW f \in FilesOf(wanted), ~Rewritten(f)
      PROVE  \/ WithoutWal(f, target[f])
             \/ target[f] # Gone /\ target[f][2] \in lived[wanted][f]
  <2>1. f \in Files /\ manifests[wanted].files[f] # NoEntry
    BY DEF FilesOf
  <2>2. target[f] = manifests[wanted].files[f].blob /\ manifests[wanted].files[f].blob # Gone
    BY <1>1, <1>3, <1>4, <2>1 DEF EntrySound
  <2>q. QED
    BY <1>3, <2>1, <2>2 DEF Had
<1>5. ASSUME NEW f \in Obsolete \ kept
      PROVE  0 \in lived[wanted][f]
  <2>1. f \in Files /\ manifests[wanted].files[f] = NoEntry
    BY <1>2 DEF FilesOf
  <2>2. manifests[wanted].files[f].blob = Gone
    BY <2>1 DEF NoEntry
  <2>3. ~WithoutWal(f, Gone) /\ Gone[2] = 0
    BY DEF WithoutWal, Gone
  <2>q. QED
    BY <1>1, <1>3, <2>1, <2>2, <2>3 DEF Had
<1>q. QED
  BY <1>1, <1>4, <1>5

-----------------------------------------------------------------------------
(* What holds of every behaviour *)

(* The invariant holds of every state that backups and restores reach.     *)
THEOREM Invariance == Spec => []Inv
<1>1. Inv /\ [Next]_vars => Inv'
  BY NextInv
<1>q. QED
  BY <1>1, InitInv, PTL DEF Spec

(* Every variable keeps its type, and a manifest's parent is an earlier    *)
(* one, so that the walk in resolveChainFromCid() ends.                    *)
THEOREM TypeCorrect == Spec => []TypeOK
<1>1. Inv => TypeOK
  BY DEF Inv
<1>q. QED
  BY <1>1, Invariance, PTL

(* A restore that reports merkleVerified has put back contents that the    *)
(* files had while the backup ran, however writes, checkpoints, scans and  *)
(* uploads interleaved and however many backups were anchored meanwhile.   *)
THEOREM VerifiedIsSound == Spec => []VerifiedIsOneBackup
<1>q. QED
  BY VerifiedShown, Invariance, PTL

(* Verification fails only if a download of a file of the newest manifest  *)
(* of the chain failed: uploadFiles() names the hash of what it uploads.   *)
THEOREM CleanVerifies == Spec => []CleanRestoreVerifies
<1>1. Inv => CleanRestoreVerifies
  BY DEF Inv, RestoreInv
<1>q. QED
  BY <1>1, Invariance, PTL

(* A skipped backup has nothing to save, though each file was read at      *)
(* another moment of its run.                                              *)
THEOREM SkippedWasSaved == Spec => []SkippedIsSaved
<1>1. Inv => SkippedIsSaved
  BY SkippedShown DEF Inv
<1>q. QED
  BY <1>1, Invariance, PTL
=============================================================================
