--------------------------- MODULE SnapshotContent ---------------------------
(***************************************************************************)
(* What a backup contains.  runBackup() scans the data directory, compares *)
(* it with the manifest of the previous backup, uploads what changed and   *)
(* carries the other entries over, while the agent goes on writing: a file *)
(* is read once when it is hashed and again when it is uploaded.           *)
(*                                                                         *)
(* Content is a number.  What is on disk or in IPFS is a pair of a form    *)
(* and a number: "raw" is a file as it is, "copy" a database as sqlite3's  *)
(* .backup writes it, whose header, and so whose hash, is never that of    *)
(* the original.  A hash is the pair it is the hash of.  A manifest is its *)
(* position in "manifests", 0 stands for none.                             *)
(***************************************************************************)
EXTENDS Integers, Sequences, FiniteSets

CONSTANTS
    Paths,        \* the eligible files, in the order of their paths, which is
                  \* also taken for the order of the walk
    ContextFile,  \* .coc-backup/context-snapshot.json, written by the backup
    Encrypted,    \* files that FILE_RULES encrypts
    Databases,    \* memory/*.sqlite, in WAL mode
    Contents,     \* contents the agent writes
    Keys,         \* what files are encrypted with: private key or password
    HasSqlite3,   \* whether the sqlite3 program is installed
    MaxRuns,      \* bound: backups begun
    MaxEdits      \* bound: writes of the agent

Files == {Paths[i] : i \in DOMAIN Paths}

(* Files are handled one at a time, in the order of the walk. *)
First(S) == Paths[CHOOSE i \in DOMAIN Paths :
                Paths[i] \in S /\ \A j \in 1..(i - 1) : Paths[j] \notin S]

ASSUME ContentAssumption ==
    /\ Paths \in Seq(Files)
    /\ ContextFile \in Files
    /\ Encrypted \subseteq Files
    /\ Databases \subseteq Files \ {ContextFile}
    /\ Contents \subseteq Nat \ {0}
    /\ HasSqlite3 \in BOOLEAN
    /\ MaxRuns \in Nat
    /\ MaxEdits \in Nat

VARIABLES
    disk,       \* disk[f]: content of f in the data directory; 0 if the walker
                \* does not get at it: absent, too large, directory unreadable
    main,       \* main[d]: what of it the .sqlite file holds, the WAL aside
    edits,      \* writes of the agent so far
    runs,       \* backups begun so far
    pc,         \* where _executeBackup is
    full,       \* isFullBackup
    toScan,     \* files the walker has still to read
    scanned,    \* scanned[f]: the hash in FileState, Gone if not found
    todo,       \* changedFiles still to upload
    uploaded,   \* uploaded.entries
    last,       \* lastManifest
    key,        \* encryptionPassword ?? privateKey
    manifests,  \* the contract's history, with the manifests it names
    seen,       \* history: contents each file had since the run began
    lived       \* history: lived[m]: seen, when manifest m was anchored

content == <<disk, main, edits, runs, pc, full, toScan, scanned, todo, uploaded,
             last, key, manifests, seen, lived>>

Gone == <<"none", 0>>
Plain == "plain"
NoEntry == [blob |-> Gone, hash |-> Gone, key |-> Plain]

Values == {0} \cup Contents \cup 1..MaxRuns
Bytes == {Gone} \cup ({"raw", "copy"} \X (Values \ {0}))
Entry == [blob : Bytes, hash : Bytes, key : Keys \cup {Plain}]
Manifest == [files : [Files -> Entry], parent : Nat]

ContentTypeOK ==
    /\ disk \in [Files -> Values]
    /\ main \in [Databases -> Values]
    /\ edits \in 0..MaxEdits
    /\ runs \in 0..MaxRuns
    /\ pc \in {"idle", "scan", "upload", "skipped"}
    /\ full \in BOOLEAN
    /\ toScan \subseteq Files
    /\ scanned \in [Files -> Bytes]
    /\ todo \subseteq Files
    /\ uploaded \in [Files -> Entry]
    /\ last \in 0..Len(manifests)
    /\ key \in Keys
    /\ manifests \in Seq(Manifest)
    /\ \A m \in DOMAIN manifests : manifests[m].parent < m
    /\ seen \in [Files -> SUBSET Values]
    /\ lived \in Seq([Files -> SUBSET Values])
    /\ Len(lived) = Len(manifests)

Quiet ==
    /\ full = FALSE
    /\ toScan = {}
    /\ scanned = [f \in Files |-> Gone]
    /\ todo = {}
    /\ uploaded = [f \in Files |-> NoEntry]
    /\ seen = [f \in Files |-> {}]

ContentInit ==
    /\ \E c \in Contents :
        /\ disk = [f \in Files |-> IF f = ContextFile THEN 0 ELSE c]
        /\ main = [d \in Databases |-> c]
    /\ edits = 0
    /\ runs = 0
    /\ pc = "idle"
    /\ Quiet
    /\ last = 0
    /\ key \in Keys
    /\ manifests = <<>>
    /\ lived = <<>>

(***************************************************************************)
(* The agent.                                                              *)
(***************************************************************************)

(* The agent creates, rewrites or deletes a file.  What it writes to an    *)
(* existing database goes to the WAL.                                      *)
Edit(f, c) ==
    /\ edits < MaxEdits
    /\ disk[f] # c
    /\ disk' = [disk EXCEPT ![f] = c]
    /\ main' = IF f \in Databases /\ (c = 0 \/ main[f] = 0)
               THEN [main EXCEPT ![f] = c] ELSE main
    /\ edits' = edits + 1
    /\ seen' = IF pc = "idle" THEN seen ELSE [seen EXCEPT ![f] = @ \cup {c}]
    /\ UNCHANGED <<runs, pc, full, toScan, scanned, todo, uploaded, last, key,
                   manifests, lived>>

(* SQLite moves the WAL into the database file. *)
Checkpoint(d) ==
    /\ main[d] # disk[d]
    /\ main' = [main EXCEPT ![d] = disk[d]]
    /\ UNCHANGED <<disk, edits, runs, pc, full, toScan, scanned, todo, uploaded,
                   last, key, manifests, seen, lived>>

(***************************************************************************)
(* One backup.                                                             *)
(***************************************************************************)

(* What readFile() of the file itself gives. *)
ReadFile(f) ==
    IF disk[f] = 0 THEN Gone
    ELSE <<"raw", IF f \in Databases THEN main[f] ELSE disk[f]>>

(* captureContextSnapshot() writes a new capturedAt each time; when it     *)
(* fails the backup goes on.                                               *)
captureContextSnapshot(captured) ==
    disk' = IF captured THEN [disk EXCEPT ![ContextFile] = runs + 1] ELSE disk

(* The backup is full when there is no previous manifest, when it is       *)
(* forced or when the chain is long enough.                                *)
Begin(captured, forced) ==
    /\ pc = "idle"
    /\ runs < MaxRuns
    /\ runs' = runs + 1
    /\ captureContextSnapshot(captured)
    /\ full' = (forced \/ last = 0)
    /\ pc' = "scan"
    /\ toScan' = Files
    /\ seen' = [f \in Files |-> {disk'[f]}]
    /\ UNCHANGED <<main, edits, scanned, todo, uploaded, last, key, manifests, lived>>

(* scanFiles() reads and hashes one file. *)
Scan ==
    /\ pc = "scan"
    /\ toScan # {}
    /\ LET f == First(toScan) IN
        /\ scanned' = [scanned EXCEPT ![f] = ReadFile(f)]
        /\ toScan' = toScan \ {f}
    /\ UNCHANGED <<disk, main, edits, runs, pc, full, todo, uploaded, last, key,
                   manifests, seen, lived>>

(* previousManifest.files; a full backup has no previous manifest. *)
PreviousEntry(f) == IF full \/ last = 0 THEN NoEntry ELSE manifests[last].files[f]

(* Mutant: a file that the previous manifest lacks is not a change. *)
ChangedKnown == {f \in Files : /\ scanned[f] # Gone
                               /\ PreviousEntry(f) # NoEntry
                               /\ PreviousEntry(f).hash # scanned[f]}

Changed == {f \in Files : scanned[f] # Gone /\ PreviousEntry(f).hash # scanned[f]}
Unchanged == {f \in Files : scanned[f] # Gone /\ PreviousEntry(f).hash = scanned[f]}
Deleted == {f \in Files : scanned[f] = Gone /\ PreviousEntry(f) # NoEntry}

(* detectChanges() returns: either there is something to upload or to      *)
(* leave out, or the backup is skipped.                                    *)
DetectChanges ==
    /\ pc = "scan"
    /\ toScan = {}
    /\ IF Changed = {} /\ Deleted = {} /\ ~full
       THEN pc' = "skipped" /\ todo' = {}
       ELSE pc' = "upload" /\ todo' = Changed
    /\ UNCHANGED <<disk, main, edits, runs, full, toScan, scanned, uploaded, last,
                   key, manifests, seen, lived>>

(* What uploadFiles() reads: of a database a snapshot, which is the copy   *)
(* that .backup makes (with what is in the WAL) or, when sqlite3 is not    *)
(* there or fails, a copy of the file; only that copy is read, not the     *)
(* copies made of its -wal and -shm siblings.                              *)
UploadReads(f) ==
    IF f \in Databases
    THEN {ReadFile(f)} \cup (IF HasSqlite3 THEN {<<"copy", disk[f]>>} ELSE {})
    ELSE {ReadFile(f)}

(* Mutant: the manifest names the hash of the scan. *)
EntryOfScan(f, b) == [blob |-> b, hash |-> scanned[f],
                      key |-> IF f \in Encrypted THEN key ELSE Plain]

EntryOf(f, b) == [blob |-> b, hash |-> b,
                  key |-> IF f \in Encrypted THEN key ELSE Plain]

(* uploadFiles() hashes what it has read, which may be newer than what the *)
(* scan hashed.                                                            *)
UploadFile ==
    /\ pc = "upload"
    /\ todo # {}
    /\ LET f == First(todo) IN
        /\ disk[f] # 0
        /\ \E b \in UploadReads(f) :
            uploaded' = [uploaded EXCEPT ![f] = EntryOf(f, b)]
        /\ todo' = todo \ {f}
    /\ UNCHANGED <<disk, main, edits, runs, pc, full, toScan, scanned, last, key,
                   manifests, seen, lived>>

(* Mutant: everything that was not uploaded is carried over. *)
EntriesUndeleted == [f \in Files |-> IF f \in Changed THEN uploaded[f] ELSE PreviousEntry(f)]

(* The entries of the new manifest: uploaded, or carried over. *)
Entries == [f \in Files |-> IF f \in Unchanged THEN PreviousEntry(f) ELSE uploaded[f]]

(* Mutant: the parent is the position after the last manifest. *)
buildManifestNext == [files |-> Entries, parent |-> IF full THEN 0 ELSE last + 1]

buildManifest == [files |-> Entries, parent |-> IF full THEN 0 ELSE last]

EndRun ==
    /\ pc' = "idle"
    /\ full' = FALSE
    /\ toScan' = {}
    /\ scanned' = [f \in Files |-> Gone]
    /\ todo' = {}
    /\ uploaded' = [f \in Files |-> NoEntry]
    /\ seen' = [f \in Files |-> {}]

(* The manifest is uploaded and anchored.  A transaction that is mined     *)
(* after its sender gave up leaves lastManifest as it was.                 *)
Anchor(known) ==
    /\ pc = "upload"
    /\ todo = {}
    /\ manifests' = Append(manifests, buildManifest)
    /\ lived' = Append(lived, seen)
    /\ last' = IF known THEN Len(manifests) + 1 ELSE last
    /\ EndRun
    /\ UNCHANGED <<disk, main, edits, runs, key>>

(* The backup is given up: a file vanished between readdir() and           *)
(* readFile(), or before its upload; IPFS or the node did not answer.      *)
Abort ==
    /\ pc \in {"scan", "upload"}
    /\ EndRun
    /\ UNCHANGED <<disk, main, edits, runs, last, key, manifests, lived>>

SkipReturns ==
    /\ pc = "skipped"
    /\ EndRun
    /\ UNCHANGED <<disk, main, edits, runs, last, key, manifests, lived>>

(* The process is restarted, with the same key or with another one in its  *)
(* configuration.  It goes on from the backup its state file names, any    *)
(* of those anchored, or from none when it cannot be read.                 *)
Restart(m, k) ==
    /\ last' = m
    /\ key' = k
    /\ EndRun
    /\ UNCHANGED <<disk, main, edits, runs, manifests, lived>>

ContentNext ==
    \/ \E f \in Files \ {ContextFile}, c \in {0} \cup Contents : Edit(f, c)
    \/ \E d \in Databases : Checkpoint(d)
    \/ \E captured, forced \in BOOLEAN : Begin(captured, forced)
    \/ Scan
    \/ UploadFile
    \/ DetectChanges
    \/ Abort
    \/ SkipReturns
    \/ \E m \in 0..Len(manifests), k \in Keys : Restart(m, k)

ContentSpec == ContentInit /\ [][ContentNext \/ \E known \in BOOLEAN : Anchor(known)]_content
=============================================================================
