------------------------ MODULE BackupScheduler_proofs ------------------------
(***************************************************************************)
(* What TLAPS proves of the backup scheduler, for any number of processes, *)
(* concurrent calls, patches and manifests.                                *)
(***************************************************************************)
EXTENDS BackupScheduler, SequenceTheorems, TLAPS

PcSet == PcIdle \cup PcHydrate \cup PcExecute
DelaySet == {0} \cup {Delay(f) : f \in 0..MaxFailures}

-----------------------------------------------------------------------------
(* Types *)

(* CIDs that exist go on existing as long as nothing is uploaded. *)
LEMMA KnownFacts ==
    ASSUME ChainType
    PROVE  /\ None \in Known
           /\ Known \subseteq Nat
           /\ ipfs' = ipfs => Known' = Known
<1>1. Len(ipfs) \in Nat
  BY LenProperties DEF ChainType
<1>q. QED
  BY <1>1 DEF Known, None

(* The counter of failures saturates, and every value of it has a delay. *)
LEMMA SettleTimerType ==
    ASSUME SchedulerType, NEW c \in Calls, NEW r \in BOOLEAN, Settle(c, r)
    PROVE  /\ failures' \in [Procs -> 0..MaxFailures]
           /\ timer' \in [Procs -> DelaySet]
           /\ stopped' \in [Procs -> BOOLEAN]
<1> DEFINE p == ProcOf[c]
           f == IF r THEN 0
                ELSE IF failures[p] < MaxFailures THEN failures[p] + 1
                ELSE MaxFailures
<1>1. p \in Procs /\ f \in 0..MaxFailures
  BY ConstantsAssumption DEF SchedulerType
<1>2. Delay(f) \in DelaySet
  BY <1>1 DEF DelaySet
<1>3. timer \in [Procs -> DelaySet]
  BY DEF SchedulerType, DelaySet
<1>4. CASE kind[c] = "auto"
  <2>1. failures' = [failures EXCEPT ![p] = f]
    BY <1>4 DEF Settle
  <2>2. failures' \in [Procs -> 0..MaxFailures]
    BY <1>1, <2>1 DEF SchedulerType
  <2>3. \/ timer' = timer
        \/ timer' = [timer EXCEPT ![p] = Delay(f)]
    BY <1>4 DEF Settle, ScheduleNext
  <2>4. timer' \in [Procs -> DelaySet]
    BY <1>1, <1>2, <1>3, <2>3
  <2>q. QED
    BY <2>2, <2>4 DEF Settle, SchedulerType
<1>5. CASE kind[c] # "auto"
  BY <1>3, <1>5 DEF Settle, SchedulerType
<1>q. QED
  BY <1>4, <1>5

(* What settling the promise of a call resets is well typed. *)
LEMMA SettleCallType ==
    ASSUME CallType, ChainType, NEW c \in Calls, NEW r \in BOOLEAN,
           Settle(c, r), ipfs' = ipfs, fresh' \in SUBSET Calls
    PROVE  CallType'
<1>1. None \in Known /\ Known' = Known
  BY KnownFacts
<1>q. QED
  BY <1>1 DEF Settle, CallType, PcIdle

(* A call that ends with the scheduler's other fields as they were. *)
LEMMA SettleType ==
    ASSUME TypeOK, NEW c \in Calls, NEW r \in BOOLEAN, Settle(c, r),
           running' \in [Procs -> BOOLEAN], fresh' \in SUBSET Calls,
           UNCHANGED memVars, ipfs' = ipfs
    PROVE  SchedulerType' /\ CallType'
<1>1. Known' = Known
  BY KnownFacts DEF TypeOK
<1>2. CallType'
  BY SettleCallType DEF TypeOK
<1>3. SchedulerType'
  BY <1>1, SettleTimerType DEF TypeOK, SchedulerType, memVars, DelaySet
<1>q. QED
  BY <1>2, <1>3

(* A manifest with a known parent is well typed. *)
LEMMA ManifestType ==
    ASSUME ChainType, NEW q \in Known
    PROVE  Manifest(q) \in [parent: Nat, depth: Nat]
<1>1. Len(ipfs) \in Nat
  BY LenProperties DEF ChainType
<1>2. q \in Nat
  BY <1>1 DEF Known
<1>3. CASE q = None
  BY <1>3 DEF Manifest, None
<1>4. CASE q # None
  <2>1. q \in 1..Len(ipfs)
    BY <1>1, <1>4 DEF Known, None
  <2>2. ipfs[q] \in [parent: Nat, depth: Nat]
    BY <2>1, ElementOfSeq DEF ChainType
  <2>3. ipfs[q].depth + 1 \in Nat
    BY <2>2
  <2>q. QED
    BY <1>2, <1>4, <2>3 DEF Manifest
<1>q. QED
  BY <1>3, <1>4

(* The chain and the files are well typed as long as they do not change. *)
LEMMA ChainKept ==
    ASSUME ChainType, UNCHANGED netVars
    PROVE  ChainType'
  BY DEF ChainType, netVars, Known

LEMMA FilesKept ==
    ASSUME FileType, ChainType, ipfs' = ipfs,
           UNCHANGED <<fileVars, patchVars, acked>>
    PROVE  FileType'
  BY KnownFacts DEF FileType, fileVars, patchVars

(* A call that held "running" ends. *)
LEMMA FinishType ==
    ASSUME TypeOK, NEW c \in Calls, NEW r \in BOOLEAN, Finish(c, r),
           ipfs' = ipfs
    PROVE  SchedulerType' /\ CallType'
<1>1. running' \in [Procs -> BOOLEAN] /\ fresh' \in SUBSET Calls
  BY ConstantsAssumption DEF Finish, TypeOK, SchedulerType, CallType
<1>q. QED
  BY <1>1, SettleType DEF Finish

(* The receipt of a call is returned. *)
LEMMA ReturnType ==
    ASSUME TypeOK, NEW c \in Calls, Return(c), fresh' \in SUBSET Calls
    PROVE  SchedulerType' /\ CallType' /\ FileType'
<1>1. running' \in [Procs -> BOOLEAN]
  BY ConstantsAssumption DEF Return, TypeOK, SchedulerType
<1>2. SchedulerType' /\ CallType'
  BY <1>1, SettleType DEF Return
<1>3. acked' \in Known /\ Known' = Known
  BY KnownFacts DEF Return, TypeOK, FileType, CallType
<1>q. QED
  BY <1>2, <1>3 DEF Return, TypeOK, FileType, fileVars, patchVars

(* Mining a transaction keeps the chain well typed. *)
LEMMA MinedType ==
    ASSUME TypeOK, NEW tx \in Seq(Known), Mined(tx), ipfs' = ipfs
    PROVE  ChainType' /\ fresh' \in SUBSET Calls
<1>1. Known' = Known
  BY KnownFacts DEF TypeOK
<1>2. backups \o tx \in Seq(Known)
  BY ConcatProperties DEF TypeOK, ChainType
<1>q. QED
  BY <1>1, <1>2 DEF Mined, TypeOK, ChainType

(* The initial state is well typed. *)
LEMMA InitType == Init => TypeOK
<1> SUFFICES ASSUME Init PROVE TypeOK
  OBVIOUS
<1> DEFINE m == [parent |-> None, depth |-> 0]
<1>1. m \in [parent: Nat, depth: Nat]
  BY DEF None
<1>2. /\ ipfs \in Seq([parent: Nat, depth: Nat])
      /\ HasBackup => Len(ipfs) = 1
  <2>1. CASE HasBackup
    <3>1. ipfs = <<m>>
      BY <2>1 DEF Init
    <3>q. QED
      BY <1>1, <3>1
  <2>2. CASE ~HasBackup
    BY <2>2, EmptySeq DEF Init
  <2>q. QED
    BY <2>1, <2>2
<1>3. None \in Known /\ (HasBackup => 1 \in Known)
  <2>1. Len(ipfs) \in Nat
    BY <1>2, LenProperties
  <2>q. QED
    BY <1>2, <2>1 DEF Known, None
<1>4. ChainType
  <2>1. backups \in Seq(Known)
    <3>1. CASE HasBackup
      <4>1. backups = <<1>>
        BY <3>1 DEF Init
      <4>2. 1 \in Known
        BY <1>3, <3>1
      <4>q. QED
        BY <4>1, <4>2
    <3>2. CASE ~HasBackup
      BY <3>2, EmptySeq DEF Init
    <3>q. QED
      BY <3>1, <3>2
  <2>q. QED
    BY <1>2, <2>1 DEF Init, ChainType
<1>5. FileType
  <2>1. CASE HasBackup
    BY <1>3, <2>1 DEF Init, FileType, NoState
  <2>2. CASE ~HasBackup
    BY <1>3, <2>2 DEF Init, FileType, NoState
  <2>q. QED
    BY <2>1, <2>2
<1>6. CallType
  BY <1>3 DEF Init, CallType, PcIdle
<1>7. SchedulerType
  BY <1>3, ConstantsAssumption DEF Init, SchedulerType
<1>q. QED
  BY <1>4, <1>5, <1>6, <1>7 DEF TypeOK

(* Every variable keeps its type.  In particular every CID held anywhere   *)
(* is that of a manifest that was added to IPFS, and the timer is only     *)
(* ever armed with a delay scheduleNext() computes from the counter.       *)
LEMMA NextType == TypeOK /\ [Next]_vars => TypeOK'
<1> SUFFICES ASSUME TypeOK, [Next]_vars PROVE TypeOK'
  OBVIOUS
<1> USE ConstantsAssumption
<1>0. None \in Known /\ Known \subseteq Nat
  BY KnownFacts DEF TypeOK
<1>1. CASE UNCHANGED vars
  BY <1>1 DEF vars, TypeOK, SchedulerType, CallType, ChainType, FileType,
     memVars, timeVars, netVars, fileVars, patchVars, Known
<1>2. ASSUME NEW c \in Calls, Step(c) PROVE TypeOK'
  <2> DEFINE p == ProcOf[c]
  <2>0. p \in Procs /\ pc[c] \in PcSet /\ cid[c] \in Known
    BY DEF TypeOK, CallType, PcSet
  <2>1. CASE ReadState(c)
    <3>1. ChainType' /\ FileType' /\ Known' = Known
      BY <2>1, ChainKept, FilesKept, KnownFacts DEF ReadState, netVars, TypeOK
    <3>2. CallType'
      BY <2>0, <2>1, <3>1
      DEF ReadState, TypeOK, CallType, FileType, PcHydrate, PcIdle, PcExecute
    <3>3. SchedulerType'
      BY <2>0, <2>1, <3>1
      DEF ReadState, TypeOK, SchedulerType, FileType, timeVars
    <3>q. QED
      BY <3>1, <3>2, <3>3 DEF TypeOK
  <2>2. CASE CatManifest(c)
    <3>1. ChainType' /\ FileType' /\ Known' = Known
      BY <2>2, ChainKept, FilesKept, KnownFacts DEF CatManifest, netVars, TypeOK
    <3>2. CallType'
      BY <1>0, <2>0, <2>2, <3>1
      DEF CatManifest, TypeOK, CallType, PcHydrate, PcIdle, PcExecute
    <3>3. SchedulerType'
      BY <1>0, <2>0, <2>2, <3>1
      DEF CatManifest, TypeOK, SchedulerType, timeVars
    <3>q. QED
      BY <3>1, <3>2, <3>3 DEF TypeOK
  <2>3. ASSUME \/ Enter(c) \/ Plan(c) \/ NoChanges(c) \/ ReadNonce(c)
        PROVE  TypeOK'
    <3>1. ChainType' /\ FileType' /\ Known' = Known
      BY <2>3, ChainKept, FilesKept, KnownFacts
      DEF Enter, Plan, NoChanges, ReadNonce, netVars, TypeOK
    <3>2. CallType'
      BY <2>0, <2>3, <3>1
      DEF Enter, Plan, NoChanges, ReadNonce, TypeOK, SchedulerType, CallType,
          PcHydrate, PcIdle, PcExecute
    <3>3. SchedulerType'
      BY <2>0, <2>3, <3>1
      DEF Enter, Plan, NoChanges, ReadNonce, TypeOK, SchedulerType, memVars,
          timeVars
    <3>q. QED
      BY <3>1, <3>2, <3>3 DEF TypeOK
  <2>4. CASE Upload(c)
    <3> DEFINE q == IF full[c] THEN None ELSE memCid[p]
    <3>1. q \in Known
      BY <1>0, <2>0 DEF TypeOK, SchedulerType
    <3>2. Manifest(q) \in [parent: Nat, depth: Nat]
      BY <3>1, ManifestType DEF TypeOK
    <3>3. ipfs' = Append(ipfs, Manifest(q))
      BY <2>4 DEF Upload
    <3>4. /\ ipfs' \in Seq([parent: Nat, depth: Nat])
          /\ Len(ipfs') = Len(ipfs) + 1
          /\ Len(ipfs) \in Nat
      BY <3>2, <3>3, AppendProperties, LenProperties DEF TypeOK, ChainType
    <3>5. Known \subseteq Known' /\ Len(ipfs) + 1 \in Known'
      BY <3>4 DEF Known
    <3>6. SchedulerType'
      BY <2>4, <3>5 DEF Upload, TypeOK, SchedulerType, memVars, timeVars
    <3>7. CallType'
      BY <2>4, <3>5 DEF Upload, TypeOK, CallType, PcExecute
    <3>8. ChainType'
      <4>1. backups' \in Seq(Known')
        BY <2>4, <3>5, SeqMonotonic DEF Upload, TypeOK, ChainType
      <4>2. pending' \in SUBSET Seq(Known')
        BY <2>4, <3>5, SeqMonotonic DEF Upload, TypeOK, ChainType
      <4>q. QED
        BY <3>4, <4>1, <4>2 DEF ChainType
    <3>9. FileType'
      BY <2>4, <3>5 DEF Upload, TypeOK, FileType, fileVars, patchVars
    <3>q. QED
      BY <3>6, <3>7, <3>8, <3>9 DEF TypeOK
  <2>5. ASSUME \/ NoAgent(c) \/ PrepareFails(c) \/ AnchorRejected(c)
               \/ PersistFails(c)
        PROVE  TypeOK'
    <3>1. PICK r \in BOOLEAN : Finish(c, r)
      BY <2>5 DEF NoAgent, PrepareFails, AnchorRejected, PersistFails
    <3>2. UNCHANGED <<netVars, fileVars, patchVars, acked>>
      BY <2>5 DEF NoAgent, PrepareFails, AnchorRejected, PersistFails
    <3>q. QED
      BY <3>1, <3>2, FinishType, ChainKept, FilesKept DEF TypeOK, netVars
  <2>6. CASE SkipAlreadyRunning(c)
    BY <2>6, SettleType, ChainKept, FilesKept
    DEF SkipAlreadyRunning, TypeOK, SchedulerType, CallType, netVars
  <2>7. ASSUME \/ AnchorConfirmed(c) \/ AnchorReceiptLost(c)
        PROVE  TypeOK'
    <3>1. <<cid[c]>> \in Seq(Known)
      BY <2>0
    <3>2. ipfs' = ipfs /\ Mined(<<cid[c]>>)
      BY <2>7 DEF AnchorConfirmed, AnchorReceiptLost
    <3>3. ChainType' /\ fresh' \in SUBSET Calls /\ Known' = Known
      BY <3>1, <3>2, MinedType, KnownFacts DEF TypeOK
    <3>4. FileType'
      BY <2>7, <3>2, FilesKept DEF AnchorConfirmed, AnchorReceiptLost, TypeOK
    <3>5. CASE AnchorConfirmed(c)
      <4>1. SchedulerType'
        BY <3>3, <3>5
        DEF AnchorConfirmed, TypeOK, SchedulerType, memVars, timeVars
      <4>2. CallType'
        BY <3>3, <3>5 DEF AnchorConfirmed, TypeOK, CallType, PcExecute
      <4>q. QED
        BY <3>3, <3>4, <4>1, <4>2 DEF TypeOK
    <3>6. CASE AnchorReceiptLost(c)
      <4>1. running' \in [Procs -> BOOLEAN]
        BY <3>6 DEF AnchorReceiptLost, TypeOK, SchedulerType
      <4>q. QED
        BY <3>3, <3>4, <3>6, <4>1, SettleType DEF AnchorReceiptLost, TypeOK
    <3>q. QED
      BY <2>7, <3>5, <3>6
  <2>8. CASE AnchorGivenUp(c)
    <3>1. <<cid[c]>> \in Seq(Known)
      BY <2>0
    <3>2. Known' = Known
      BY <2>8, KnownFacts DEF AnchorGivenUp, TypeOK
    <3>3. ChainType'
      BY <2>8, <3>1, <3>2 DEF AnchorGivenUp, TypeOK, ChainType
    <3>q. QED
      BY <2>8, <3>3, FinishType, FilesKept DEF AnchorGivenUp, TypeOK
  <2>9. CASE Commit(c)
    <3>1. ChainType' /\ FileType' /\ Known' = Known
      BY <2>9, ChainKept, FilesKept, KnownFacts DEF Commit, netVars, TypeOK
    <3>2. CallType'
      BY <2>9, <3>1 DEF Commit, TypeOK, CallType, PcExecute
    <3>3. SchedulerType'
      BY <2>0, <2>9, <3>1 DEF Commit, TypeOK, SchedulerType, timeVars
    <3>q. QED
      BY <3>1, <3>2, <3>3 DEF TypeOK
  <2>10. ASSUME \/ TruncatePackage(c) \/ WritePackage(c)
                \/ TruncateState(c) \/ WriteState(c)
         PROVE  TypeOK'
    <3>1. ChainType' /\ Known' = Known
      BY <2>10, ChainKept, KnownFacts
      DEF TruncatePackage, WritePackage, TruncateState, WriteState, netVars,
          TypeOK
    <3>2. counted' \in [Calls -> Nat]
      BY <2>0, <2>10
      DEF TruncatePackage, WritePackage, TruncateState, WriteState, TypeOK,
          CallType, SchedulerType
    <3>3. /\ pc' \in [Calls -> PcSet]
          /\ UNCHANGED <<kind, full, cid, fresh>>
      BY <2>10
      DEF TruncatePackage, WritePackage, TruncateState, WriteState, TypeOK,
          CallType, PcSet, PcExecute
    <3>4. CallType'
      BY <3>1, <3>2, <3>3 DEF TypeOK, CallType, PcSet
    <3>5. SchedulerType'
      BY <2>10, <3>1
      DEF TruncatePackage, WritePackage, TruncateState, WriteState, TypeOK,
          SchedulerType, memVars, timeVars
    <3>6. /\ stateFile' \in [head: Known, count: Nat]
          /\ recoveryFile' \in Known
      <4>1. counted[c] \in Nat
        BY DEF TypeOK, CallType
      <4>q. QED
        BY <1>0, <2>0, <2>10, <4>1
        DEF TruncatePackage, WritePackage, TruncateState, WriteState, TypeOK,
            FileType, NoState
    <3>7. UNCHANGED <<patchVars, acked>>
      BY <2>10
      DEF TruncatePackage, WritePackage, TruncateState, WriteState
    <3>8. FileType'
      BY <3>1, <3>6, <3>7 DEF TypeOK, FileType, patchVars
    <3>q. QED
      BY <3>1, <3>5, <3>4, <3>8 DEF TypeOK
  <2>11. CASE HeartbeatMined(c)
    <3>1. <<>> \in Seq(Known)
      BY EmptySeq
    <3>2. ipfs' = ipfs
      BY <2>11 DEF HeartbeatMined, Return
    <3>q. QED
      BY <2>11, <3>1, <3>2, MinedType, ReturnType DEF HeartbeatMined, TypeOK
  <2>12. ASSUME HeartbeatGivenUp(c) \/ HeartbeatNotSent(c) PROVE TypeOK'
    <3>1. fresh' \in SUBSET Calls
      BY <2>12 DEF HeartbeatGivenUp, HeartbeatNotSent, TypeOK, CallType
    <3>2. Return(c)
      BY <2>12 DEF HeartbeatGivenUp, HeartbeatNotSent
    <3>3. <<>> \in Seq(Known) /\ Known' = Known
      BY <3>2, EmptySeq, KnownFacts DEF Return, TypeOK
    <3>4. ChainType'
      BY <2>12, <3>2, <3>3
      DEF HeartbeatGivenUp, HeartbeatNotSent, Return, TypeOK, ChainType
    <3>q. QED
      BY <3>1, <3>2, <3>4, ReturnType DEF TypeOK
  <2>q. QED
    BY <1>2, <2>1, <2>2, <2>3, <2>4, <2>5, <2>6, <2>7, <2>8, <2>9, <2>10,
       <2>11, <2>12
    DEF Step
<1>3. ASSUME NEW c \in Calls, NEW k \in {"auto", "plain", "force"},
             Begin(c, k), timer' \in [Procs -> DelaySet]
      PROVE  TypeOK'
  <2>1. ChainType' /\ FileType' /\ Known' = Known
    BY <1>3, ChainKept, FilesKept, KnownFacts DEF Begin, netVars, TypeOK
  <2>2. CallType'
    BY <1>3, <2>1 DEF Begin, TypeOK, CallType, PcExecute, PcHydrate, PcIdle
  <2>3. SchedulerType'
    BY <1>3, <2>1 DEF Begin, TypeOK, SchedulerType, memVars, DelaySet
  <2>q. QED
    BY <2>1, <2>2, <2>3 DEF TypeOK
<1>4. ASSUME NEW c \in Calls, TimerFires(c) PROVE TypeOK'
  <2>1. timer' \in [Procs -> DelaySet]
    BY <1>4 DEF TimerFires, TypeOK, SchedulerType, DelaySet
  <2>q. QED
    BY <1>3, <1>4, <2>1 DEF TimerFires
<1>5. ASSUME NEW c \in Calls, NEW k \in {"plain", "force"}, Request(c, k)
      PROVE  TypeOK'
  BY <1>3, <1>5 DEF Request, TypeOK, SchedulerType, DelaySet
<1>6. ASSUME NEW p \in Procs, Start(p) \/ Stop(p) PROVE TypeOK'
  <2>1. ChainType' /\ FileType' /\ Known' = Known
    BY <1>6, ChainKept, FilesKept, KnownFacts DEF Start, Stop, netVars, TypeOK
  <2>2. Delay(failures[p]) \in DelaySet /\ 0 \in DelaySet
    BY DEF TypeOK, SchedulerType, DelaySet
  <2>3. timer' \in [Procs -> DelaySet]
    BY <1>6, <2>2
    DEF Start, Stop, ScheduleNext, TypeOK, SchedulerType, DelaySet
  <2>4. CallType' /\ SchedulerType'
    BY <1>6, <2>1, <2>3
    DEF Start, Stop, TypeOK, CallType, SchedulerType, memVars, DelaySet
  <2>q. QED
    BY <2>1, <2>4 DEF TypeOK
<1>7. ASSUME NEW p \in Procs, Crash(p) PROVE TypeOK'
  <2>1. FileType' /\ Known' = Known
    BY <1>7, FilesKept, KnownFacts DEF Crash, TypeOK
  <2>2. CallType'
    BY <1>0, <1>7, <2>1 DEF Crash, TypeOK, CallType, PcIdle
  <2>3. SchedulerType'
    BY <1>0, <1>7, <2>1 DEF Crash, TypeOK, SchedulerType
  <2>4. ChainType'
    <3>1. PICK sent \in SUBSET {c \in fresh : ProcOf[c] = p} :
            pending' = pending \cup
              {IF pc[c] = "anchor" THEN <<cid[c]>> ELSE <<>> : c \in sent}
      BY <1>7 DEF Crash
    <3>2. \A c \in sent : /\ <<cid[c]>> \in Seq(Known)
                          /\ <<>> \in Seq(Known)
      BY <3>1, EmptySeq DEF TypeOK, CallType
    <3>q. QED
      BY <1>7, <2>1, <3>1, <3>2 DEF Crash, TypeOK, ChainType
  <2>q. QED
    BY <2>1, <2>2, <2>3, <2>4 DEF TypeOK
<1>8. ASSUME NEW tx \in pending, MinedLate(tx) PROVE TypeOK'
  <2>1. tx \in Seq(Known) /\ Mined(tx) /\ ipfs' = ipfs
    BY <1>8 DEF MinedLate, TypeOK, ChainType
  <2>2. ChainType' /\ fresh' \in SUBSET Calls /\ FileType' /\ Known' = Known
    BY <1>8, <2>1, MinedType, FilesKept, KnownFacts DEF MinedLate, TypeOK
  <2>q. QED
    BY <1>8, <2>2
    DEF MinedLate, TypeOK, SchedulerType, CallType, memVars, timeVars
<1>9. ASSUME NEW x \in Patchers, Patch(x) PROVE TypeOK'
  <2>1. ChainType' /\ Known' = Known
    BY <1>9, ChainKept, KnownFacts DEF Patch, PatchRead, PatchTruncate, PatchWrite, PatchFails, netVars, TypeOK
  <2>2. FileType'
    BY <1>0, <1>9, <2>1
    DEF Patch, PatchRead, PatchTruncate, PatchWrite, PatchFails, TypeOK, FileType, fileVars, NoState
  <2>q. QED
    BY <1>9, <2>1, <2>2
    DEF Patch, PatchRead, PatchTruncate, PatchWrite, PatchFails, TypeOK, SchedulerType, CallType, memVars,
        timeVars
<1>q. QED
  BY <1>1, <1>2, <1>4, <1>5, <1>6, <1>7, <1>8, <1>9 DEF Next

(* In every state the program reaches, the variables have their types: a   *)
(* CID held in memory, in a file or in a transaction always exists.        *)
THEOREM TypeCorrect == Spec => []TypeOK
  BY InitType, NextType, PTL DEF Spec

-----------------------------------------------------------------------------
(* The reentrance guard *)

(* A step that neither lets a call in or out nor touches the flag. *)
LEMMA GuardKept ==
    ASSUME OneBackupAtATime, running' = running,
           \A c \in Calls : pc'[c] \in PcExecute <=> pc[c] \in PcExecute
    PROVE  OneBackupAtATime'
  BY DEF OneBackupAtATime, Executing

(* The one executing call of a process ends and releases the flag. *)
LEMMA GuardReleased ==
    ASSUME OneBackupAtATime, TypeOK, NEW c \in Calls, pc[c] \in PcExecute,
           running' = [running EXCEPT ![ProcOf[c]] = FALSE],
           pc' = [pc EXCEPT ![c] = "idle"]
    PROVE  OneBackupAtATime'
<1> USE ConstantsAssumption DEF TypeOK, SchedulerType, CallType
<1>1. "idle" \notin PcExecute
  BY DEF PcExecute
<1>2. \A p \in Procs : Executing(p)' = Executing(p) \ {c}
  BY <1>1 DEF Executing
<1>3. \A p \in Procs : p # ProcOf[c] => c \notin Executing(p)
  BY DEF Executing
<1>4. Executing(ProcOf[c]) = {c}
  <2>1. ProcOf[c] \in Procs /\ c \in Executing(ProcOf[c])
    BY DEF Executing
  <2>2. \A x \in Executing(ProcOf[c]) : x = c
    BY <2>1 DEF OneBackupAtATime
  <2>q. QED
    BY <2>1, <2>2
<1>5. ASSUME NEW p \in Procs
      PROVE  /\ \A x, y \in Executing(p)' : x = y
             /\ running'[p] <=> Executing(p)' # {}
  <2>1. CASE p = ProcOf[c]
    BY <1>2, <1>4, <2>1
  <2>2. CASE p # ProcOf[c]
    BY <1>2, <1>3, <2>2 DEF OneBackupAtATime
  <2>q. QED
    BY <2>1, <2>2
<1>q. QED
  BY <1>5 DEF OneBackupAtATime

(* At most one call of a process executes a backup, and the flag is up     *)
(* exactly while one does (runBackup, the guard and its finally block).    *)
LEMMA NextGuard ==
    TypeOK /\ OneBackupAtATime /\ [Next]_vars => OneBackupAtATime'
<1> SUFFICES ASSUME TypeOK, OneBackupAtATime, [Next]_vars
             PROVE  OneBackupAtATime'
  OBVIOUS
<1> USE ConstantsAssumption
<1>1. CASE UNCHANGED vars
  BY <1>1, GuardKept DEF vars
<1>2. ASSUME NEW c \in Calls, Step(c) PROVE OneBackupAtATime'
  <2>1. ASSUME \/ ReadState(c) \/ CatManifest(c) \/ Plan(c) \/ NoChanges(c)
               \/ Upload(c) \/ ReadNonce(c) \/ AnchorConfirmed(c)
               \/ Commit(c) \/ TruncatePackage(c) \/ WritePackage(c)
               \/ TruncateState(c) \/ WriteState(c)
        PROVE  OneBackupAtATime'
    <3>1. running' = running
      BY <2>1
      DEF ReadState, CatManifest, Plan, NoChanges, Upload, ReadNonce,
          AnchorConfirmed, Commit, TruncatePackage, WritePackage,
          TruncateState, WriteState
    <3>2. \A d \in Calls : pc'[d] \in PcExecute <=> pc[d] \in PcExecute
      BY <2>1
      DEF ReadState, CatManifest, Plan, NoChanges, Upload, ReadNonce,
          AnchorConfirmed, Commit, TruncatePackage, WritePackage,
          TruncateState, WriteState, PcExecute, TypeOK, CallType
    <3>q. QED
      BY <3>1, <3>2, GuardKept
  <2>2. CASE Enter(c)
    <3>1. Executing(ProcOf[c]) = {}
      BY <2>2 DEF Enter, OneBackupAtATime
    <3>2. \A p \in Procs : Executing(p)' = IF p = ProcOf[c] THEN {c}
                                                            ELSE Executing(p)
      BY <2>2, <3>1 DEF Enter, Executing, PcExecute, TypeOK, CallType
    <3>3. ASSUME NEW p \in Procs
          PROVE  /\ \A x, y \in Executing(p)' : x = y
                 /\ running'[p] <=> Executing(p)' # {}
      <4>1. CASE p = ProcOf[c]
        BY <2>2, <3>2, <4>1 DEF Enter, TypeOK, SchedulerType
      <4>2. CASE p # ProcOf[c]
        BY <2>2, <3>2, <4>2 DEF Enter, OneBackupAtATime, TypeOK, SchedulerType
      <4>q. QED
        BY <4>1, <4>2
    <3>q. QED
      BY <3>3 DEF OneBackupAtATime
  <2>3. CASE SkipAlreadyRunning(c)
    <3>1. \A d \in Calls : pc'[d] \in PcExecute <=> pc[d] \in PcExecute
      BY <2>3
      DEF SkipAlreadyRunning, Settle, PcExecute, TypeOK, CallType
    <3>q. QED
      BY <2>3, <3>1, GuardKept DEF SkipAlreadyRunning
  <2>4. ASSUME \/ NoAgent(c) \/ PrepareFails(c) \/ AnchorReceiptLost(c)
               \/ AnchorGivenUp(c) \/ AnchorRejected(c) \/ PersistFails(c)
               \/ HeartbeatMined(c) \/ HeartbeatGivenUp(c)
               \/ HeartbeatNotSent(c)
        PROVE  OneBackupAtATime'
    <3>1. pc[c] \in PcExecute
      BY <2>4
      DEF NoAgent, PrepareFails, AnchorReceiptLost, AnchorGivenUp,
          AnchorRejected, PersistFails, HeartbeatMined, HeartbeatGivenUp,
          HeartbeatNotSent, PcExecute
    <3>2. /\ running' = [running EXCEPT ![ProcOf[c]] = FALSE]
          /\ pc' = [pc EXCEPT ![c] = "idle"]
      BY <2>4
      DEF NoAgent, PrepareFails, AnchorReceiptLost, AnchorGivenUp,
          AnchorRejected, PersistFails, HeartbeatMined, HeartbeatGivenUp,
          HeartbeatNotSent, Return, Finish, Settle
    <3>q. QED
      BY <3>1, <3>2, GuardReleased
  <2>q. QED
    BY <1>2, <2>1, <2>2, <2>3, <2>4 DEF Step
<1>3. ASSUME NEW c \in Calls, NEW k, Begin(c, k) PROVE OneBackupAtATime'
  <2>1. \A d \in Calls : pc'[d] \in PcExecute <=> pc[d] \in PcExecute
    BY <1>3 DEF Begin, PcExecute, TypeOK, CallType
  <2>q. QED
    BY <1>3, <2>1, GuardKept DEF Begin
<1>4. ASSUME NEW p \in Procs, Crash(p) PROVE OneBackupAtATime'
  <2>1. \A q \in Procs : Executing(q)' = IF q = p THEN {} ELSE Executing(q)
    BY <1>4 DEF Crash, Executing, PcExecute
  <2>q. QED
    BY <1>4, <2>1 DEF Crash, OneBackupAtATime, TypeOK, SchedulerType
<1>5. ASSUME \/ \E p \in Procs : Start(p) \/ Stop(p)
             \/ \E tx \in pending : MinedLate(tx)
             \/ \E x \in Patchers : Patch(x)
      PROVE  OneBackupAtATime'
  BY <1>5, GuardKept DEF Start, Stop, MinedLate, Patch, PatchRead, PatchTruncate, PatchWrite, PatchFails
<1>6. ASSUME NEW c \in Calls,
             TimerFires(c) \/ \E k \in {"plain", "force"} : Request(c, k)
      PROVE  OneBackupAtATime'
  BY <1>3, <1>6 DEF TimerFires, Request
<1>7. CASE \E c \in Calls : Step(c)
  BY <1>2, <1>7
<1>8. CASE \E c \in Calls :
              TimerFires(c) \/ \E k \in {"plain", "force"} : Request(c, k)
  BY <1>6, <1>8
<1>9. CASE \E p \in Procs : Start(p) \/ Stop(p) \/ Crash(p)
  BY <1>4, <1>5, <1>9
<1>q. QED
  BY <1>1, <1>5, <1>7, <1>8, <1>9 DEF Next

(* However many calls of runBackup() a process receives and however they   *)
(* end, one at a time executes, and "running" is up exactly then.          *)
THEOREM MutualExclusion == Spec => []OneBackupAtATime
<1>1. ASSUME Init PROVE OneBackupAtATime
  <2>1. /\ pc = [c \in Calls |-> "idle"]
        /\ running = [p \in Procs |-> FALSE]
    BY <1>1, Zenon DEF Init
  <2>q. QED
    BY <2>1 DEF OneBackupAtATime, Executing, PcExecute
<1>q. QED
  BY <1>1, TypeCorrect, NextGuard, PTL DEF Spec

-----------------------------------------------------------------------------
(* The chain on the ledger *)

AnchoredOrNone == Anchored \cup {None}

(* Anchoring k keeps the history well-founded. *)
Anchorable(k) == k \in 1..Len(ipfs) /\ ipfs[k].parent \in AnchoredOrNone

(* Everything a run, a patch or a restart may later take for the newest    *)
(* backup is anchored, and so is the parent of everything that may still   *)
(* be anchored by a run or by a transaction nobody waits for any more.     *)
PcAnchor  == {"nonce", "anchor"}
PcPersist == {"commit", "package", "packageWrite", "state", "stateWrite"}

HeadsInv ==
    /\ \A p \in Procs : memCid[p] \in AnchoredOrNone
    /\ stateFile.head \in AnchoredOrNone
    /\ recoveryFile \in AnchoredOrNone
    /\ \A x \in Patchers : patchCopy[x].head \in AnchoredOrNone

CallsInv ==
    \A c \in Calls :
        /\ pc[c] \in PcAnchor => Anchorable(cid[c])
        /\ pc[c] \in PcPersist => cid[c] \in Anchored

PendingInv ==
    \A tx \in pending : tx = <<>> \/ \E k \in Known : tx = <<k>> /\ Anchorable(k)

HistoryInv ==
    /\ Len(ipfs) <= MaxManifests
    /\ \A i \in 1..Len(backups) : backups[i] \in 1..Len(ipfs)
    /\ ParentsAnchored

ChainInv == HeadsInv /\ CallsInv /\ PendingInv /\ HistoryInv

(* The files and the memory of every process only lose what they name. *)
HeadsStay ==
    /\ \A p \in Procs : memCid'[p] \in {memCid[p], None}
    /\ stateFile'.head \in {stateFile.head, None}
    /\ recoveryFile' \in {recoveryFile, None}
    /\ \A x \in Patchers : patchCopy'[x].head \in {patchCopy[x].head, None}

(* No call takes up another manifest, or claims one to be anchored. *)
CallsStay ==
    \A c \in Calls :
        /\ pc'[c] \in PcAnchor => pc[c] \in PcAnchor /\ cid'[c] = cid[c]
        /\ pc'[c] \in PcPersist => pc[c] \in PcPersist /\ cid'[c] = cid[c]

LEMMA HeadsKept ==
    ASSUME HeadsInv, HeadsStay, Anchored \subseteq Anchored'
    PROVE  HeadsInv'
  BY DEF HeadsInv, HeadsStay, AnchoredOrNone

LEMMA CallsKept ==
    ASSUME CallsInv, CallsStay, Anchored \subseteq Anchored', ipfs' = ipfs
    PROVE  CallsInv'
  BY DEF CallsInv, CallsStay, Anchorable, AnchoredOrNone

LEMMA NetKept ==
    ASSUME PendingInv, HistoryInv, UNCHANGED netVars
    PROVE  PendingInv' /\ HistoryInv' /\ Anchored' = Anchored
  BY DEF PendingInv, HistoryInv, ParentsAnchored, Anchored, AnchoredOrNone,
         Anchorable, netVars, Known

(* Transactions that may be mined, now or later. *)
Valid(tx) == tx = <<>> \/ \E k \in Known : tx = <<k>> /\ Anchorable(k)

(* A mined transaction extends the history by at most one manifest, whose  *)
(* parent is anchored already.                                             *)
LEMMA MinedHistory ==
    ASSUME TypeOK, ChainInv, NEW tx, Valid(tx), Mined(tx), ipfs' = ipfs
    PROVE  /\ PendingInv' /\ HistoryInv'
           /\ Anchored' = Anchored \cup {tx[i] : i \in 1..Len(tx)}
<1>1. PendingInv'
  BY DEF PendingInv, Mined
<1>2. backups \in Seq(Known)
  BY DEF TypeOK, ChainType
<1>3. CASE tx = <<>>
  <2>1. backups' = backups
    BY <1>2, <1>3, ConcatEmptySeq DEF Mined
  <2>q. QED
    BY <1>1, <1>3, <2>1, EmptySeq
    DEF ChainInv, HistoryInv, ParentsAnchored, Anchored
<1>4. CASE tx # <<>>
  <2>1. PICK k \in Known : tx = <<k>> /\ Anchorable(k)
    BY <1>4 DEF Valid
  <2>2. /\ tx \in Seq(Known) /\ Len(tx) = 1 /\ tx[1] = k
    BY <2>1
  <2>3. /\ Len(backups) \in Nat
        /\ backups' \in Seq(Known)
        /\ Len(backups') = Len(backups) + 1
        /\ \A i \in 1..Len(backups) : backups'[i] = backups[i]
        /\ backups'[Len(backups) + 1] = k
    BY <1>2, <2>2, ConcatProperties, LenProperties DEF Mined
  <2>4. /\ DOMAIN backups = 1..Len(backups)
        /\ DOMAIN backups' = 1..(Len(backups) + 1)
    BY <1>2, <2>3, LenProperties
  <2>5. Anchored' = Anchored \cup {k}
    BY <2>3, <2>4 DEF Anchored
  <2>6. {tx[i] : i \in 1..Len(tx)} = {k}
    BY <2>2
  <2>7. ParentsAnchored'
    <3>1. ASSUME NEW i \in 1..Len(backups)
          PROVE  LET parent == ipfs'[backups'[i]].parent
                 IN  \/ parent = None
                     \/ \E j \in 1..(i - 1) : backups'[j] = parent
      BY <2>3, <2>4 DEF ChainInv, HistoryInv, ParentsAnchored
    <3>2. LET parent == ipfs[k].parent
          IN  parent = None \/ \E j \in 1..Len(backups) : backups'[j] = parent
      BY <2>1, <2>3, <2>4 DEF Anchorable, AnchoredOrNone, Anchored
    <3>q. QED
      BY <2>3, <2>4, <3>1, <3>2 DEF ParentsAnchored
  <2>8. HistoryInv'
    BY <2>1, <2>3, <2>7 DEF ChainInv, HistoryInv, Anchorable
  <2>q. QED
    BY <1>1, <2>5, <2>6, <2>8
<1>q. QED
  BY <1>3, <1>4

(* A step that leaves the network alone. *)
LEMMA LocalStep ==
    ASSUME ChainInv, HeadsInv', CallsStay, UNCHANGED netVars
    PROVE  ChainInv'
  BY NetKept, CallsKept DEF ChainInv, netVars

(* A client gives up on transactions that are valid. *)
LEMMA GiveUpStep ==
    ASSUME ChainInv, HeadsStay, CallsStay, UNCHANGED <<ipfs, backups>>,
           NEW T, \A tx \in T : Valid(tx), pending' = pending \cup T
    PROVE  ChainInv'
<1>1. Anchored' = Anchored /\ HistoryInv'
  BY DEF ChainInv, HistoryInv, ParentsAnchored, Anchored
<1>2. PendingInv'
  BY <1>1 DEF ChainInv, PendingInv, Valid, Anchorable, AnchoredOrNone, Known
<1>q. QED
  BY <1>1, <1>2, HeadsKept, CallsKept DEF ChainInv

(* A transaction is mined while every call stays where it is or ends. *)
LEMMA MinedStep ==
    ASSUME TypeOK, ChainInv, HeadsStay, CallsStay, NEW tx, Valid(tx),
           Mined(tx), ipfs' = ipfs
    PROVE  ChainInv'
  BY MinedHistory, HeadsKept, CallsKept DEF ChainInv

LEMMA NextChain == TypeOK /\ ChainInv /\ [Next]_vars => ChainInv'
<1> SUFFICES ASSUME TypeOK, ChainInv, [Next]_vars PROVE ChainInv'
  OBVIOUS
<1> USE ConstantsAssumption
<1> USE DEF PcAnchor, PcPersist
<1>1. CASE UNCHANGED vars
  BY <1>1, LocalStep
  DEF vars, memVars, fileVars, patchVars, netVars, ChainInv, HeadsInv,
      AnchoredOrNone, Anchored, CallsStay
<1>2. ASSUME NEW c \in Calls, Step(c) PROVE ChainInv'
  <2> DEFINE p == ProcOf[c]
  <2>0. p \in Procs /\ DOMAIN pc = Calls /\ DOMAIN cid = Calls
    BY DEF TypeOK, CallType
  <2>1. ASSUME \/ Enter(c) \/ SkipAlreadyRunning(c) \/ NoAgent(c) \/ Plan(c)
               \/ NoChanges(c) \/ PrepareFails(c) \/ ReadNonce(c)
               \/ AnchorRejected(c) \/ PersistFails(c)
        PROVE  ChainInv'
    <3>1. /\ UNCHANGED <<memCid, stateFile, recoveryFile, patchCopy>>
          /\ UNCHANGED netVars
      BY <2>1
      DEF Enter, SkipAlreadyRunning, NoAgent, Plan, NoChanges, PrepareFails,
          ReadNonce, AnchorRejected, PersistFails, Finish, memVars, fileVars,
          patchVars
    <3>2. CallsStay
      BY <2>0, <2>1
      DEF Enter, SkipAlreadyRunning, NoAgent, Plan, NoChanges, PrepareFails,
          ReadNonce, AnchorRejected, PersistFails, Finish, Settle, CallsStay
    <3>3. HeadsInv'
      BY <3>1 DEF ChainInv, HeadsInv, AnchoredOrNone, Anchored, netVars
    <3>q. QED
      BY <3>1, <3>2, <3>3, LocalStep
  <2>2. CASE ReadState(c)
    <3>1. CallsStay /\ UNCHANGED netVars
      BY <2>0, <2>2 DEF ReadState, CallsStay
    <3>2. HeadsInv'
      BY <2>0, <2>2
      DEF ReadState, ChainInv, HeadsInv, AnchoredOrNone, Anchored, netVars,
          fileVars, patchVars, TypeOK, SchedulerType
    <3>q. QED
      BY <3>1, <3>2, LocalStep
  <2>3. CASE CatManifest(c)
    <3>1. CallsStay /\ UNCHANGED netVars
      BY <2>0, <2>3 DEF CatManifest, CallsStay
    <3>2. HeadsInv'
      BY <2>0, <2>3
      DEF CatManifest, ChainInv, HeadsInv, AnchoredOrNone, Anchored, netVars,
          fileVars, patchVars, TypeOK, SchedulerType
    <3>q. QED
      BY <3>1, <3>2, LocalStep
  <2>4. CASE Commit(c)
    <3>1. cid[c] \in Anchored
      BY <2>4 DEF Commit, ChainInv, CallsInv
    <3>2. CallsStay /\ UNCHANGED netVars
      BY <2>0, <2>4 DEF Commit, CallsStay
    <3>3. HeadsInv'
      BY <2>0, <2>4, <3>1
      DEF Commit, ChainInv, HeadsInv, AnchoredOrNone, Anchored, netVars,
          fileVars, patchVars, TypeOK, SchedulerType
    <3>q. QED
      BY <3>2, <3>3, LocalStep
  <2>5. ASSUME \/ TruncatePackage(c) \/ WritePackage(c) \/ TruncateState(c)
               \/ WriteState(c)
        PROVE  ChainInv'
    <3>1. pc[c] \in PcPersist => cid[c] \in Anchored
      BY DEF ChainInv, CallsInv
    <3>2. CallsStay /\ UNCHANGED netVars
      BY <2>0, <2>5
      DEF TruncatePackage, WritePackage, TruncateState, WriteState, CallsStay
    <3>3. HeadsInv'
      BY <2>5, <3>1
      DEF TruncatePackage, WritePackage, TruncateState, WriteState, ChainInv,
          HeadsInv, AnchoredOrNone, Anchored, netVars, memVars, patchVars,
          NoState
    <3>q. QED
      BY <3>2, <3>3, LocalStep
  <2>6. CASE Upload(c)
    <3> DEFINE q == IF full[c] THEN None ELSE memCid[p]
    <3>1. q \in AnchoredOrNone /\ Manifest(q).parent = q
      BY <2>0 DEF ChainInv, HeadsInv, AnchoredOrNone, Manifest
    <3>2. /\ ipfs' = Append(ipfs, Manifest(q))
          /\ Len(ipfs) < MaxManifests
      BY <2>6 DEF Upload
    <3>3. /\ Len(ipfs') = Len(ipfs) + 1
          /\ Len(ipfs) \in Nat
          /\ \A k \in 1..Len(ipfs) : ipfs'[k] = ipfs[k]
          /\ ipfs'[Len(ipfs) + 1] = Manifest(q)
      <4>1. ipfs \in Seq([parent: Nat, depth: Nat])
        BY DEF TypeOK, ChainType
      <4>2. ipfs' \in Seq([parent: Nat, depth: Nat])
        BY <1>2, NextType DEF Next, TypeOK, ChainType
      <4>q. QED
        BY <3>2, <4>1, <4>2, LenProperties
    <3>4. /\ UNCHANGED <<memCid, stateFile, recoveryFile, patchCopy, backups,
                         pending>>
          /\ Anchored' = Anchored
      BY <2>6 DEF Upload, memVars, fileVars, patchVars, Anchored
    <3>5. HeadsInv'
      BY <3>4 DEF ChainInv, HeadsInv, AnchoredOrNone
    <3>6. \A k : Anchorable(k) => Anchorable(k)'
      BY <3>3, <3>4 DEF Anchorable, AnchoredOrNone
    <3>7. \A k : k = Len(ipfs) + 1 => Anchorable(k)'
      BY <3>1, <3>3, <3>4 DEF Anchorable, AnchoredOrNone
    <3>8. CallsInv'
      <4>1. /\ pc' = [pc EXCEPT ![c] = "nonce"]
            /\ cid' = [cid EXCEPT ![c] = Len(ipfs) + 1]
        BY <2>6 DEF Upload
      <4>2. ASSUME NEW d \in Calls
            PROVE  /\ pc'[d] \in PcAnchor => Anchorable(cid[d])'
                   /\ pc'[d] \in PcPersist => cid'[d] \in Anchored'
        <5>1. CASE d = c
          BY <2>0, <3>7, <4>1, <5>1
        <5>2. CASE d # c
          BY <2>0, <3>4, <3>6, <4>1, <5>2 DEF ChainInv, CallsInv
        <5>q. QED
          BY <5>1, <5>2
      <4>q. QED
        BY <4>2 DEF CallsInv
    <3>9. PendingInv'
      BY <3>3, <3>4, <3>6 DEF ChainInv, PendingInv, Known
    <3>10. HistoryInv'
      <4>1. \A i \in DOMAIN backups : backups[i] \in 1..Len(ipfs)
        BY LenProperties DEF TypeOK, ChainType, ChainInv, HistoryInv
      <4>2. ParentsAnchored'
        BY <3>3, <3>4, <4>1 DEF ChainInv, HistoryInv, ParentsAnchored
      <4>q. QED
        BY <3>2, <3>3, <3>4, <4>2 DEF ChainInv, HistoryInv
    <3>q. QED
      BY <3>5, <3>8, <3>9, <3>10 DEF ChainInv
  <2>7. ASSUME pc[c] = "anchor" PROVE Valid(<<cid[c]>>)
    BY <2>7 DEF ChainInv, CallsInv, Valid, TypeOK, CallType
  <2>8. CASE AnchorConfirmed(c)
    <3>1. Valid(<<cid[c]>>) /\ Mined(<<cid[c]>>) /\ ipfs' = ipfs
      BY <2>7, <2>8 DEF AnchorConfirmed
    <3>2. /\ PendingInv' /\ HistoryInv'
          /\ Anchored' = Anchored \cup {cid[c]}
      BY <3>1, MinedHistory
    <3>3. HeadsInv'
      BY <2>8, <3>2
      DEF AnchorConfirmed, ChainInv, HeadsInv, AnchoredOrNone, memVars,
          fileVars, patchVars
    <3>4. CallsInv'
      BY <2>0, <2>8, <3>1, <3>2
      DEF AnchorConfirmed, ChainInv, CallsInv, Anchorable, AnchoredOrNone
    <3>q. QED
      BY <3>2, <3>3, <3>4 DEF ChainInv
  <2>9. ASSUME AnchorReceiptLost(c) \/ HeartbeatMined(c) PROVE ChainInv'
    <3>1. HeadsStay /\ CallsStay /\ ipfs' = ipfs
      BY <2>0, <2>9
      DEF AnchorReceiptLost, HeartbeatMined, Return, Settle, HeadsStay,
          CallsStay, memVars, fileVars, patchVars
    <3>2. \E tx : Valid(tx) /\ Mined(tx)
      BY <2>7, <2>9 DEF AnchorReceiptLost, HeartbeatMined, Valid
    <3>q. QED
      BY <3>1, <3>2, MinedStep
  <2>10. ASSUME AnchorGivenUp(c) \/ HeartbeatGivenUp(c) \/ HeartbeatNotSent(c)
         PROVE ChainInv'
    <3>1. HeadsStay /\ CallsStay /\ UNCHANGED <<ipfs, backups>>
      BY <2>0, <2>10
      DEF AnchorGivenUp, HeartbeatGivenUp, HeartbeatNotSent, Finish, Return,
          Settle, HeadsStay, CallsStay, memVars, fileVars, patchVars
    <3>2. \E T : (\A tx \in T : Valid(tx)) /\ pending' = pending \cup T
      <4>1. CASE AnchorGivenUp(c)
        BY <2>7, <4>1 DEF AnchorGivenUp
      <4>2. CASE HeartbeatGivenUp(c)
        BY <4>2 DEF HeartbeatGivenUp, Valid
      <4>3. CASE HeartbeatNotSent(c)
        <5>1. pending' = pending \cup {} /\ \A tx \in {} : Valid(tx)
          BY <4>3 DEF HeartbeatNotSent
        <5>q. QED
          BY <5>1
      <4>q. QED
        BY <2>10, <4>1, <4>2, <4>3
    <3>q. QED
      BY <3>1, <3>2, GiveUpStep
  <2>q. QED
    BY <1>2, <2>1, <2>2, <2>3, <2>4, <2>5, <2>6, <2>8, <2>9, <2>10 DEF Step
<1>3. ASSUME NEW c \in Calls, NEW k, Begin(c, k) PROVE ChainInv'
  <2>1. CallsStay /\ UNCHANGED netVars
    BY <1>3 DEF Begin, CallsStay, TypeOK, CallType
  <2>2. HeadsInv'
    BY <1>3
    DEF Begin, ChainInv, HeadsInv, AnchoredOrNone, Anchored, netVars, memVars,
        fileVars, patchVars
  <2>q. QED
    BY <2>1, <2>2, LocalStep
<1>4. ASSUME NEW c \in Calls,
             TimerFires(c) \/ \E k \in {"plain", "force"} : Request(c, k)
      PROVE  ChainInv'
  BY <1>3, <1>4 DEF TimerFires, Request
<1>5. ASSUME NEW p \in Procs, Start(p) \/ Stop(p) PROVE ChainInv'
  <2>1. CallsStay /\ UNCHANGED netVars
    BY <1>5 DEF Start, Stop, CallsStay
  <2>2. HeadsInv'
    BY <1>5
    DEF Start, Stop, ChainInv, HeadsInv, AnchoredOrNone, Anchored, netVars,
        memVars, fileVars, patchVars
  <2>q. QED
    BY <2>1, <2>2, LocalStep
<1>6. ASSUME NEW p \in Procs, Crash(p) PROVE ChainInv'
  <2>1. HeadsStay /\ CallsStay /\ UNCHANGED <<ipfs, backups>>
    BY <1>6
    DEF Crash, HeadsStay, CallsStay, TypeOK, SchedulerType, fileVars,
        patchVars
  <2>2. PICK sent \in SUBSET {c \in fresh : ProcOf[c] = p} :
          pending' = pending \cup
            {IF pc[c] = "anchor" THEN <<cid[c]>> ELSE <<>> : c \in sent}
    BY <1>6 DEF Crash
  <2> DEFINE T == {IF pc[c] = "anchor" THEN <<cid[c]>> ELSE <<>> : c \in sent}
  <2>3. \A tx \in T : Valid(tx)
    BY <2>2 DEF Valid, ChainInv, CallsInv, TypeOK, CallType
  <2>4. pending' = pending \cup T
    BY <2>2
  <2> HIDE DEF T
  <2>q. QED
    BY <2>1, <2>3, <2>4, GiveUpStep
<1>7. ASSUME NEW tx \in pending, MinedLate(tx) PROVE ChainInv'
  <2>1. Valid(tx) /\ Mined(tx) /\ ipfs' = ipfs
    BY <1>7 DEF MinedLate, ChainInv, PendingInv, Valid
  <2>2. HeadsStay /\ CallsStay
    BY <1>7 DEF MinedLate, HeadsStay, CallsStay, memVars, fileVars, patchVars
  <2>q. QED
    BY <2>1, <2>2, MinedStep
<1>8. ASSUME NEW x \in Patchers, Patch(x) PROVE ChainInv'
  <2>1. CallsStay /\ UNCHANGED netVars
    BY <1>8 DEF Patch, PatchRead, PatchTruncate, PatchWrite, PatchFails, CallsStay
  <2>2. Anchored' = Anchored /\ UNCHANGED <<memCid, recoveryFile>>
    BY <1>8
    DEF Patch, PatchRead, PatchTruncate, PatchWrite, PatchFails, Anchored, netVars, memVars, fileVars
  <2>3. CASE PatchRead(x)
    <3>1. /\ stateFile' = stateFile
          /\ patchCopy' = [patchCopy EXCEPT ![x] = stateFile]
      BY <2>3 DEF PatchRead, fileVars
    <3>2. HeadsInv'
      BY <2>2, <3>1 DEF ChainInv, HeadsInv, AnchoredOrNone, TypeOK, FileType
    <3>q. QED
      BY <2>1, <3>2, LocalStep
  <2>4. CASE PatchTruncate(x) \/ PatchWrite(x) \/ PatchFails(x)
    <3>1. /\ stateFile' \in {stateFile, patchCopy[x], NoState}
          /\ \/ patchCopy' = patchCopy
             \/ patchCopy' = [patchCopy EXCEPT ![x] = NoState]
      BY <2>4 DEF PatchTruncate, PatchWrite, PatchFails, fileVars
    <3>2. NoState.head = None
      BY DEF NoState
    <3>3. HeadsInv'
      BY <2>2, <3>1, <3>2
      DEF ChainInv, HeadsInv, AnchoredOrNone, TypeOK, FileType
    <3>q. QED
      BY <2>1, <3>3, LocalStep
  <2>q. QED
    BY <1>8, <2>3, <2>4 DEF Patch
<1>q. QED
  BY <1>1, <1>2, <1>4, <1>5, <1>6, <1>7, <1>8 DEF Next

LEMMA InitChain == Init => ChainInv
<1> SUFFICES ASSUME Init PROVE ChainInv
  OBVIOUS
<1> USE ConstantsAssumption
<1>1. CASE HasBackup
  <2>1. /\ ipfs = <<[parent |-> None, depth |-> 0]>>
        /\ backups = <<1>>
        /\ stateFile = [head |-> 1, count |-> 0]
        /\ recoveryFile = 1
    BY <1>1 DEF Init
  <2>2. Anchored = {1} /\ Len(ipfs) = 1 /\ ipfs[1].parent = None
    BY <2>1 DEF Anchored
  <2>3. HeadsInv
    BY <2>1, <2>2 DEF Init, HeadsInv, AnchoredOrNone, NoState
  <2>4. HistoryInv
    BY <1>1, <2>1, <2>2 DEF HistoryInv, ParentsAnchored
  <2>q. QED
    BY <2>3, <2>4
    DEF Init, ChainInv, CallsInv, PendingInv, PcAnchor, PcPersist
<1>2. CASE ~HasBackup
  <2>1. ipfs = <<>> /\ backups = <<>> /\ stateFile = NoState
        /\ recoveryFile = None
    BY <1>2 DEF Init
  <2>q. QED
    BY <2>1
    DEF Init, ChainInv, CallsInv, PendingInv, PcAnchor, PcPersist, HeadsInv,
        HistoryInv, ParentsAnchored, AnchoredOrNone, NoState
<1>q. QED
  BY <1>1, <1>2

LEMMA ChainAlways == Spec => []ChainInv
  BY InitChain, TypeCorrect, NextChain, PTL DEF Spec

(* Every incremental backup on the chain stands on one anchored earlier,   *)
(* through lost receipts, late transactions, torn files, patches, crashes  *)
(* and any number of processes sharing a directory and a wallet.           *)
THEOREM HistoryWellFounded == Spec => []ParentsAnchored
  BY ChainAlways, PTL DEF ChainInv, HistoryInv

(* state.json and latest-recovery.json never name a manifest that is only  *)
(* uploaded, whatever was written by whom before the process died.         *)
THEOREM DurableHeads == Spec => []DurableHeadsAnchored
<1>1. ChainInv => DurableHeadsAnchored
  BY DEF ChainInv, HeadsInv, DurableHeadsAnchored, AnchoredOrNone
<1>q. QED
  BY <1>1, ChainAlways, PTL

-----------------------------------------------------------------------------
(* The scheduler implements the ledger *)

(* A step either leaves the history alone, or only mines a transaction.    *)
LEMMA StepKinds ==
    ASSUME TypeOK, ChainInv, [Next]_vars
    PROVE  \/ /\ backups' = backups
              /\ \A k \in 1..Len(ipfs) : ipfs'[k] = ipfs[k]
           \/ /\ UNCHANGED <<ipfs, stateFile, recoveryFile>>
              /\ \E tx : Valid(tx) /\ Mined(tx)
<1> DEFINE Quiet == UNCHANGED <<ipfs, backups>>
           Mines == /\ UNCHANGED <<ipfs, stateFile, recoveryFile>>
                    /\ \E tx : Valid(tx) /\ Mined(tx)
<1>1. CASE UNCHANGED vars
  BY <1>1 DEF vars, netVars
<1>2. ASSUME NEW c \in Calls, Step(c), ~Upload(c) PROVE Quiet \/ Mines
  <2>1. ASSUME AnchorConfirmed(c) \/ AnchorReceiptLost(c) PROVE Mines
    BY <2>1
    DEF AnchorConfirmed, AnchorReceiptLost, fileVars, Valid, ChainInv,
        CallsInv, PcAnchor, TypeOK, CallType
  <2>2. CASE HeartbeatMined(c)
    BY <2>2 DEF HeartbeatMined, Return, fileVars, Valid
  <2>3. ASSUME ~AnchorConfirmed(c), ~AnchorReceiptLost(c), ~HeartbeatMined(c)
        PROVE  Quiet
    BY <1>2, <2>3
    DEF Step, ReadState, CatManifest, Enter, SkipAlreadyRunning, NoAgent,
        Plan, NoChanges, PrepareFails, ReadNonce, AnchorGivenUp,
        AnchorRejected, Commit, TruncatePackage, WritePackage, TruncateState,
        WriteState, PersistFails, HeartbeatGivenUp, HeartbeatNotSent, Return,
        netVars
  <2>q. QED
    BY <2>1, <2>2, <2>3
<1>3. ASSUME NEW c \in Calls, Upload(c)
      PROVE  /\ backups' = backups
             /\ \A k \in 1..Len(ipfs) : ipfs'[k] = ipfs[k]
  <2>1. ipfs \in Seq([parent: Nat, depth: Nat])
    BY DEF TypeOK, ChainType
  <2>2. ipfs' \in Seq([parent: Nat, depth: Nat])
    BY NextType DEF TypeOK, ChainType
  <2>q. QED
    BY <1>3, <2>1, <2>2, LenProperties DEF Upload
<1>4. ASSUME NEW tx \in pending, MinedLate(tx) PROVE Mines
  BY <1>4 DEF MinedLate, fileVars, ChainInv, PendingInv, Valid
<1>5. ASSUME \/ \E c \in Calls : TimerFires(c)
             \/ \E c \in Calls, k \in {"plain", "force"} : Request(c, k)
             \/ \E p \in Procs : Start(p) \/ Stop(p) \/ Crash(p)
             \/ \E x \in Patchers : Patch(x)
      PROVE  Quiet
  BY <1>5
  DEF TimerFires, Request, Begin, Start, Stop, Crash, Patch, PatchRead, PatchTruncate, PatchWrite, PatchFails,
      netVars
<1>q. QED
  BY <1>1, <1>2, <1>3, <1>4, <1>5 DEF Next

ParentOf == [k \in Anchored |-> ipfs[k].parent]

LEMMA LedgerStep ==
    ASSUME TypeOK, ChainInv, ChainInv', [Next]_vars
    PROVE  [Ledger!Next]_(Ledger!vars)
<1> USE DEF Ledger!Ledger, Ledger!None, None
<1>1. /\ stateFile'.head \in Anchored' \cup {None}
      /\ recoveryFile' \in Anchored' \cup {None}
  BY DEF ChainInv, HeadsInv, AnchoredOrNone
<1>2. Anchored \subseteq 1..Len(ipfs) /\ Anchored' \subseteq 1..Len(ipfs')
  BY LenProperties, NextType
  DEF ChainInv, HistoryInv, Anchored, TypeOK, ChainType
<1>3. CASE /\ backups' = backups
           /\ \A k \in 1..Len(ipfs) : ipfs'[k] = ipfs[k]
  <2>1. Anchored' = Anchored
    BY <1>3 DEF Anchored
  <2>2. ParentOf' = ParentOf
    BY <1>2, <1>3, <2>1 DEF ParentOf
  <2>3. Ledger!Point
    BY <1>1, <2>1, <2>2 DEF Ledger!Point, ParentOf
  <2>q. QED
    BY <2>3 DEF Ledger!Next
<1>4. CASE /\ UNCHANGED <<ipfs, stateFile, recoveryFile>>
           /\ \E tx : Valid(tx) /\ Mined(tx)
  <2>1. PICK tx : Valid(tx) /\ Mined(tx)
    BY <1>4
  <2>2. Anchored' = Anchored \cup {tx[i] : i \in 1..Len(tx)}
    BY <1>4, <2>1, MinedHistory
  <2>3. CASE Anchored' = Anchored
    BY <1>4, <2>3 DEF Ledger!vars
  <2>4. CASE Anchored' # Anchored
    <3>1. PICK k \in Known : tx = <<k>> /\ Anchorable(k)
      BY <2>1, <2>2, <2>4 DEF Valid
    <3>2. Anchored' = Anchored \cup {k} /\ k \notin Anchored
      BY <2>2, <2>4, <3>1
    <3>3. k \in 1..MaxManifests
      BY <3>1, LenProperties, ConstantsAssumption
      DEF Anchorable, ChainInv, HistoryInv, TypeOK, ChainType
    <3>4. ParentOf' = [j \in Anchored \cup {k} |->
                          IF j = k THEN ipfs[k].parent ELSE ParentOf[j]]
      BY <1>4, <3>2 DEF ParentOf
    <3>5. ipfs[k].parent \in Anchored \cup {None}
      BY <3>1 DEF Anchorable, AnchoredOrNone
    <3>6. Ledger!Anchor
      BY <1>4, <3>2, <3>3, <3>4, <3>5 DEF Ledger!Anchor, ParentOf
    <3>q. QED
      BY <3>6 DEF Ledger!Next
  <2>q. QED
    BY <2>3, <2>4
<1>q. QED
  BY <1>3, <1>4, StepKinds

(* The history is append-only and well-founded and the two files always    *)
(* point into it: the scheduler implements BackupLedger, with the ledger   *)
(* read off the contract and the pointers off the files.                   *)
THEOREM LedgerImplemented == Spec => ImplementsLedger
<1>1. Init => Ledger!Init
  <2> SUFFICES ASSUME Init PROVE Ledger!Init
    OBVIOUS
  <2>1. CASE HasBackup
    <3>1. /\ ipfs = <<[parent |-> None, depth |-> 0]>>
          /\ backups = <<1>>
          /\ stateFile = [head |-> 1, count |-> 0]
          /\ recoveryFile = 1
      BY <2>1 DEF Init
    <3>2. Anchored = {1} /\ ipfs[1].parent = None
      BY <3>1 DEF Anchored
    <3>q. QED
      BY <2>1, <3>1, <3>2, ConstantsAssumption
      DEF Ledger!Init, Ledger!Ledger, Ledger!None, None
  <2>2. CASE ~HasBackup
    <3>1. backups = <<>> /\ stateFile = NoState /\ recoveryFile = None
      BY <2>2 DEF Init
    <3>2. Anchored = {}
      BY <3>1 DEF Anchored
    <3>q. QED
      BY <3>1, <3>2 DEF Ledger!Init, Ledger!Ledger, Ledger!None, None, NoState
  <2>q. QED
    BY <2>1, <2>2
<1>q. QED
  BY <1>1, TypeCorrect, ChainAlways, LedgerStep, PTL
  DEF Spec, ImplementsLedger, Ledger!Spec
-----------------------------------------------------------------------------
(* How long an incremental chain gets *)

PcUploaded  == {"nonce", "anchor", "commit"}
PcCommitted == {"package", "packageWrite"}
PcCounted   == {"state", "stateWrite"}

(* The manifests between k and the full one it stands on. *)
Depth(k) == IF k = None THEN 0 ELSE ipfs[k].depth

(* A counter that goes with a chain head, in the memory of a process, in   *)
(* state.json or in the copy of a patch, is never too low for it.  It may  *)
(* be too high: then a full backup comes too early.                        *)
MemoryCounts == \A p \in Procs : Depth(memCid[p]) <= memCount[p]
StateCounts  == Depth(stateFile.head) <= stateFile.count
PatchCounts  == \A x \in Patchers : Depth(patchCopy[x].head) <= patchCopy[x].count

(* What a run between its decision and the write of state.json knows of    *)
(* the chain it makes longer.                                              *)
CallBounded(c) ==
    /\ pc[c] = "upload" => full[c] \/ memCount[ProcOf[c]] < MaxIncrementalChain
    /\ pc[c] \in PcUploaded =>
         Depth(cid[c]) <= IF full[c] THEN 0 ELSE memCount[ProcOf[c]] + 1
    /\ pc[c] \in PcCommitted => Depth(cid[c]) <= memCount[ProcOf[c]]
    /\ pc[c] \in PcCounted => Depth(cid[c]) <= counted[c]

DepthsBounded == \A k \in 1..Len(ipfs) : ipfs[k].depth <= MaxIncrementalChain

BoundInv ==
    /\ DepthsBounded
    /\ MemoryCounts
    /\ StateCounts
    /\ PatchCounts
    /\ \A c \in Calls : CallBounded(c)

(* A step after which a call knows no more than before it. *)
CallStays(c) ==
    /\ pc'[c] = "upload" => pc[c] = "upload" /\ full'[c] = full[c]
    /\ pc'[c] \in PcUploaded =>
         pc[c] \in PcUploaded /\ cid'[c] = cid[c] /\ full'[c] = full[c]
    /\ pc'[c] \in PcCommitted => pc[c] \in PcCommitted /\ cid'[c] = cid[c]
    /\ pc'[c] \in PcCounted =>
         pc[c] \in PcCounted /\ cid'[c] = cid[c] /\ counted'[c] = counted[c]

LEMMA CallBoundKept ==
    ASSUME NEW c \in Calls, CallBounded(c), CallStays(c), ipfs' = ipfs,
           memCount'[ProcOf[c]] = memCount[ProcOf[c]]
    PROVE  CallBounded(c)'
  BY DEF CallBounded, CallStays, Depth

(* A step that touches neither a chain head nor a counter. *)
LEMMA BoundKept ==
    ASSUME BoundInv, ipfs' = ipfs,
           UNCHANGED <<memCid, memCount, stateFile, patchCopy>>,
           \A c \in Calls : CallStays(c)
    PROVE  BoundInv'
<1>1. \A c \in Calls : CallBounded(c)'
  BY CallBoundKept DEF BoundInv
<1>q. QED
  BY <1>1
  DEF BoundInv, DepthsBounded, MemoryCounts, StateCounts, PatchCounts, Depth

(* Most steps of a call. *)
QuietStep(c) ==
    \/ Enter(c) \/ SkipAlreadyRunning(c) \/ NoAgent(c) \/ NoChanges(c)
    \/ PrepareFails(c) \/ ReadNonce(c) \/ AnchorConfirmed(c)
    \/ AnchorReceiptLost(c) \/ AnchorGivenUp(c) \/ AnchorRejected(c)
    \/ TruncatePackage(c) \/ PersistFails(c) \/ HeartbeatMined(c)
    \/ HeartbeatGivenUp(c) \/ HeartbeatNotSent(c)

LEMMA QuietBound ==
    ASSUME TypeOK, BoundInv, NEW c \in Calls, QuietStep(c)
    PROVE  BoundInv'
<1>0. DOMAIN pc = Calls /\ DOMAIN cid = Calls /\ DOMAIN full = Calls
      /\ DOMAIN counted = Calls
  BY DEF TypeOK, CallType
<1>1. /\ ipfs' = ipfs
      /\ UNCHANGED <<memCid, memCount, stateFile, patchCopy>>
  BY DEF QuietStep, Enter, SkipAlreadyRunning, NoAgent, NoChanges,
     PrepareFails, ReadNonce, AnchorConfirmed, AnchorReceiptLost,
     AnchorGivenUp, AnchorRejected, TruncatePackage, PersistFails,
     HeartbeatMined, HeartbeatGivenUp, HeartbeatNotSent, Return, Finish,
     memVars, fileVars, patchVars, netVars
<1>2. \/ /\ pc' = [pc EXCEPT ![c] = "idle"]
         /\ full' = [full EXCEPT ![c] = FALSE]
         /\ counted' = [counted EXCEPT ![c] = 0]
         /\ cid' = [cid EXCEPT ![c] = None]
      \/ /\ UNCHANGED <<full, counted, cid>>
         /\ \/ /\ pc[c] \in PcUploaded
               /\ \E next \in {"anchor", "commit"} : pc' = [pc EXCEPT ![c] = next]
            \/ /\ pc[c] \in PcCommitted
               /\ pc' = [pc EXCEPT ![c] = "packageWrite"]
            \/ \E next \in {"plan", "beatNonce", "beat"} :
                  pc' = [pc EXCEPT ![c] = next]
  BY DEF QuietStep, Enter, SkipAlreadyRunning, NoAgent, NoChanges,
     PrepareFails, ReadNonce, AnchorConfirmed, AnchorReceiptLost,
     AnchorGivenUp, AnchorRejected, TruncatePackage, PersistFails,
     HeartbeatMined, HeartbeatGivenUp, HeartbeatNotSent, Return, Finish,
     Settle, PcUploaded, PcCommitted
<1>3. \A d \in Calls : CallStays(d)
  BY <1>0, <1>2 DEF CallStays, PcUploaded, PcCommitted, PcCounted
<1>q. QED
  BY <1>1, <1>3, BoundKept

(* CIDs keep their depth when a manifest is added. *)
LEMMA DepthKept ==
    ASSUME TypeOK, NEW m \in [parent: Nat, depth: Nat], ipfs' = Append(ipfs, m)
    PROVE  /\ Len(ipfs) \in Nat /\ Len(ipfs') = Len(ipfs) + 1
           /\ \A k \in 1..Len(ipfs) : ipfs'[k] = ipfs[k]
           /\ ipfs'[Len(ipfs) + 1] = m
           /\ \A k \in Known : (k = None \/ k \in 1..Len(ipfs))
<1>1. ipfs \in Seq([parent: Nat, depth: Nat])
  BY DEF TypeOK, ChainType
<1>2. /\ Len(ipfs) \in Nat /\ Len(ipfs') = Len(ipfs) + 1
      /\ \A k \in 1..Len(ipfs) : ipfs'[k] = ipfs[k]
      /\ ipfs'[Len(ipfs) + 1] = m
  BY <1>1, AppendProperties, LenProperties
<1>q. QED
  BY <1>2 DEF Known, None

(* Depths are natural numbers. *)
LEMMA DepthType == ASSUME TypeOK, NEW k \in Known PROVE Depth(k) \in Nat
<1>1. ipfs \in Seq([parent: Nat, depth: Nat]) /\ Len(ipfs) \in Nat
  BY LenProperties DEF TypeOK, ChainType
<1>2. CASE k = None
  BY <1>2 DEF Depth
<1>3. CASE k # None
  <2>1. k \in 1..Len(ipfs)
    BY <1>1, <1>3 DEF Known, None
  <2>2. ipfs[k] \in [parent: Nat, depth: Nat]
    BY <1>1, <2>1, ElementOfSeq
  <2>q. QED
    BY <1>3, <2>2 DEF Depth
<1>q. QED
  BY <1>2, <1>3

(* Uploading: a full manifest has depth 0, an incremental one stands on a  *)
(* head whose counter was below the limit when the run was planned.        *)
LEMMA UploadBound ==
    ASSUME TypeOK, BoundInv, NEW c \in Calls, Upload(c)
    PROVE  BoundInv'
<1> USE ConstantsAssumption
<1> DEFINE p == ProcOf[c]
           q == IF full[c] THEN None ELSE memCid[p]
           m == Manifest(q)
<1>1. p \in Procs /\ q \in Known /\ full[c] \in BOOLEAN
  BY KnownFacts DEF TypeOK, SchedulerType, CallType
<1>2. m \in [parent: Nat, depth: Nat]
  BY <1>1, ManifestType DEF TypeOK
<1>3. /\ ipfs' = Append(ipfs, m)
      /\ UNCHANGED <<memCid, memCount, stateFile, patchCopy, full, counted>>
      /\ pc[c] = "upload"
      /\ pc' = [pc EXCEPT ![c] = "nonce"]
      /\ cid' = [cid EXCEPT ![c] = Len(ipfs) + 1]
  BY DEF Upload, memVars, fileVars, patchVars
<1>4. /\ memCount[p] \in Nat /\ Depth(q) \in Nat
      /\ Depth(q) <= memCount[p]
      /\ full[c] \/ memCount[p] < MaxIncrementalChain
  <2>1. memCount[p] \in Nat /\ Depth(q) \in Nat
    BY <1>1, DepthType DEF TypeOK, SchedulerType
  <2>2. Depth(q) <= memCount[p]
    BY <1>1, <2>1 DEF BoundInv, MemoryCounts, Depth
  <2>3. CallBounded(c)
    BY DEF BoundInv
  <2>q. QED
    BY <1>3, <2>1, <2>2, <2>3 DEF CallBounded
<1>5. /\ m.depth \in Nat
      /\ m.depth <= MaxIncrementalChain
      /\ m.depth <= IF full[c] THEN 0 ELSE memCount[p] + 1
  <2>1. m.depth = IF q = None THEN 0 ELSE Depth(q) + 1
    BY DEF Manifest, Depth
  <2>2. full[c] => q = None
    OBVIOUS
  <2>q. QED
    BY <1>1, <1>4, <2>1, <2>2
<1> HIDE DEF q, m
<1>6. /\ Len(ipfs) \in Nat /\ Len(ipfs') = Len(ipfs) + 1
      /\ \A k \in 1..Len(ipfs) : ipfs'[k] = ipfs[k]
      /\ ipfs'[Len(ipfs) + 1] = m
      /\ \A k \in Known : (k = None \/ k \in 1..Len(ipfs))
  BY <1>2, <1>3, DepthKept
<1>7. DepthsBounded'
  BY <1>5, <1>6 DEF BoundInv, DepthsBounded
<1>8. MemoryCounts' /\ StateCounts' /\ PatchCounts'
  <2>1. /\ \A r \in Procs : memCid[r] \in Known
        /\ stateFile.head \in Known
        /\ \A x \in Patchers : patchCopy[x].head \in Known
    BY DEF TypeOK, SchedulerType, FileType
  <2>q. QED
    BY <1>3, <1>6, <2>1
    DEF BoundInv, MemoryCounts, StateCounts, PatchCounts, Depth
<1>9. ASSUME NEW d \in Calls PROVE CallBounded(d)'
  <2>1. CASE d = c
    <3>1. pc'[d] = "nonce" /\ cid'[d] = Len(ipfs) + 1
      BY <1>3, <2>1 DEF TypeOK, CallType
    <3>2. Depth(cid[d])' = m.depth
      BY <1>6, <3>1 DEF Depth, None
    <3>q. QED
      BY <1>3, <1>5, <2>1, <3>1, <3>2
      DEF CallBounded, PcUploaded, PcCommitted, PcCounted
  <2>2. CASE d # c
    <3>1. pc'[d] = pc[d] /\ cid'[d] = cid[d] /\ cid[d] \in Known
      BY <1>3, <2>2 DEF TypeOK, CallType
    <3>2. Depth(cid[d])' = Depth(cid[d])
      BY <1>6, <3>1 DEF Depth
    <3>q. QED
      BY <1>3, <3>1, <3>2 DEF BoundInv, CallBounded
  <2>q. QED
    BY <2>1, <2>2
<1>q. QED
  BY <1>7, <1>8, <1>9 DEF BoundInv

(* The steps of a run that decide, take over the result and write it.      *)
LEMMA RunBound ==
    ASSUME TypeOK, BoundInv, NEW c \in Calls,
           \A d \in Calls : ProcOf[d] = ProcOf[c] => d = c,
           \/ Plan(c) \/ Commit(c) \/ WritePackage(c) \/ TruncateState(c)
           \/ WriteState(c)
    PROVE  BoundInv'
<1> USE ConstantsAssumption
<1> DEFINE p == ProcOf[c]
<1>0. /\ p \in Procs /\ memCount[p] \in Nat /\ CallBounded(c)
      /\ \A d \in Calls : CallBounded(d)
      /\ DOMAIN pc = Calls /\ DOMAIN full = Calls /\ DOMAIN counted = Calls
      /\ DOMAIN memCount = Procs /\ DOMAIN memCid = Procs
  BY DEF TypeOK, SchedulerType, CallType, BoundInv
<1>1. ipfs' = ipfs /\ DepthsBounded' /\ cid' = cid
  BY DEF Plan, Commit, WritePackage, TruncateState, WriteState, netVars,
     BoundInv, DepthsBounded
<1>2. MemoryCounts'
  <2>1. CASE Commit(c)
    <3>1. pc[c] = "commit"
      BY <2>1 DEF Commit
    <3>2. Depth(cid[c]) <= IF full[c] THEN 0 ELSE memCount[p] + 1
      BY <1>0, <3>1 DEF CallBounded, PcUploaded
    <3>q. QED
      BY <1>0, <1>1, <2>1, <3>2 DEF Commit, BoundInv, MemoryCounts, Depth
  <2>2. CASE ~Commit(c)
    BY <1>1, <2>2
    DEF Plan, WritePackage, TruncateState, WriteState, memVars, BoundInv,
        MemoryCounts, Depth
  <2>q. QED
    BY <2>1, <2>2
<1>3. StateCounts'
  <2>1. CASE WriteState(c)
    BY <1>0, <1>1, <2>1
    DEF WriteState, StateCounts, CallBounded, PcCounted, Depth
  <2>2. CASE TruncateState(c)
    BY <2>2 DEF TruncateState, StateCounts, NoState, Depth
  <2>3. CASE ~WriteState(c) /\ ~TruncateState(c)
    BY <1>1, <2>3
    DEF Plan, Commit, WritePackage, fileVars, BoundInv, StateCounts, Depth
  <2>q. QED
    BY <2>1, <2>2, <2>3
<1>4. PatchCounts'
  BY <1>1 DEF Plan, Commit, WritePackage, TruncateState, WriteState,
     patchVars, BoundInv, PatchCounts, Depth
<1>5. ASSUME NEW d \in Calls, d # c PROVE CallBounded(d)'
  <2>1. CallStays(d)
    BY <1>0, <1>1, <1>5
    DEF Plan, Commit, WritePackage, TruncateState, WriteState, CallStays
  <2>2. memCount'[ProcOf[d]] = memCount[ProcOf[d]]
    BY <1>0, <1>5
    DEF Plan, Commit, WritePackage, TruncateState, WriteState, memVars
  <2>q. QED
    BY <1>0, <1>1, <2>1, <2>2, CallBoundKept
<1>6. CallBounded(c)'
  <2>1. CASE Plan(c)
    BY <1>0, <2>1
    DEF Plan, memVars, CallBounded, PcUploaded, PcCommitted, PcCounted
  <2>2. CASE Commit(c)
    <3>1. pc'[c] = "package" /\ memCount'[p] = IF full[c] THEN 0 ELSE memCount[p] + 1
      BY <1>0, <2>2 DEF Commit
    <3>2. Depth(cid[c]) <= IF full[c] THEN 0 ELSE memCount[p] + 1
      BY <1>0, <2>2 DEF Commit, CallBounded, PcUploaded
    <3>q. QED
      BY <1>1, <3>1, <3>2
      DEF CallBounded, PcUploaded, PcCommitted, PcCounted, Depth
  <2>3. CASE WritePackage(c)
    BY <1>0, <1>1, <2>3
    DEF WritePackage, memVars, CallBounded, PcUploaded, PcCommitted,
        PcCounted, Depth
  <2>4. CASE TruncateState(c) \/ WriteState(c)
    BY <1>0, <1>1, <2>4
    DEF TruncateState, WriteState, memVars, CallBounded, PcUploaded,
        PcCommitted, PcCounted, Depth
  <2>q. QED
    BY <2>1, <2>2, <2>3, <2>4
<1>q. QED
  BY <1>1, <1>2, <1>3, <1>4, <1>5, <1>6 DEF BoundInv

(* Hydrating takes over a chain head together with its counter; nothing is *)
(* under way in the process that the counter would be wrong for.           *)
LEMMA HydrateBound ==
    ASSUME TypeOK, BoundInv, NEW c \in Calls,
           \A d \in Calls : ProcOf[d] = ProcOf[c] => d = c,
           ReadState(c) \/ CatManifest(c)
    PROVE  BoundInv'
<1> USE ConstantsAssumption
<1> DEFINE p == ProcOf[c]
<1>0. /\ p \in Procs /\ \A d \in Calls : CallBounded(d)
      /\ DOMAIN pc = Calls /\ DOMAIN cid = Calls
      /\ DOMAIN memCount = Procs /\ DOMAIN memCid = Procs
  BY DEF TypeOK, SchedulerType, CallType, BoundInv
<1>1. /\ ipfs' = ipfs /\ DepthsBounded'
      /\ UNCHANGED <<stateFile, patchCopy, full, counted>>
      /\ pc'[c] \in {"catManifest", "enter"}
      /\ \A d \in Calls : d # c => pc'[d] = pc[d] /\ cid'[d] = cid[d]
      /\ \/ memCid' = [memCid EXCEPT ![p] = stateFile.head]
            /\ memCount' = [memCount EXCEPT ![p] = stateFile.count]
         \/ memCid' = memCid /\ memCount' = memCount
         \/ memCid' = [memCid EXCEPT ![p] = None]
            /\ memCount' = [memCount EXCEPT ![p] = 0]
  BY <1>0
  DEF ReadState, CatManifest, netVars, fileVars, patchVars, BoundInv,
      DepthsBounded
<1>2. MemoryCounts'
  BY <1>0, <1>1 DEF BoundInv, MemoryCounts, StateCounts, Depth
<1>3. StateCounts' /\ PatchCounts'
  BY <1>1 DEF BoundInv, StateCounts, PatchCounts, Depth
<1>4. ASSUME NEW d \in Calls PROVE CallBounded(d)'
  <2>1. CASE d = c
    BY <1>1, <2>1 DEF CallBounded, PcUploaded, PcCommitted, PcCounted
  <2>2. CASE d # c
    <3>1. memCount'[ProcOf[d]] = memCount[ProcOf[d]]
      BY <1>0, <1>1, <2>2
    <3>2. CallStays(d)
      BY <1>1, <2>2 DEF CallStays
    <3>q. QED
      BY <1>0, <1>1, <3>1, <3>2, CallBoundKept
  <2>q. QED
    BY <2>1, <2>2
<1>q. QED
  BY <1>1, <1>2, <1>3, <1>4 DEF BoundInv

LEMMA NextBound ==
    ASSUME \A c, d \in Calls : ProcOf[c] = ProcOf[d] => c = d,
           TypeOK, BoundInv, [Next]_vars
    PROVE  BoundInv'
<1> USE ConstantsAssumption
<1>1. CASE UNCHANGED vars
  BY <1>1, BoundKept
  DEF vars, memVars, fileVars, patchVars, netVars, CallStays
<1>2. ASSUME NEW c \in Calls, Step(c) PROVE BoundInv'
  BY <1>2, QuietBound, UploadBound, RunBound, HydrateBound
  DEF Step, QuietStep
<1>3. ASSUME NEW c \in Calls,
             TimerFires(c) \/ \E k \in {"plain", "force"} : Request(c, k)
      PROVE  BoundInv'
  <2>1. PICK k : Begin(c, k)
    BY <1>3 DEF TimerFires, Request
  <2>2. \A d \in Calls : CallStays(d)
    BY <2>1 DEF Begin, CallStays, TypeOK, CallType, PcUploaded, PcCommitted,
       PcCounted
  <2>q. QED
    BY <2>1, <2>2, BoundKept DEF Begin, memVars, fileVars, patchVars, netVars
<1>4. ASSUME \/ \E p \in Procs : Start(p) \/ Stop(p)
             \/ \E tx \in pending : MinedLate(tx)
      PROVE  BoundInv'
  <2>1. \A d \in Calls : CallStays(d)
    BY <1>4 DEF Start, Stop, MinedLate, CallStays
  <2>q. QED
    BY <1>4, <2>1, BoundKept
    DEF Start, Stop, MinedLate, memVars, fileVars, patchVars, netVars
<1>5. ASSUME NEW p \in Procs, Crash(p) PROVE BoundInv'
  <2>1. /\ ipfs' = ipfs
        /\ UNCHANGED <<stateFile, patchCopy>>
        /\ memCid' = [memCid EXCEPT ![p] = None]
        /\ memCount' = [memCount EXCEPT ![p] = 0]
        /\ DOMAIN memCid = Procs /\ DOMAIN memCount = Procs
    BY <1>5 DEF Crash, fileVars, patchVars, TypeOK, SchedulerType
  <2>2. /\ DepthsBounded' /\ MemoryCounts' /\ StateCounts' /\ PatchCounts'
    BY <2>1
    DEF BoundInv, DepthsBounded, MemoryCounts, StateCounts, PatchCounts, Depth
  <2>3. ASSUME NEW d \in Calls PROVE CallBounded(d)'
    <3>1. CASE ProcOf[d] = p
      BY <1>5, <3>1
      DEF Crash, CallBounded, PcUploaded, PcCommitted, PcCounted
    <3>2. CASE ProcOf[d] # p
      <4>1. memCount'[ProcOf[d]] = memCount[ProcOf[d]]
        BY <2>1, <3>2
      <4>2. full'[d] = full[d]
        BY <1>5, <3>2 DEF Crash, TypeOK, CallType
      <4>3. CallStays(d)
        BY <1>5, <3>2, <4>2 DEF Crash, CallStays
      <4>q. QED
        BY <2>1, <4>1, <4>3, CallBoundKept DEF BoundInv
    <3>q. QED
      BY <3>1, <3>2
  <2>q. QED
    BY <2>2, <2>3 DEF BoundInv
<1>6. ASSUME NEW x \in Patchers, Patch(x) PROVE BoundInv'
  <2>1. /\ ipfs' = ipfs
        /\ UNCHANGED <<memCid, memCount, pc, full, counted, cid>>
        /\ stateFile' \in {stateFile, patchCopy[x], NoState}
        /\ \/ patchCopy' = patchCopy
           \/ \E s \in {stateFile, NoState} : patchCopy' = [patchCopy EXCEPT ![x] = s]
    BY <1>6 DEF Patch, PatchRead, PatchTruncate, PatchWrite, PatchFails, netVars, memVars, fileVars
  <2>2. Depth(NoState.head) <= NoState.count
    BY DEF NoState, Depth
  <2>3. DepthsBounded' /\ MemoryCounts' /\ StateCounts'
    BY <2>1, <2>2
    DEF BoundInv, DepthsBounded, MemoryCounts, StateCounts, PatchCounts, Depth
  <2>5. PatchCounts'
    <3>1. CASE patchCopy' = patchCopy
      BY <2>1, <3>1 DEF BoundInv, PatchCounts, Depth
    <3>2. ASSUME NEW s \in {stateFile, NoState}, patchCopy' = [patchCopy EXCEPT ![x] = s]
          PROVE  PatchCounts'
      BY <2>1, <2>2, <3>2 DEF BoundInv, StateCounts, PatchCounts, Depth
    <3>q. QED
      BY <2>1, <3>1, <3>2
  <2>4. \A d \in Calls : CallBounded(d)'
    BY <2>1, CallBoundKept DEF BoundInv, CallStays
  <2>q. QED
    BY <2>3, <2>4, <2>5 DEF BoundInv
<1>q. QED
  BY <1>1, <1>2, <1>3, <1>4, <1>5, <1>6 DEF Next

(* With one call of runBackup() per process at a time, no chain a restore  *)
(* has to walk gets longer than maxIncrementalChain, whatever the          *)
(* processes, patches, crashes and lost receipts do to each other.  (Two   *)
(* calls that hydrate at the same time break it.)                          *)
THEOREM ChainsBounded ==
    ASSUME \A c, d \in Calls : ProcOf[c] = ProcOf[d] => c = d
    PROVE  Spec => []ChainBounded
<1>1. Init => BoundInv
  <2> SUFFICES ASSUME Init PROVE BoundInv
    OBVIOUS
  <2>1. /\ memCid = [p \in Procs |-> None] /\ memCount = [p \in Procs |-> 0]
        /\ pc = [c \in Calls |-> "idle"]
        /\ patchCopy = [x \in Patchers |-> NoState]
    BY Zenon DEF Init
  <2>2. MemoryCounts /\ PatchCounts /\ \A c \in Calls : CallBounded(c)
    BY <2>1 DEF MemoryCounts, PatchCounts, CallBounded, PcUploaded,
       PcCommitted, PcCounted, NoState, Depth
  <2>3. /\ ipfs \in Seq([parent: Nat, depth: Nat])
        /\ \A k \in 1..Len(ipfs) : ipfs[k].depth = 0
    <3> DEFINE m == [parent |-> None, depth |-> 0]
    <3>0. m \in [parent: Nat, depth: Nat] /\ m.depth = 0
      BY DEF None
    <3>1. CASE HasBackup
      <4>1. ipfs = <<m>>
        BY <3>1 DEF Init
      <4> HIDE DEF m
      <4>q. QED
        BY <3>0, <4>1
    <3>2. CASE ~HasBackup
      BY <3>2, EmptySeq DEF Init
    <3>q. QED
      BY <3>1, <3>2
  <2>4. StateCounts
    <3>1. CASE HasBackup
      BY <3>1 DEF Init, StateCounts, Depth, None
    <3>2. CASE ~HasBackup
      BY <3>2 DEF Init, StateCounts, NoState, Depth
    <3>q. QED
      BY <3>1, <3>2
  <2>q. QED
    BY <2>2, <2>3, <2>4, ConstantsAssumption DEF BoundInv, DepthsBounded
<1>2. TypeOK /\ BoundInv /\ [Next]_vars => BoundInv'
  BY NextBound
<1>3. TypeOK /\ ChainInv /\ BoundInv => ChainBounded
  BY LenProperties
  DEF TypeOK, ChainType, ChainInv, HistoryInv, BoundInv, DepthsBounded,
      ChainBounded, Anchored
<1>q. QED
  BY <1>1, <1>2, <1>3, TypeCorrect, ChainAlways, PTL DEF Spec

-----------------------------------------------------------------------------
(* What a "completed" receipt promises *)

(* One process, and nobody patches state.json. *)
OneWriter ==
    /\ \A c, d \in Calls : ProcOf[c] = ProcOf[d]
    /\ Patchers = {}

(* A call holds no manifest before it uploads one; the one it uploads stays *)
(* the newest of all until the call ends, and goes to the two files in      *)
(* turn.                                                                    *)
CallDurable(c) ==
    /\ pc[c] \in {"idle", "readState", "enter", "plan", "upload"} =>
         cid[c] = None
    /\ pc[c] \in PcUploaded \cup PcCommitted \cup PcCounted =>
         cid[c] = Len(ipfs)
    /\ pc[c] \in PcCounted => recoveryFile = cid[c]
    /\ pc[c] \in {"beatNonce", "beat"} =>
         cid[c] = None \/ (stateFile.head = cid[c] /\ recoveryFile = cid[c])

FilesDurable ==
    /\ stateFile.head = None \/ stateFile.head >= acked
    /\ recoveryFile = None \/ recoveryFile >= acked
    /\ recoveryFile = None \/ recoveryFile >= stateFile.head

DurableInv == FilesDurable /\ \A c \in Calls : CallDurable(c)

(* A call that stays where no backup is executed. *)
LEMMA WaitingDurable ==
    ASSUME NEW c \in Calls, CallDurable(c), pc[c] \notin PcExecute,
           pc'[c] = pc[c], cid'[c] = cid[c]
    PROVE  CallDurable(c)'
  BY DEF CallDurable, PcExecute, PcUploaded, PcCommitted, PcCounted

(* While one call executes, no other one does. *)
LEMMA OthersWait ==
    ASSUME OneWriter, OneBackupAtATime, TypeOK, NEW c \in Calls,
           pc[c] \in PcExecute, NEW d \in Calls, d # c
    PROVE  pc[d] \notin PcExecute
<1>1. ProcOf[c] \in Procs /\ ProcOf[d] = ProcOf[c]
  BY ConstantsAssumption DEF OneWriter
<1>q. QED
  BY <1>1 DEF OneBackupAtATime, Executing

(* A step that leaves the files, the receipts and the manifests alone, and *)
(* after which a call is no further.                                       *)
CallWaits(c) ==
    \/ pc'[c] = pc[c] /\ cid'[c] = cid[c]
    \/ pc'[c] = "idle" /\ cid'[c] = None

LEMMA DurableKept ==
    ASSUME DurableInv, \A c \in Calls : CallWaits(c),
           UNCHANGED <<ipfs, stateFile, recoveryFile, acked>>
    PROVE  DurableInv'
<1>1. ASSUME NEW c \in Calls PROVE CallDurable(c)'
  BY DEF DurableInv, CallWaits, CallDurable, PcUploaded, PcCommitted,
     PcCounted
<1>q. QED
  BY <1>1 DEF DurableInv, FilesDurable

(* The steps of one executing call c that only it takes notice of.         *)
LEMMA ExecutingDurable ==
    ASSUME OneWriter, OneBackupAtATime, TypeOK, DurableInv,
           NEW c \in Calls, pc[c] \in PcExecute,
           NEW l, NEW k, pc' = [pc EXCEPT ![c] = l],
           cid' = [cid EXCEPT ![c] = k],
           FilesDurable', CallDurable(c)'
    PROVE  DurableInv'
<1>1. ASSUME NEW d \in Calls, d # c PROVE CallDurable(d)'
  BY <1>1, OthersWait, WaitingDurable DEF DurableInv, TypeOK, CallType
<1>q. QED
  BY <1>1 DEF DurableInv

LEMMA StepDurable ==
    ASSUME OneWriter, OneBackupAtATime, TypeOK, TypeOK', DurableInv,
           NEW c \in Calls, Step(c)
    PROVE  DurableInv'
<1>0. /\ DOMAIN pc = Calls /\ DOMAIN cid = Calls
      /\ CallDurable(c) /\ FilesDurable
      /\ stateFile.head \in Known /\ recoveryFile \in Known
      /\ acked \in Known /\ cid[c] \in Known
  BY DEF TypeOK, CallType, FileType, DurableInv
<1>1. Len(ipfs) \in Nat /\ Known = 0..Len(ipfs)
  BY LenProperties DEF TypeOK, ChainType, Known
<1>2. ASSUME \/ SkipAlreadyRunning(c) \/ NoAgent(c) \/ PrepareFails(c)
             \/ AnchorReceiptLost(c) \/ AnchorGivenUp(c)
             \/ AnchorRejected(c) \/ PersistFails(c)
      PROVE  DurableInv'
  <2>1. /\ UNCHANGED <<ipfs, stateFile, recoveryFile, acked>>
        /\ pc' = [pc EXCEPT ![c] = "idle"]
        /\ cid' = [cid EXCEPT ![c] = None]
    BY <1>2 DEF SkipAlreadyRunning, NoAgent, PrepareFails, AnchorReceiptLost,
       AnchorGivenUp, AnchorRejected, PersistFails, Finish, Settle, netVars,
       fileVars
  <2>q. QED
    BY <1>0, <2>1, DurableKept DEF CallWaits
<1>3. ASSUME \/ ReadState(c) \/ CatManifest(c) \/ Enter(c) \/ Plan(c)
             \/ NoChanges(c) \/ ReadNonce(c) \/ AnchorConfirmed(c)
             \/ Commit(c)
      PROVE  DurableInv'
  <2>1. /\ UNCHANGED <<ipfs, stateFile, recoveryFile, acked>>
        /\ \A d \in Calls : d # c => pc'[d] = pc[d] /\ cid'[d] = cid[d]
    BY <1>0, <1>3 DEF ReadState, CatManifest, Enter, Plan, NoChanges,
       ReadNonce, AnchorConfirmed, Commit, netVars, fileVars
  <2>2. CallDurable(c)'
    <3>1. CASE ReadState(c) \/ CatManifest(c)
      BY <1>0, <3>1 DEF ReadState, CatManifest, CallDurable, PcUploaded,
         PcCommitted, PcCounted
    <3>2. CASE \/ Enter(c) \/ Plan(c) \/ NoChanges(c) \/ ReadNonce(c)
               \/ AnchorConfirmed(c) \/ Commit(c)
      <4>1. cid'[c] = cid[c]
        BY <3>2 DEF Enter, Plan, NoChanges, ReadNonce, AnchorConfirmed, Commit
      <4>2. \/ /\ pc[c] \in {"enter", "plan", "upload"}
               /\ pc'[c] \in {"plan", "upload", "beatNonce"}
            \/ /\ pc[c] \in PcUploaded
               /\ pc'[c] \in {"anchor", "commit", "package"}
            \/ pc[c] = "beatNonce" /\ pc'[c] = "beat"
        BY <1>0, <3>2 DEF Enter, Plan, NoChanges, ReadNonce, AnchorConfirmed,
           Commit, PcUploaded
      <4>q. QED
        BY <1>0, <2>1, <4>1, <4>2
        DEF CallDurable, PcUploaded, PcCommitted, PcCounted
    <3>q. QED
      BY <1>3, <3>1, <3>2
  <2>3. ASSUME NEW d \in Calls, d # c PROVE CallDurable(d)'
    BY <2>1, <2>3 DEF DurableInv, CallDurable
  <2>q. QED
    BY <1>0, <2>1, <2>2, <2>3 DEF DurableInv, FilesDurable
<1>4. CASE Upload(c)
  <2>1. /\ pc[c] = "upload"
        /\ pc' = [pc EXCEPT ![c] = "nonce"]
        /\ cid' = [cid EXCEPT ![c] = Len(ipfs) + 1]
        /\ UNCHANGED <<stateFile, recoveryFile, acked>>
        /\ Len(ipfs') = Len(ipfs) + 1
    <3>1. PICK m : ipfs' = Append(ipfs, m)
      BY <1>4 DEF Upload
    <3>2. Len(ipfs') = Len(ipfs) + 1
      BY <3>1, LenProperties DEF TypeOK, ChainType
    <3>q. QED
      BY <1>4, <3>2 DEF Upload, fileVars
  <2>2. CallDurable(c)'
    BY <1>0, <2>1 DEF CallDurable, PcUploaded, PcCommitted, PcCounted
  <2>q. QED
    BY <1>0, <2>1, <2>2, ExecutingDurable DEF FilesDurable, PcExecute
<1>5. ASSUME \/ TruncatePackage(c) \/ WritePackage(c) \/ TruncateState(c)
             \/ WriteState(c)
      PROVE  DurableInv'
  <2>1. /\ pc[c] \in PcCommitted \cup PcCounted
        /\ \E l : pc' = [pc EXCEPT ![c] = l]
        /\ cid' = [cid EXCEPT ![c] = cid[c]]
        /\ cid' = cid
        /\ UNCHANGED <<ipfs, acked>>
    BY <1>0, <1>5 DEF TruncatePackage, WritePackage, TruncateState,
       WriteState, PcCommitted, PcCounted, netVars, TypeOK, CallType
  <2>2. cid[c] = Len(ipfs)
    BY <1>0, <2>1 DEF CallDurable
  <2>3. FilesDurable'
    <3>1. CASE TruncatePackage(c)
      BY <1>0, <2>1, <3>1 DEF TruncatePackage, FilesDurable
    <3>2. CASE WritePackage(c)
      BY <1>0, <1>1, <2>1, <2>2, <3>2 DEF WritePackage, FilesDurable
    <3>3. CASE TruncateState(c)
      BY <1>0, <1>1, <2>1, <3>3
      DEF TruncateState, FilesDurable, NoState, None
    <3>4. CASE WriteState(c)
      BY <1>0, <1>1, <2>1, <2>2, <3>4
      DEF WriteState, FilesDurable, CallDurable, PcCounted
    <3>q. QED
      BY <1>5, <3>1, <3>2, <3>3, <3>4
  <2>4. CallDurable(c)'
    <3>1. CASE TruncatePackage(c)
      BY <1>0, <2>1, <2>2, <3>1 DEF TruncatePackage, CallDurable, PcUploaded,
         PcCommitted, PcCounted
    <3>2. CASE WritePackage(c)
      BY <1>0, <2>1, <2>2, <3>2 DEF WritePackage, CallDurable, PcUploaded,
         PcCommitted, PcCounted
    <3>3. CASE TruncateState(c)
      BY <1>0, <2>1, <2>2, <3>3 DEF TruncateState, CallDurable, PcUploaded,
         PcCommitted, PcCounted
    <3>4. CASE WriteState(c)
      BY <1>0, <2>1, <2>2, <3>4 DEF WriteState, CallDurable, PcUploaded,
         PcCommitted, PcCounted
    <3>q. QED
      BY <1>5, <3>1, <3>2, <3>3, <3>4
  <2>5. pc[c] \in PcExecute
    BY <2>1 DEF PcExecute, PcCommitted, PcCounted
  <2>q. QED
    BY <2>1, <2>3, <2>4, <2>5, ExecutingDurable
<1>6. ASSUME \/ HeartbeatMined(c) \/ HeartbeatGivenUp(c)
             \/ HeartbeatNotSent(c)
      PROVE  DurableInv'
  <2>1. /\ pc[c] \in {"beatNonce", "beat"}
        /\ pc' = [pc EXCEPT ![c] = "idle"]
        /\ cid' = [cid EXCEPT ![c] = None]
        /\ UNCHANGED <<stateFile, recoveryFile>>
        /\ acked' = IF cid[c] > acked THEN cid[c] ELSE acked
    BY <1>6 DEF HeartbeatMined, HeartbeatGivenUp, HeartbeatNotSent, Return,
       Settle, fileVars
  <2>2. cid[c] = None \/ (stateFile.head = cid[c] /\ recoveryFile = cid[c])
    BY <1>0, <2>1 DEF CallDurable
  <2>3. FilesDurable'
    BY <1>0, <1>1, <2>1, <2>2 DEF FilesDurable, None
  <2>4. CallDurable(c)'
    BY <1>0, <2>1 DEF CallDurable, PcUploaded, PcCommitted, PcCounted
  <2>5. pc[c] \in PcExecute
    BY <2>1 DEF PcExecute
  <2>q. QED
    BY <2>1, <2>3, <2>4, <2>5, ExecutingDurable
<1>q. QED
  BY <1>2, <1>3, <1>4, <1>5, <1>6 DEF Step

LEMMA NextDurable ==
    ASSUME OneWriter, OneBackupAtATime, TypeOK, TypeOK', DurableInv,
           [Next]_vars
    PROVE  DurableInv'
<1>1. CASE UNCHANGED vars
  BY <1>1, DurableKept DEF vars, netVars, fileVars, CallWaits
<1>2. ASSUME NEW c \in Calls,
             TimerFires(c) \/ \E k \in {"plain", "force"} : Request(c, k)
      PROVE  DurableInv'
  <2>1. PICK k : Begin(c, k)
    BY <1>2 DEF TimerFires, Request
  <2>2. /\ UNCHANGED <<ipfs, stateFile, recoveryFile, acked, cid>>
        /\ pc[c] = "idle" /\ pc'[c] \in {"readState", "enter"}
        /\ \A d \in Calls : d # c => pc'[d] = pc[d]
    BY <2>1 DEF Begin, netVars, fileVars, TypeOK, CallType
  <2>3. \A d \in Calls : CallDurable(d)'
    BY <2>2 DEF DurableInv, CallDurable, PcUploaded, PcCommitted, PcCounted
  <2>q. QED
    BY <2>2, <2>3 DEF DurableInv, FilesDurable
<1>3. ASSUME \/ \E p \in Procs : Start(p) \/ Stop(p)
             \/ \E tx \in pending : MinedLate(tx)
      PROVE  DurableInv'
  BY <1>3, DurableKept
  DEF Start, Stop, MinedLate, netVars, fileVars, CallWaits
<1>4. ASSUME NEW p \in Procs, Crash(p) PROVE DurableInv'
  BY <1>4, DurableKept DEF Crash, fileVars, CallWaits
<1>5. ASSUME NEW x \in Patchers PROVE FALSE
  BY <1>5 DEF OneWriter
<1>q. QED
  BY <1>1, <1>2, <1>3, <1>4, <1>5, StepDurable DEF Next

(* Once runBackup() has returned "completed" for a manifest, state.json    *)
(* and latest-recovery.json name it or a newer anchored one, or are torn   *)
(* by a write that failed, and the package is never behind the state: as   *)
(* long as one process writes them and nothing patches state.json, with    *)
(* any number of concurrent calls, crashes and restarts.                   *)
THEOREM CompletedDurable ==
    ASSUME OneWriter
    PROVE  Spec => []CompletedIsDurable
<1>1. Init => DurableInv
  <2> SUFFICES ASSUME Init PROVE DurableInv
    OBVIOUS
  <2>1. pc = [c \in Calls |-> "idle"] /\ cid = [c \in Calls |-> None]
    BY Zenon DEF Init
  <2>2. \A c \in Calls : CallDurable(c)
    BY <2>1 DEF CallDurable, PcUploaded, PcCommitted, PcCounted
  <2>3. FilesDurable
    <3>1. CASE HasBackup
      BY <3>1 DEF Init, FilesDurable
    <3>2. CASE ~HasBackup
      BY <3>2 DEF Init, FilesDurable, NoState
    <3>q. QED
      BY <3>1, <3>2
  <2>q. QED
    BY <2>2, <2>3 DEF DurableInv
<1>2. /\ OneBackupAtATime /\ TypeOK /\ TypeOK'
      /\ DurableInv /\ [Next]_vars
      => DurableInv'
  BY NextDurable
<1>3. ChainInv /\ DurableInv => CompletedIsDurable
  BY DEF ChainInv, HeadsInv, AnchoredOrNone, DurableInv, FilesDurable,
     CompletedIsDurable
<1>q. QED
  BY <1>1, <1>2, <1>3, TypeCorrect, MutualExclusion, ChainAlways, PTL
  DEF Spec

=============================================================================
