--------------------------- MODULE BackupScheduler ---------------------------
(***************************************************************************)
(* The backup scheduler of the soul package: what BackupScheduler, the     *)
(* anchoring of a manifest and the two local state files do when           *)
(* runBackup() is called by the timer, by the session_end hook, by a tool  *)
(* or by a second process (every process that loads the plugin owns a      *)
(* scheduler, and all of them share one data directory and one wallet).    *)
(*                                                                         *)
(* A call of runBackup() is a slot of Calls.  It advances from one await   *)
(* to the next; whatever the JavaScript does between two awaits is one     *)
(* action, so other calls of the same process, other processes and the     *)
(* chain take their steps exactly where the code lets them.                *)
(*                                                                         *)
(* A manifest is named by its position in "ipfs", the sequence of the      *)
(* manifests added to IPFS so far: ipfs[k].parent is the parentCid of      *)
(* manifest k, and ipfs[k].depth (history) the number of manifests a       *)
(* restore of k has to walk back to reach a full one.  None (0) is the     *)
(* null CID.                                                               *)
(***************************************************************************)
EXTENDS Naturals, Sequences

CONSTANTS
    Procs,                \* processes that loaded the plugin
    Calls,                \* slots for concurrent calls of runBackup()
    ProcOf,               \* ProcOf[c] is the process that owns slot c
    Patchers,             \* concurrent calls of patchBackupState()
    AutoBackupEnabled,    \* config.autoBackupEnabled
    MaxIncrementalChain,  \* config.maxIncrementalChain
    Interval,             \* config.autoBackupIntervalMs, in units of the model
    DelayCap,             \* the 3_600_000 ms cap of scheduleNext, same unit
    HasBackup,            \* whether the agent has been backed up before
    MaxManifests,         \* bound: manifests ever added to IPFS
    MaxFailures           \* bound: consecutiveFailures saturates here

ASSUME ConstantsAssumption ==
    /\ ProcOf \in [Calls -> Procs]
    /\ AutoBackupEnabled \in BOOLEAN
    /\ MaxIncrementalChain \in Nat \ {0}
    /\ Interval \in Nat \ {0}
    /\ DelayCap \in Nat \ {0}
    /\ HasBackup \in BOOLEAN
    /\ MaxManifests \in Nat
    /\ HasBackup => MaxManifests >= 1
    /\ MaxFailures \in Nat

None == 0

VARIABLES
    \* Fields of the BackupScheduler object of each process
    initialized, running, memCid, memManifest, memCount, timer, failures,
    \* Local variables of each call of runBackup(); counted is what
    \* persistState() took incrementalCount to be
    pc, kind, full, counted, cid,
    \* Calls whose contract nonce, once read, is still the current one
    fresh,
    \* External services: manifests on IPFS, getBackupHistory(), transactions
    \* whose receipt the client gave up on and that may still be mined
    ipfs, backups, pending,
    \* state.json and latest-recovery.json, shared by all processes
    stateFile, recoveryFile,
    \* A call of patchBackupState() between its read and its write
    patchPc, patchCopy,
    \* History: newest manifest a "completed" receipt was returned for, and
    \* whether stop() was called after the last start()
    acked, stopped

memVars  == <<initialized, memCid, memManifest, memCount>>
timeVars == <<timer, failures, stopped>>
fileVars == <<stateFile, recoveryFile>>
netVars  == <<ipfs, backups, pending>>
patchVars == <<patchPc, patchCopy>>
vars == <<memVars, running, timeVars, pc, kind, full, counted, cid, fresh,
          netVars, fileVars, patchVars, acked>>

(***************************************************************************)
(* readBackupState() returns the default record for a file that is         *)
(* missing, truncated or unparsable, so all of these are one value.        *)
(***************************************************************************)
NoState == [head |-> None, count |-> 0]

(* A manifest whose parent is q, given the manifests added before. *)
Manifest(q) ==
    [parent |-> q, depth |-> IF q = None THEN 0 ELSE ipfs[q].depth + 1]

(* scheduleNext: the delay after f consecutive failures. *)
Delay(f) ==
    LET doubled == Interval * 2^(f - 2)
    IN  IF f >= 3 THEN IF doubled < DelayCap THEN doubled ELSE DelayCap
                  ELSE Interval

PcIdle    == {"idle"}
PcHydrate == {"readState", "catManifest", "enter"}
PcExecute == {"plan", "upload", "nonce", "anchor", "commit", "package",
              "packageWrite", "state", "stateWrite", "beatNonce", "beat"}

(* The null CID and the CIDs of the manifests that exist. *)
Known == 0..Len(ipfs)

SchedulerType ==
    /\ initialized \in [Procs -> BOOLEAN]
    /\ running \in [Procs -> BOOLEAN]
    /\ memCid \in [Procs -> Known]
    /\ memManifest \in [Procs -> Known]
    /\ memCount \in [Procs -> Nat]
    /\ timer \in [Procs -> {0} \cup {Delay(f) : f \in 0..MaxFailures}]
    /\ failures \in [Procs -> 0..MaxFailures]
    /\ stopped \in [Procs -> BOOLEAN]

CallType ==
    /\ pc \in [Calls -> PcIdle \cup PcHydrate \cup PcExecute]
    /\ kind \in [Calls -> {"auto", "plain", "force"}]
    /\ full \in [Calls -> BOOLEAN]
    /\ counted \in [Calls -> Nat]
    /\ cid \in [Calls -> Known]
    /\ fresh \in SUBSET Calls

ChainType ==
    /\ ipfs \in Seq([parent: Nat, depth: Nat])
    /\ backups \in Seq(Known)
    /\ pending \in SUBSET Seq(Known)

FileType ==
    /\ stateFile \in [head: Known, count: Nat]
    /\ recoveryFile \in Known
    /\ patchPc \in [Patchers -> {"idle", "read", "writing"}]
    /\ patchCopy \in [Patchers -> [head: Known, count: Nat]]
    /\ acked \in Known

TypeOK == SchedulerType /\ CallType /\ ChainType /\ FileType

Init ==
    /\ initialized = [p \in Procs |-> FALSE]
    /\ running = [p \in Procs |-> FALSE]
    /\ memCid = [p \in Procs |-> None]
    /\ memManifest = [p \in Procs |-> None]
    /\ memCount = [p \in Procs |-> 0]
    /\ timer = [p \in Procs |-> 0]
    /\ failures = [p \in Procs |-> 0]
    /\ stopped = [p \in Procs |-> TRUE]
    /\ pc = [c \in Calls |-> "idle"]
    /\ kind = [c \in Calls |-> "plain"]
    /\ full = [c \in Calls |-> FALSE]
    /\ counted = [c \in Calls |-> 0]
    /\ cid = [c \in Calls |-> None]
    /\ fresh = {}
    /\ pending = {}
    /\ IF HasBackup
         THEN /\ ipfs = <<[parent |-> None, depth |-> 0]>>
              /\ backups = <<1>>
              /\ stateFile = [head |-> 1, count |-> 0]
              /\ recoveryFile = 1
              /\ acked = 1
         ELSE /\ ipfs = <<>>
              /\ backups = <<>>
              /\ stateFile = NoState
              /\ recoveryFile = None
              /\ acked = None
    /\ patchPc = [x \in Patchers |-> "idle"]
    /\ patchCopy = [x \in Patchers |-> NoState]

-----------------------------------------------------------------------------
(* The timer *)

(* scheduleNext() of process p: nothing if a timer is already set. *)
ScheduleNext(p, f) ==
    timer' = IF timer[p] # 0 THEN timer ELSE [timer EXCEPT ![p] = Delay(f)]

(* start() *)
Start(p) ==
    /\ AutoBackupEnabled
    /\ timer[p] = 0
    /\ ScheduleNext(p, failures[p])
    /\ stopped' = [stopped EXCEPT ![p] = FALSE]
    /\ UNCHANGED <<memVars, running, failures, pc, kind, full, counted, cid,
                   fresh, netVars, fileVars, patchVars, acked>>

(* stop(): clears the timer, and nothing else. *)
Stop(p) ==
    /\ ~stopped[p]
    /\ timer' = [timer EXCEPT ![p] = 0]
    /\ stopped' = [stopped EXCEPT ![p] = TRUE]
    /\ UNCHANGED <<memVars, running, failures, pc, kind, full, counted, cid,
                   fresh, netVars, fileVars, patchVars, acked>>

(* runBackup() is entered: the first thing it does is ensureInitialized(). *)
Begin(c, k) ==
    /\ pc[c] = "idle"
    /\ pc' = [pc EXCEPT ![c] = IF initialized[ProcOf[c]] THEN "enter"
                                                         ELSE "readState"]
    /\ kind' = [kind EXCEPT ![c] = k]
    /\ UNCHANGED <<memVars, running, failures, stopped, full, counted, cid,
                   fresh, netVars, fileVars, patchVars, acked>>

(* The timer callback of scheduleNext(). *)
TimerFires(c) ==
    /\ timer[ProcOf[c]] # 0
    /\ timer' = [timer EXCEPT ![ProcOf[c]] = 0]
    /\ Begin(c, "auto")

(* The session_end hook, a tool or the CLI; k = "force" is a forced full. *)
Request(c, k) ==
    /\ Begin(c, k)
    /\ UNCHANGED timer

(* Mutant: only a run that resolved schedules the next one. *)
SettleWithoutRetry(c, resolved) ==
    /\ pc' = [pc EXCEPT ![c] = "idle"]
    /\ kind' = [kind EXCEPT ![c] = "plain"]
    /\ full' = [full EXCEPT ![c] = FALSE]
    /\ counted' = [counted EXCEPT ![c] = 0]
    /\ cid' = [cid EXCEPT ![c] = None]
    /\ IF kind[c] = "auto" /\ resolved
         THEN ScheduleNext(ProcOf[c], 0) ELSE UNCHANGED timer
    /\ UNCHANGED <<failures, stopped>>

(* The promise of runBackup() settles.  For a call made by the timer its   *)
(* then/catch handler counts the failure and schedules the next run.       *)
Settle(c, resolved) ==
    LET p == ProcOf[c]
        f == IF resolved THEN 0
             ELSE IF failures[p] < MaxFailures THEN failures[p] + 1
             ELSE MaxFailures
    IN  /\ pc' = [pc EXCEPT ![c] = "idle"]
        /\ kind' = [kind EXCEPT ![c] = "plain"]
        /\ full' = [full EXCEPT ![c] = FALSE]
        /\ counted' = [counted EXCEPT ![c] = 0]
        /\ cid' = [cid EXCEPT ![c] = None]
        /\ IF kind[c] = "auto"
             THEN /\ failures' = [failures EXCEPT ![p] = f]
                  /\ IF AutoBackupEnabled THEN ScheduleNext(p, f)
                                          ELSE UNCHANGED timer
             ELSE UNCHANGED <<timer, failures>>
        /\ UNCHANGED stopped

(* Mutant: no finally block. *)
FinishWithoutRelease(c, resolved) ==
    /\ running' = IF resolved THEN [running EXCEPT ![ProcOf[c]] = FALSE]
                              ELSE running
    /\ fresh' = fresh \ {c}
    /\ Settle(c, resolved)
    /\ UNCHANGED memVars

(* A call that holds "running" ends; the finally block releases it. *)
Finish(c, resolved) ==
    /\ running' = [running EXCEPT ![ProcOf[c]] = FALSE]
    /\ fresh' = fresh \ {c}
    /\ Settle(c, resolved)
    /\ UNCHANGED memVars

-----------------------------------------------------------------------------
(* ensureInitialized() *)

(* readBackupState() answers; head and count are taken over at once, also  *)
(* when another call of this process has hydrated or backed up meanwhile.  *)
ReadState(c) ==
    LET p == ProcOf[c]
    IN  /\ pc[c] = "readState"
        /\ memCid' = [memCid EXCEPT ![p] = stateFile.head]
        /\ memCount' = [memCount EXCEPT ![p] = stateFile.count]
        /\ cid' = [cid EXCEPT ![c] = stateFile.head]
        /\ IF stateFile.head = None
             THEN /\ initialized' = [initialized EXCEPT ![p] = TRUE]
                  /\ pc' = [pc EXCEPT ![c] = "enter"]
             ELSE /\ pc' = [pc EXCEPT ![c] = "catManifest"]
                  /\ UNCHANGED initialized
        /\ UNCHANGED <<memManifest, running, timeVars, kind, full, counted,
                       fresh, netVars, fileVars, patchVars, acked>>

(* catManifest() answers, or fails and the call falls back to a full run. *)
CatManifest(c) ==
    LET p == ProcOf[c]
    IN  /\ pc[c] = "catManifest"
        /\ \/ /\ memManifest' = [memManifest EXCEPT ![p] = cid[c]]
              /\ UNCHANGED <<memCid, memCount>>
           \/ /\ memManifest' = [memManifest EXCEPT ![p] = None]
              /\ memCid' = [memCid EXCEPT ![p] = None]
              /\ memCount' = [memCount EXCEPT ![p] = 0]
        /\ initialized' = [initialized EXCEPT ![p] = TRUE]
        /\ cid' = [cid EXCEPT ![c] = None]
        /\ pc' = [pc EXCEPT ![c] = "enter"]
        /\ UNCHANGED <<running, timeVars, kind, full, counted, fresh,
                       netVars, fileVars, patchVars, acked>>

(* Mutant: the flag is not looked at. *)
EnterUnguarded(c) ==
    /\ pc[c] = "enter"
    /\ running' = [running EXCEPT ![ProcOf[c]] = TRUE]
    /\ pc' = [pc EXCEPT ![c] = "plan"]
    /\ UNCHANGED <<memVars, timeVars, kind, full, counted, cid, fresh,
                   netVars, fileVars, patchVars, acked>>

(* The reentrance guard of runBackup(). *)
Enter(c) ==
    /\ pc[c] = "enter"
    /\ ~running[ProcOf[c]]
    /\ running' = [running EXCEPT ![ProcOf[c]] = TRUE]
    /\ pc' = [pc EXCEPT ![c] = "plan"]
    /\ UNCHANGED <<memVars, timeVars, kind, full, counted, cid, fresh,
                   netVars, fileVars, patchVars, acked>>

SkipAlreadyRunning(c) ==
    /\ pc[c] = "enter"
    /\ running[ProcOf[c]]
    /\ Settle(c, TRUE)
    /\ UNCHANGED <<memVars, running, fresh, netVars, fileVars, patchVars,
                   acked>>

-----------------------------------------------------------------------------
(* _executeBackup() *)

(* getAgentIdForOwner() rejects, or the wallet owns no soul (any more).    *)
NoAgent(c) ==
    /\ pc[c] = "plan"
    /\ \E resolved \in BOOLEAN : Finish(c, resolved)
    /\ UNCHANGED <<netVars, fileVars, patchVars, acked>>

(* Mutant: off by one in the bound of the incremental chain. *)
PlanOffByOne(c) ==
    LET p == ProcOf[c]
    IN  /\ pc[c] = "plan"
        /\ full' = [full EXCEPT ![c] = \/ kind[c] = "force"
                                       \/ memManifest[p] = None
                                       \/ memCount[p] > MaxIncrementalChain]
        /\ pc' = [pc EXCEPT ![c] = "upload"]
        /\ UNCHANGED <<memVars, running, timeVars, kind, counted, cid, fresh,
                       netVars, fileVars, patchVars, acked>>

(* The agent is known and both snapshots are captured (or failed, which is *)
(* ignored): decide between a full and an incremental run.                 *)
Plan(c) ==
    LET p == ProcOf[c]
    IN  /\ pc[c] = "plan"
        /\ full' = [full EXCEPT ![c] = \/ kind[c] = "force"
                                       \/ memManifest[p] = None
                                       \/ memCount[p] >= MaxIncrementalChain]
        /\ pc' = [pc EXCEPT ![c] = "upload"]
        /\ UNCHANGED <<memVars, running, timeVars, kind, counted, cid, fresh,
                       netVars, fileVars, patchVars, acked>>

(* detectChanges() finds nothing: only a heartbeat is sent. *)
NoChanges(c) ==
    /\ pc[c] = "upload"
    /\ ~full[c]
    /\ pc' = [pc EXCEPT ![c] = "beatNonce"]
    /\ UNCHANGED <<memVars, running, timeVars, kind, full, counted, cid,
                   fresh, netVars, fileVars, patchVars, acked>>

(* Mutant: lastManifestCid moves before the manifest is anchored. *)
UploadRemembers(c) ==
    /\ pc[c] = "upload"
    /\ Len(ipfs) < MaxManifests
    /\ ipfs' = Append(ipfs, Manifest(IF full[c] THEN None
                                      ELSE memCid[ProcOf[c]]))
    /\ cid' = [cid EXCEPT ![c] = Len(ipfs) + 1]
    /\ memCid' = [memCid EXCEPT ![ProcOf[c]] = Len(ipfs) + 1]
    /\ memManifest' = [memManifest EXCEPT ![ProcOf[c]] = Len(ipfs) + 1]
    /\ pc' = [pc EXCEPT ![c] = "nonce"]
    /\ UNCHANGED <<initialized, memCount, running, timeVars, kind, full,
                   counted, fresh, backups, pending, fileVars, patchVars,
                   acked>>

(* The changed files and then the manifest are added to IPFS.  The parent  *)
(* is read from lastManifestCid only now.                                  *)
Upload(c) ==
    /\ pc[c] = "upload"
    /\ Len(ipfs) < MaxManifests
    /\ ipfs' = Append(ipfs, Manifest(IF full[c] THEN None
                                      ELSE memCid[ProcOf[c]]))
    /\ cid' = [cid EXCEPT ![c] = Len(ipfs) + 1]
    /\ pc' = [pc EXCEPT ![c] = "nonce"]
    /\ UNCHANGED <<memVars, running, timeVars, kind, full, counted, fresh,
                   backups, pending, fileVars, patchVars, acked>>

(* Scanning, encrypting, uploading or reading the nonce throws. *)
PrepareFails(c) ==
    /\ pc[c] \in {"upload", "nonce"}
    /\ Finish(c, FALSE)
    /\ UNCHANGED <<netVars, fileVars, patchVars, acked>>

(* getNonce(), before the transaction is signed. *)
ReadNonce(c) ==
    /\ pc[c] \in {"nonce", "beatNonce"}
    /\ fresh' = fresh \cup {c}
    /\ pc' = [pc EXCEPT ![c] = IF pc[c] = "nonce" THEN "anchor" ELSE "beat"]
    /\ UNCHANGED <<memVars, running, timeVars, kind, full, counted, cid,
                   netVars, fileVars, patchVars, acked>>

(* The contract accepts a transaction signed with the current nonce: tx is *)
(* what it appends to the history, one manifest or, for a heartbeat, none. *)
(* Every nonce read before, and every pending transaction, is now stale.   *)
Mined(tx) ==
    /\ backups' = backups \o tx
    /\ pending' = {}
    /\ fresh' = {}

(* tx.wait() returns a receipt of status 1. *)
AnchorConfirmed(c) ==
    /\ pc[c] = "anchor"
    /\ c \in fresh
    /\ Mined(<<cid[c]>>)
    /\ pc' = [pc EXCEPT ![c] = "commit"]
    /\ UNCHANGED <<memVars, running, timeVars, kind, full, counted, cid,
                   ipfs, fileVars, patchVars, acked>>

(* The transaction is mined and the receipt lost: runBackup() rejects. *)
AnchorReceiptLost(c) ==
    /\ pc[c] = "anchor"
    /\ c \in fresh
    /\ Mined(<<cid[c]>>)
    /\ running' = [running EXCEPT ![ProcOf[c]] = FALSE]
    /\ Settle(c, FALSE)
    /\ UNCHANGED <<memVars, ipfs, fileVars, patchVars, acked>>

(* The transaction is sent and not mined when the client gives up. *)
AnchorGivenUp(c) ==
    /\ pc[c] = "anchor"
    /\ c \in fresh
    /\ pending' = pending \cup {<<cid[c]>>}
    /\ Finish(c, FALSE)
    /\ UNCHANGED <<ipfs, backups, fileVars, patchVars, acked>>

(* Mutant: the status of the receipt is not checked. *)
AnchorRejectedIgnored(c) ==
    /\ pc[c] = "anchor"
    /\ pc' = [pc EXCEPT ![c] = "commit"]
    /\ fresh' = fresh \ {c}
    /\ UNCHANGED <<memVars, running, timeVars, kind, full, counted, cid,
                   netVars, fileVars, patchVars, acked>>

(* It is never sent, or reverts because the nonce is stale. *)
AnchorRejected(c) ==
    /\ pc[c] = "anchor"
    /\ Finish(c, FALSE)
    /\ UNCHANGED <<netVars, fileVars, patchVars, acked>>

(* A transaction whose sender gave up is mined after all. *)
MinedLate(tx) ==
    /\ tx \in pending
    /\ Mined(tx)
    /\ UNCHANGED <<memVars, running, timeVars, pc, kind, full, counted, cid,
                   ipfs, fileVars, patchVars, acked>>

(* Mutant: the counter runs backwards. *)
CommitDecrements(c) ==
    LET p == ProcOf[c]
    IN  /\ pc[c] = "commit"
        /\ memManifest' = [memManifest EXCEPT ![p] = cid[c]]
        /\ memCid' = [memCid EXCEPT ![p] = cid[c]]
        /\ memCount' = [memCount EXCEPT ![p] = IF full[c] THEN 0 ELSE @ - 1]
        /\ pc' = [pc EXCEPT ![c] = "package"]
        /\ UNCHANGED <<initialized, running, timeVars, kind, full, counted,
                       cid, fresh, netVars, fileVars, patchVars, acked>>

(* anchorBackup() has returned: step 6 of _executeBackup(). *)
Commit(c) ==
    LET p == ProcOf[c]
    IN  /\ pc[c] = "commit"
        /\ memManifest' = [memManifest EXCEPT ![p] = cid[c]]
        /\ memCid' = [memCid EXCEPT ![p] = cid[c]]
        /\ memCount' = [memCount EXCEPT ![p] = IF full[c] THEN 0 ELSE @ + 1]
        /\ pc' = [pc EXCEPT ![c] = "package"]
        /\ UNCHANGED <<initialized, running, timeVars, kind, full, counted,
                       cid, fresh, netVars, fileVars, patchVars, acked>>

-----------------------------------------------------------------------------
(* persistState(): writeFile() truncates the file before it fills it. *)

TruncatePackage(c) ==
    /\ pc[c] = "package"
    /\ recoveryFile' = None
    /\ pc' = [pc EXCEPT ![c] = "packageWrite"]
    /\ UNCHANGED <<memVars, running, timeVars, kind, full, counted, cid,
                   fresh, netVars, stateFile, patchVars, acked>>

(* incrementalCount is read from the object as soon as the package is      *)
(* written, and not from the finished run.                                 *)
WritePackage(c) ==
    /\ pc[c] = "packageWrite"
    /\ recoveryFile' = cid[c]
    /\ counted' = [counted EXCEPT ![c] = memCount[ProcOf[c]]]
    /\ pc' = [pc EXCEPT ![c] = "state"]
    /\ UNCHANGED <<memVars, running, timeVars, kind, full, cid, fresh,
                   netVars, stateFile, patchVars, acked>>

TruncateState(c) ==
    /\ pc[c] = "state"
    /\ stateFile' = NoState
    /\ pc' = [pc EXCEPT ![c] = "stateWrite"]
    /\ UNCHANGED <<memVars, running, timeVars, kind, full, counted, cid,
                   fresh, netVars, recoveryFile, patchVars, acked>>

(* Mutant: writes lastManifestCid instead of the result of this run. *)
WriteStateFromMemory(c) ==
    /\ pc[c] = "stateWrite"
    /\ stateFile' = [head |-> memCid[ProcOf[c]], count |-> counted[c]]
    /\ pc' = [pc EXCEPT ![c] = "beatNonce"]
    /\ UNCHANGED <<memVars, running, timeVars, kind, full, counted, cid,
                   fresh, netVars, recoveryFile, patchVars, acked>>

WriteState(c) ==
    /\ pc[c] = "stateWrite"
    /\ stateFile' = [head |-> cid[c], count |-> counted[c]]
    /\ pc' = [pc EXCEPT ![c] = "beatNonce"]
    /\ UNCHANGED <<memVars, running, timeVars, kind, full, counted, cid,
                   fresh, netVars, recoveryFile, patchVars, acked>>

(* mkdir() or writeFile() rejects: the run fails although it is anchored. *)
PersistFails(c) ==
    /\ pc[c] \in {"package", "packageWrite", "state", "stateWrite"}
    /\ Finish(c, FALSE)
    /\ UNCHANGED <<netVars, fileVars, patchVars, acked>>

-----------------------------------------------------------------------------
(* _sendHeartbeat(): its failures never fail the run. *)

(* The receipt is returned: "completed" if a manifest was anchored. *)
Return(c) ==
    /\ running' = [running EXCEPT ![ProcOf[c]] = FALSE]
    /\ Settle(c, TRUE)
    /\ acked' = IF cid[c] > acked THEN cid[c] ELSE acked
    /\ UNCHANGED <<memVars, ipfs, fileVars, patchVars>>

HeartbeatMined(c) ==
    /\ pc[c] = "beat"
    /\ c \in fresh
    /\ Mined(<<>>)
    /\ Return(c)

(* The heartbeat is sent and not mined when the client gives up. *)
HeartbeatGivenUp(c) ==
    /\ pc[c] = "beat"
    /\ c \in fresh
    /\ pending' = pending \cup {<<>>}
    /\ fresh' = fresh \ {c}
    /\ Return(c)
    /\ UNCHANGED backups

(* Resurrection is not configured, or any of the calls fails. *)
HeartbeatNotSent(c) ==
    /\ pc[c] \in {"beatNonce", "beat"}
    /\ fresh' = fresh \ {c}
    /\ Return(c)
    /\ UNCHANGED <<backups, pending>>

-----------------------------------------------------------------------------
(* patchBackupState(): read state.json, change other fields, write it back *)

PatchRead(x) ==
    /\ patchPc[x] = "idle"
    /\ patchPc' = [patchPc EXCEPT ![x] = "read"]
    /\ patchCopy' = [patchCopy EXCEPT ![x] = stateFile]
    /\ UNCHANGED <<memVars, running, timeVars, pc, kind, full, counted, cid,
                   fresh, netVars, fileVars, acked>>

PatchTruncate(x) ==
    /\ patchPc[x] = "read"
    /\ patchPc' = [patchPc EXCEPT ![x] = "writing"]
    /\ stateFile' = NoState
    /\ UNCHANGED <<memVars, running, timeVars, pc, kind, full, counted, cid,
                   fresh, netVars, recoveryFile, patchCopy, acked>>

PatchWrite(x) ==
    /\ patchPc[x] = "writing"
    /\ stateFile' = patchCopy[x]
    /\ patchPc' = [patchPc EXCEPT ![x] = "idle"]
    /\ patchCopy' = [patchCopy EXCEPT ![x] = NoState]
    /\ UNCHANGED <<memVars, running, timeVars, pc, kind, full, counted, cid,
                   fresh, netVars, recoveryFile, acked>>

(* The read or the write fails, or the program ends: the file stays as it  *)
(* is, cut off when it has been truncated.                                 *)
PatchFails(x) ==
    /\ patchPc[x] # "idle"
    /\ patchPc' = [patchPc EXCEPT ![x] = "idle"]
    /\ patchCopy' = [patchCopy EXCEPT ![x] = NoState]
    /\ UNCHANGED <<memVars, running, timeVars, pc, kind, full, counted, cid,
                   fresh, netVars, fileVars, acked>>

Patch(x) == PatchRead(x) \/ PatchTruncate(x) \/ PatchWrite(x) \/ PatchFails(x)

-----------------------------------------------------------------------------
(* The process dies and is started again: everything in memory is lost.  A *)
(* transaction that was handed to the node may still be mined.             *)
Crash(p) ==
    /\ initialized' = [initialized EXCEPT ![p] = FALSE]
    /\ running' = [running EXCEPT ![p] = FALSE]
    /\ memCid' = [memCid EXCEPT ![p] = None]
    /\ memManifest' = [memManifest EXCEPT ![p] = None]
    /\ memCount' = [memCount EXCEPT ![p] = 0]
    /\ timer' = [timer EXCEPT ![p] = 0]
    /\ failures' = [failures EXCEPT ![p] = 0]
    /\ stopped' = [stopped EXCEPT ![p] = TRUE]
    /\ pc' = [c \in Calls |-> IF ProcOf[c] = p THEN "idle" ELSE pc[c]]
    /\ fresh' = {c \in fresh : ProcOf[c] # p}
    /\ \E sent \in SUBSET {c \in fresh : ProcOf[c] = p} :
          pending' = pending \cup
              {IF pc[c] = "anchor" THEN <<cid[c]>> ELSE <<>> : c \in sent}
    /\ kind' = [c \in Calls |-> IF ProcOf[c] = p THEN "plain" ELSE kind[c]]
    /\ full' = [c \in Calls |-> ProcOf[c] # p /\ full[c]]
    /\ counted' = [c \in Calls |-> IF ProcOf[c] = p THEN 0 ELSE counted[c]]
    /\ cid' = [c \in Calls |-> IF ProcOf[c] = p THEN None ELSE cid[c]]
    /\ UNCHANGED <<ipfs, backups, fileVars, patchVars, acked>>

-----------------------------------------------------------------------------
(* What a call does once it has begun. *)
Step(c) ==
    \/ ReadState(c) \/ CatManifest(c) \/ Enter(c) \/ SkipAlreadyRunning(c)
    \/ NoAgent(c) \/ Plan(c) \/ NoChanges(c) \/ Upload(c) \/ PrepareFails(c)
    \/ ReadNonce(c) \/ AnchorConfirmed(c) \/ AnchorReceiptLost(c)
    \/ AnchorGivenUp(c) \/ AnchorRejected(c) \/ Commit(c)
    \/ TruncatePackage(c) \/ WritePackage(c) \/ TruncateState(c)
    \/ WriteState(c) \/ PersistFails(c) \/ HeartbeatMined(c)
    \/ HeartbeatGivenUp(c) \/ HeartbeatNotSent(c)

Next ==
    \/ \E c \in Calls : Step(c)
    \/ \E c \in Calls : TimerFires(c)
    \/ \E c \in Calls, k \in {"plain", "force"} : Request(c, k)
    \/ \E p \in Procs : Start(p) \/ Stop(p) \/ Crash(p)
    \/ \E tx \in pending : MinedLate(tx)
    \/ \E x \in Patchers : Patch(x)

Spec == Init /\ [][Next]_vars

(***************************************************************************)
(* Every request to IPFS, to the RPC node and to the disk answers or fails *)
(* in the end, so a call that has begun keeps moving: the event loop runs  *)
(* each continuation.  tx.wait() has no timeout of its own; that the node  *)
(* mines or drops the transaction is part of this assumption.  Nothing is  *)
(* assumed of callers, of stop() or of crashes.                            *)
(***************************************************************************)
FairSpec == Spec /\ \A c \in Calls : WF_vars(Step(c))

-----------------------------------------------------------------------------
(* Properties *)

Executing(p) == {c \in Calls : ProcOf[c] = p /\ pc[c] \in PcExecute}
Anchored == {backups[i] : i \in DOMAIN backups}

(* The reentrance guard works: a process never executes two backups at a   *)
(* time, and "running" is up exactly while one executes, whatever way that *)
(* run ends.  (scheduler.ts, runBackup)                                    *)
OneBackupAtATime ==
    \A p \in Procs :
        /\ \A c, d \in Executing(p) : c = d
        /\ running[p] <=> Executing(p) # {}

(* Every incremental backup in the on-chain history stands on a backup     *)
(* that is anchored before it, so a restore can always walk back to a full *)
(* one, through lost receipts, late transactions, stale hydration, torn    *)
(* files and crashes.  (scheduler.ts _executeBackup, anchor.ts)            *)
ParentsAnchored ==
    \A i \in DOMAIN backups :
        LET parent == ipfs[backups[i]].parent
        IN  parent = None \/ \E j \in 1..(i - 1) : backups[j] = parent

(* What state.json and latest-recovery.json name is on the chain: neither  *)
(* a restart nor restore --latest-local starts from a manifest that was    *)
(* only uploaded.  (scheduler.ts persistState, local-state.ts)             *)
DurableHeadsAnchored ==
    {stateFile.head, recoveryFile} \subseteq Anchored \cup {None}

(* Once runBackup() has returned "completed" for a manifest, both files    *)
(* name that manifest or a newer one, unless a write has left the file     *)
(* truncated; and the recovery package, written first, is never older than *)
(* the chain head in state.json.  With one process and no                  *)
(* patchBackupState() call.                                                *)
CompletedIsDurable ==
    /\ stateFile.head \in {None} \cup {k \in Anchored : k >= acked}
    /\ recoveryFile \in {None} \cup {k \in Anchored : k >= acked}
    /\ recoveryFile = None \/ recoveryFile >= stateFile.head

(* The scheduler implements the ledger it promises. *)
Ledger == INSTANCE BackupLedger
            WITH Cids <- 1..MaxManifests,
                 parentOf <- [k \in Anchored |-> ipfs[k].parent],
                 head <- stateFile.head, package <- recoveryFile

(* The on-chain history is append-only and well-founded, and whatever is   *)
(* written to the two files at whatever moment, by any process, by a patch *)
(* or by a crash in the middle of a write, names an anchored backup.       *)
ImplementsLedger == Ledger!Spec

(* "Max incremental backups before forcing full backup"                    *)
(* (backup-config-schema.ts:15, maxIncrementalChain): no chain a restore   *)
(* has to walk is longer, across restarts, failures and processes.         *)
ChainBounded == \A k \in Anchored : ipfs[k].depth <= MaxIncrementalChain

(* The "running" flag is always released in the end. *)
RunningIsReleased == \A p \in Procs : running[p] ~> ~running[p]

(* Auto-backup never dies silently: a timer that is not stopped is armed   *)
(* again and again.  (scheduler.ts, scheduleNext)                          *)
TimerRearmed == \A p \in Procs : []<>(stopped[p] \/ timer[p] # 0)

=============================================================================
