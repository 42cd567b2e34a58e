---------------------------- MODULE SoulLifecycle ----------------------------
(***************************************************************************)
(* The life cycle of one soul as its operator sees it: registration, first *)
(* backup, resurrection settings, resurrection requests, and the doctor    *)
(* that advises the next command.  Two tasks work on one data directory    *)
(* and one wallet: the backup timer of the gateway, and the commands of    *)
(* the operator, which run as tools in the gateway or as the CLI.          *)
(*                                                                         *)
(* A backup is modelled here as far as others see it: what it contains is  *)
(* SnapshotContent's, its retries and its chain are BackupScheduler's.     *)
(***************************************************************************)
EXTENDS Integers, FiniteSets

CONSTANTS
    MaxRequests,  \* bound: resurrection requests started
    MaxEvents     \* bound: backups of the timer, commands given unasked,
                  \* failures, crashes, outages and edits, taken together

ASSUME LifecycleAssumption ==
    /\ MaxRequests \in Nat
    /\ MaxEvents \in Nat

VARIABLES
    owner,       \* of the soul that belongs to the wallet: nobody, me, other
    anchored,    \* backupCount > 0
    configured,  \* resurrectionConfig.configured
    offline,     \* isOffline()
    status,      \* status[r]: state of request r in the contract
    ipfs,        \* whether IPFS answers
    dir,         \* whether dataDir exists
    pending,     \* pendingResurrectionRequestId in state.json, 0 for null
    pkg,         \* latest-recovery.json: none, truncated, or what decrypts
                 \* the backup
    password,    \* whether the configuration has an encryptionPassword
    task,        \* task[t]: what the timer and the operator's command are at
    todo,        \* commands of the last report still to be given
    habit,       \* the operator follows the doctor, or repeats "backup init"
    inGateway,   \* whether commands run in the program of the timer
    events,      \* number of events, see MaxEvents
    owed,        \* history: pendingResurrectionRequestId as last set
    torn         \* history: whether a write of state.json met another one,
                 \* or was cut off

chain == <<owner, anchored, configured, offline, status>>
local == <<dir, pending, pkg>>
fixed == <<password, habit, inGateway>>
vars == <<chain, ipfs, local, fixed, task, todo, events, owed, torn>>

Requests == 1..MaxRequests
Tasks == {"timer", "operator"}
BackupSteps == {"prepare", "anchor", "package", "packageWriting", "read", "write",
                "writing", "beat"}
Kinds == {"timer", "init", "initKey", "createFull", "create", "register", "configure",
          "heartbeat", "start", "confirm", "complete", "cancel", "doctor"}
Reports == [mine : BOOLEAN, anchored : BOOLEAN, late : BOOLEAN, configured : BOOLEAN,
            offline : BOOLEAN, ipfs : BOOLEAN, dir : BOOLEAN,
            pkg : {"none", "key", "password"}, pending : 0..MaxRequests,
            request : {"none", "open", "confirmed", "ready"}]
Nothing == [mine |-> FALSE, anchored |-> FALSE, late |-> FALSE, configured |-> FALSE,
            offline |-> FALSE, ipfs |-> FALSE, dir |-> FALSE, pkg |-> "none",
            pending |-> 0, request |-> "none"]
Idle == [kind |-> "none", at |-> "idle", id |-> 0, lost |-> FALSE, saw |-> Nothing]
Steps == BackupSteps \cup
    {"agent", "register", "owner", "configure", "heartbeat", "start", "which", "confirm",
     "complete", "cancel", "patchRead", "patchWrite", "patchWriting", "local", "ping", "soul",
     "config", "request", "report"}
Working == [kind : Kinds, at : Steps, id : 0..MaxRequests, lost : BOOLEAN, saw : Reports]
Begun(kind, at) == [Idle EXCEPT !.kind = kind, !.at = at]

TypeOK ==
    /\ owner \in {"nobody", "me", "other"}
    /\ {anchored, configured, offline, ipfs, dir, password, inGateway, torn}
        \subseteq BOOLEAN
    /\ status \in [Requests -> {"none", "open", "confirmed", "executed", "cancelled"}]
    /\ {pending, owed} \subseteq 0..MaxRequests
    /\ pkg \in {"none", "truncated", "key", "password"}
    /\ task \in [Tasks -> {Idle} \cup Working]
    /\ todo \subseteq Kinds
    /\ habit \in {"doctor", "init"}
    /\ events \in 0..MaxEvents

Init ==
    /\ owner = "nobody"
    /\ anchored = FALSE
    /\ configured = FALSE
    /\ offline = FALSE
    /\ status = [r \in Requests |-> "none"]
    /\ ipfs = TRUE
    /\ dir = TRUE
    /\ pending = 0
    /\ pkg = "none"
    /\ password \in BOOLEAN
    /\ task = [t \in Tasks |-> Idle]
    /\ todo = {}
    /\ habit \in {"doctor", "init"}
    /\ inGateway \in BOOLEAN
    /\ events = 0
    /\ owed = 0
    /\ torn = FALSE

At(t, at) == task[t].at = at
GoTo(t, at) == task' = [task EXCEPT ![t].at = at]
End(t) == task' = [task EXCEPT ![t] = Idle]
Keeps == UNCHANGED <<ipfs, fixed, todo, events>>
Event == events < MaxEvents /\ events' = events + 1

(***************************************************************************)
(* A backup, as scheduler.runBackup() goes about it.                       *)
(***************************************************************************)

Running(t) == \E u \in Tasks \ {t} : inGateway /\ task[u].at \in BackupSteps

(* already_running, registration_required, or on.  Only "init" takes       *)
(* either for a failure; nothing else depends on the difference.           *)
BackupBegins(t) ==
    /\ At(t, "owner")
    /\ IF Running(t) \/ owner # "me" THEN End(t) ELSE GoTo(t, "prepare")
    /\ UNCHANGED <<chain, local, owed, torn>> /\ Keeps

(* Snapshots, which create the directory, detection and uploads.  Without  *)
(* changes, and if a full backup is not asked for, it is skipped.          *)
Prepare(t) ==
    /\ At(t, "prepare")
    /\ \/ ipfs /\ GoTo(t, "anchor")
       \/ /\ task[t].kind \in {"create", "timer"}
          /\ anchored
          /\ GoTo(t, "beat")
    /\ dir' = TRUE
    /\ UNCHANGED <<chain, pending, pkg, owed, torn>> /\ Keeps

Anchor(t) ==
    /\ At(t, "anchor")
    /\ ipfs
    /\ owner = "me"
    /\ anchored' = TRUE
    /\ GoTo(t, "package")
    /\ UNCHANGED <<owner, configured, offline, status, local, owed, torn>> /\ Keeps

(* persistState() writes latest-recovery.json, which writeFile() truncates *)
(* first ...                                                               *)
TruncatePackage(t) ==
    /\ At(t, "package")
    /\ dir' = TRUE
    /\ pkg' = "truncated"
    /\ GoTo(t, "packageWriting")
    /\ UNCHANGED <<chain, pending, owed, torn>> /\ Keeps

WriteLatestRecoveryPackage(t) ==
    /\ At(t, "packageWriting")
    /\ pkg' = IF password THEN "password" ELSE "key"
    /\ GoTo(t, "read")
    /\ UNCHANGED <<chain, dir, pending, owed, torn>> /\ Keeps

(* ... and the whole of state.json, with the pending request it has read.  *)
ReadPending(t) ==
    /\ At(t, "read")
    /\ task' = [task EXCEPT ![t].at = "write", ![t].id = pending]
    /\ UNCHANGED <<chain, local, owed, torn>> /\ Keeps

(* Somebody else has read state.json and is to write it back. *)
ToWrite(t) == task[t].at \in {"write", "writing", "patchWrite", "patchWriting"}
MeetsAnother(t) == \E u \in Tasks \ {t} : ToWrite(u)

(* A truncated file has no pending request. *)
TruncateState(t) ==
    /\ At(t, "write")
    /\ dir' = TRUE
    /\ pending' = 0
    /\ torn' = (torn \/ MeetsAnother(t))
    /\ GoTo(t, "writing")
    /\ UNCHANGED <<chain, pkg, owed>> /\ Keeps

(* Mutant: what others have set is not kept. *)
PersistStateAnew(t) ==
    /\ At(t, "writing")
    /\ pending' = 0
    /\ torn' = (torn \/ MeetsAnother(t))
    /\ GoTo(t, "beat")
    /\ UNCHANGED <<chain, dir, pkg, owed>> /\ Keeps

PersistState(t) ==
    /\ At(t, "writing")
    /\ pending' = task[t].id
    /\ torn' = (torn \/ MeetsAnother(t))
    /\ GoTo(t, "beat")
    /\ UNCHANGED <<chain, dir, pkg, owed>> /\ Keeps

(* _sendHeartbeat(), whose failure is not fatal.  After a completed backup *)
(* runInitFlow() configures the resurrection key, if it was given one.     *)
SendHeartbeat(t, sent) ==
    /\ At(t, "beat")
    /\ offline' = IF sent /\ configured THEN FALSE ELSE offline
    /\ IF task[t].kind = "initKey" THEN GoTo(t, "configure") ELSE End(t)
    /\ UNCHANGED <<owner, anchored, configured, status, local, owed, torn>> /\ Keeps

(***************************************************************************)
(* init, register, configure-resurrection, heartbeat.                      *)
(***************************************************************************)

(* runInitFlow() registers the soul only if the wallet has none, ... *)
GetAgentIdForOwner(t) ==
    /\ At(t, "agent")
    /\ GoTo(t, IF owner = "me" THEN "owner" ELSE "register")
    /\ UNCHANGED <<chain, local, owed, torn>> /\ Keeps

(* ... which the contract refuses if the id is taken. *)
RegisterSoul(t) ==
    /\ At(t, "register")
    /\ owner = "nobody"
    /\ owner' = "me"
    /\ IF task[t].kind = "register" THEN End(t) ELSE GoTo(t, "owner")
    /\ UNCHANGED <<anchored, configured, offline, status, local, owed, torn>> /\ Keeps

ConfigureResurrection(t) ==
    /\ At(t, "configure")
    /\ owner = "me"
    /\ configured' = TRUE
    /\ End(t)
    /\ UNCHANGED <<owner, anchored, offline, status, local, owed, torn>> /\ Keeps

Heartbeat(t) ==
    /\ At(t, "heartbeat")
    /\ owner = "me"
    /\ offline' = FALSE
    /\ End(t)
    /\ UNCHANGED <<owner, anchored, configured, status, local, owed, torn>> /\ Keeps

(***************************************************************************)
(* resurrection start, confirm, complete, cancel.                          *)
(***************************************************************************)

Open(r) == status[r] \in {"open", "confirmed"}
CanComplete(r) == status[r] = "confirmed" /\ offline

SetStatus(r, s) ==
    /\ status' = [status EXCEPT ![r] = s]
    /\ UNCHANGED <<owner, anchored, configured, offline>>

InitiateResurrection(t) ==
    /\ At(t, "start")
    /\ configured
    /\ \E r \in Requests :
        /\ status[r] = "none"
        /\ SetStatus(r, "open")
        /\ task' = [task EXCEPT ![t].at = "patchRead", ![t].id = r]
    /\ UNCHANGED <<local, owed, torn>> /\ Keeps

(* The request given with the command, or the pending one. *)
ResolvePendingRequestId(t) ==
    /\ At(t, "which")
    /\ \E r \in {s \in Requests : status[s] # "none"} \cup ({pending} \ {0}) :
        task' = [task EXCEPT ![t].at = task[t].kind, ![t].id = r]
    /\ UNCHANGED <<chain, local, owed, torn>> /\ Keeps

ConfirmCarrier(t) ==
    /\ At(t, "confirm")
    /\ status[task[t].id] = "open"
    /\ SetStatus(task[t].id, "confirmed")
    /\ End(t)
    /\ UNCHANGED <<local, owed, torn>> /\ Keeps

(* Whichever request it was, nothing is pending after complete and cancel. *)
CompleteResurrection(t) ==
    /\ At(t, "complete")
    /\ CanComplete(task[t].id)
    /\ SetStatus(task[t].id, "executed")
    /\ task' = [task EXCEPT ![t].at = "patchRead", ![t].id = 0]
    /\ UNCHANGED <<local, owed, torn>> /\ Keeps

CancelResurrection(t) ==
    /\ At(t, "cancel")
    /\ Open(task[t].id)
    /\ owner = "me"
    /\ SetStatus(task[t].id, "cancelled")
    /\ task' = [task EXCEPT ![t].at = "patchRead", ![t].id = 0]
    /\ UNCHANGED <<local, owed, torn>> /\ Keeps

(* patchBackupState() reads the file, and writes it back with the change.  *)
PatchRead(t) ==
    /\ At(t, "patchRead")
    /\ GoTo(t, "patchWrite")
    /\ UNCHANGED <<chain, local, owed, torn>> /\ Keeps

PatchTruncate(t) ==
    /\ At(t, "patchWrite")
    /\ dir' = TRUE
    /\ pending' = 0
    /\ torn' = (torn \/ MeetsAnother(t))
    /\ GoTo(t, "patchWriting")
    /\ UNCHANGED <<chain, pkg, owed>> /\ Keeps

PatchWrite(t) ==
    /\ At(t, "patchWriting")
    /\ pending' = task[t].id
    /\ owed' = task[t].id
    /\ torn' = (torn \/ MeetsAnother(t))
    /\ End(t)
    /\ UNCHANGED <<chain, dir, pkg>> /\ Keeps

(***************************************************************************)
(* The doctor.                                                             *)
(***************************************************************************)

Sees(t, next, saw) == task' = [task EXCEPT ![t].at = next, ![t].saw = saw]
Saw(t) == task[t].saw

(* buildDoctorReport() reads one thing after the other.  A backup may be   *)
(* overdue whenever there is one: time is not modelled.  A file that does  *)
(* not parse is read as if it were not there.                              *)
ReadLocal(t) ==
    /\ At(t, "local")
    /\ Sees(t, "ping", [Nothing EXCEPT !.pending = pending,
                                      !.pkg = IF pkg = "truncated" THEN "none" ELSE pkg])
    /\ UNCHANGED <<chain, local, owed, torn>> /\ Keeps

Ping(t) ==
    /\ At(t, "ping")
    /\ Sees(t, "soul", [Saw(t) EXCEPT !.dir = dir, !.ipfs = ipfs])
    /\ UNCHANGED <<chain, local, owed, torn>> /\ Keeps

GetSoul(t) ==
    /\ At(t, "soul")
    /\ IF owner = "me"
       THEN \E late \in {FALSE, anchored} :
                Sees(t, "config", [Saw(t) EXCEPT !.mine = TRUE, !.anchored = anchored,
                                                 !.late = late])
       ELSE GoTo(t, "report")
    /\ UNCHANGED <<chain, local, owed, torn>> /\ Keeps

(* A wallet whose soul cannot be asked for looks unregistered. *)
GetSoulFails(t) ==
    /\ At(t, "soul")
    /\ Event
    /\ GoTo(t, "report")
    /\ UNCHANGED <<chain, ipfs, local, fixed, todo, owed, torn>>

GetResurrectionConfig(t) ==
    /\ At(t, "config")
    /\ Sees(t, IF Saw(t).pending = 0 THEN "report" ELSE "request",
            [Saw(t) EXCEPT !.configured = configured, !.offline = configured /\ offline])
    /\ UNCHANGED <<chain, local, owed, torn>> /\ Keeps

(* Mutant: an executed request is shown like others. *)
SeenAsIs(r) == {status[r]}

(* An executed request is left out; one that was cancelled may or may not  *)
(* look executed.                                                          *)
SeenAs(r) ==
    CASE status[r] = "executed" -> {"none"}
      [] status[r] = "cancelled" -> {"none", "open"}
      [] CanComplete(r) -> {"ready"}
      [] OTHER -> {status[r]}

GetResurrectionRequest(t) ==
    /\ At(t, "request")
    /\ \E seen \in SeenAs(Saw(t).pending) :
        Sees(t, "report", [Saw(t) EXCEPT !.request = seen])
    /\ UNCHANGED <<chain, local, owed, torn>> /\ Keeps

(* Mutant: the package is not looked at. *)
RestoreBlockedByPassword(s) == s.pkg = "password" /\ ~password

RestoreBlocked(s) ==
    \/ s.anchored /\ s.pkg = "none"
    \/ s.pkg = "password" /\ ~password

LifecycleState(s) ==
    CASE ~s.dir -> IF s.pkg # "none" /\ ~RestoreBlocked(s)
                   THEN "restore_ready" ELSE "attention_required"
      [] s.dir /\ ~s.mine -> "unregistered"
      [] s.dir /\ s.mine /\ ~s.ipfs -> "ipfs_unreachable"
      [] s.dir /\ s.mine /\ s.ipfs ->
            IF ~s.anchored THEN "registered_no_backup"
            ELSE IF RestoreBlocked(s) THEN "restore_blocked"
            ELSE IF s.request # "none" THEN "resurrection_pending"
            ELSE IF s.offline THEN "offline"
            ELSE IF s.late THEN "backup_overdue"
            ELSE IF ~s.configured THEN "resurrection_unconfigured" ELSE "healthy"

(* Mutant: the first backup is taken for one that is due. *)
AdviceWhenLate(s) ==
    IF ~s.mine THEN {"init"}
    ELSE {k \in Kinds :
            \/ k = "create" /\ s.late
            \/ k = "configure" /\ ~s.configured
            \/ k = "confirm" /\ s.request = "open"
            \/ k = "complete" /\ s.request = "ready"}

(* buildRecommendedActions(), those with a command that changes anything.  *)
Advice(s) ==
    IF ~s.mine THEN {"init"}
    ELSE {k \in Kinds :
            \/ k = "createFull" /\ ~s.anchored
            \/ k = "create" /\ s.late
            \/ k = "configure" /\ ~s.configured
            \/ k = "confirm" /\ s.request = "open"
            \/ k = "complete" /\ s.request = "ready"}

Report(t) ==
    /\ At(t, "report")
    /\ todo' = IF habit = "doctor" THEN Advice(Saw(t)) ELSE {}
    /\ End(t)
    /\ UNCHANGED <<chain, ipfs, local, fixed, events, owed, torn>>

(***************************************************************************)
(* Commands and the timer.                                                 *)
(***************************************************************************)

Give(kind, at) ==
    /\ task["operator"] = Idle
    /\ task' = [task EXCEPT !["operator"] = Begun(kind, at)]

(* The commands of "backup": create [--full], init [--key-hash], ...       *)
CreateCommand(kind) == kind \in {"create", "createFull"} /\ Give(kind, "owner")
InitCommand(kind) == kind \in {"init", "initKey"} /\ Give(kind, "agent")
RegisterCommand(kind) == kind = "register" /\ Give(kind, "register")
HeartbeatCommand(kind) == kind = "heartbeat" /\ Give(kind, "heartbeat")
ConfigureResurrectionCommand(kind) == kind = "configure" /\ Give(kind, "configure")
DoctorCommand(kind) == kind = "doctor" /\ Give(kind, "local")

(* ... and of "backup resurrection".                                       *)
StartCommand(kind) == kind = "start" /\ Give(kind, "start")
ConfirmCommand(kind) == kind = "confirm" /\ Give(kind, "which")
CompleteCommand(kind) == kind = "complete" /\ Give(kind, "which")
CancelCommand(kind) == kind = "cancel" /\ Give(kind, "which")

Command(kind) ==
    \/ CreateCommand(kind)
    \/ InitCommand(kind)
    \/ RegisterCommand(kind)
    \/ HeartbeatCommand(kind)
    \/ ConfigureResurrectionCommand(kind)
    \/ DoctorCommand(kind)
    \/ StartCommand(kind)
    \/ ConfirmCommand(kind)
    \/ CompleteCommand(kind)
    \/ CancelCommand(kind)

(* What the operator has made a habit of: the next advised command, or the *)
(* doctor; or "backup init --key-hash" until everything is set up.         *)
Habit ==
    /\ \/ habit = "doctor" /\ todo = {} /\ DoctorCommand("doctor") /\ UNCHANGED todo
       \/ habit = "doctor" /\ \E k \in todo : Command(k) /\ todo' = todo \ {k}
       \/ habit = "init" /\ ~(anchored /\ configured) /\ InitCommand("initKey") /\ UNCHANGED todo
    /\ UNCHANGED <<chain, ipfs, local, fixed, events, owed, torn>>

(* What the agent itself may do of this, with its soul tools.  They share  *)
(* state.json and the key with the command line; there is none to init,    *)
(* register or configure.                                                  *)
BackupTool(kind) == CreateCommand(kind)
DoctorTool(kind) == DoctorCommand(kind)
ResurrectionTool(kind) ==
    StartCommand(kind) \/ ConfirmCommand(kind) \/ CompleteCommand(kind) \/ CancelCommand(kind)

Unasked(kind) ==
    /\ Event
    /\ Command(kind) \/ BackupTool(kind) \/ DoctorTool(kind) \/ ResurrectionTool(kind)
    /\ UNCHANGED <<chain, ipfs, local, fixed, todo, owed, torn>>

Tick ==
    /\ task["timer"] = Idle
    /\ Event
    /\ task' = [task EXCEPT !["timer"] = Begun("timer", "owner")]
    /\ UNCHANGED <<chain, ipfs, local, fixed, todo, owed, torn>>

(* The contract, IPFS or the lack of a request stop a command. *)
Refused(t) ==
    \/ At(t, "prepare") /\ ~ipfs
    \/ At(t, "anchor") /\ ~(ipfs /\ owner = "me")
    \/ At(t, "register") /\ owner # "nobody"
    \/ task[t].at \in {"configure", "heartbeat"} /\ owner # "me"
    \/ At(t, "start") /\ ~(configured /\ \E r \in Requests : status[r] = "none")
    \/ At(t, "which") /\ pending = 0 /\ \A r \in Requests : status[r] = "none"
    \/ At(t, "confirm") /\ status[task[t].id] # "open"
    \/ At(t, "complete") /\ ~CanComplete(task[t].id)
    \/ At(t, "cancel") /\ ~(Open(task[t].id) /\ owner = "me")

Refuse(t) ==
    /\ Refused(t)
    /\ End(t)
    /\ UNCHANGED <<chain, local, owed, torn>> /\ Keeps

Step(t) ==
    \/ BackupBegins(t)
    \/ Prepare(t)
    \/ Anchor(t)
    \/ TruncatePackage(t)
    \/ WriteLatestRecoveryPackage(t)
    \/ ReadPending(t)
    \/ TruncateState(t)
    \/ PersistState(t)
    \/ \E sent \in BOOLEAN : SendHeartbeat(t, sent)
    \/ GetAgentIdForOwner(t)
    \/ RegisterSoul(t)
    \/ ConfigureResurrection(t)
    \/ Heartbeat(t)
    \/ InitiateResurrection(t)
    \/ ResolvePendingRequestId(t)
    \/ ConfirmCarrier(t)
    \/ CompleteResurrection(t)
    \/ CancelResurrection(t)
    \/ PatchRead(t)
    \/ PatchTruncate(t)
    \/ PatchWrite(t)
    \/ ReadLocal(t)
    \/ Ping(t)
    \/ GetSoul(t)
    \/ GetResurrectionConfig(t)
    \/ GetResurrectionRequest(t)
    \/ Report(t)
    \/ Refuse(t)

(***************************************************************************)
(* What else happens.                                                      *)
(***************************************************************************)

(* An error, or the death of the program: the command goes no further, and *)
(* a file that it was writing stays truncated.                             *)
Fail(t) ==
    /\ task[t] # Idle
    /\ Event
    /\ torn' = (torn \/ task[t].at \in {"writing", "patchWriting"})
    /\ End(t)
    /\ UNCHANGED <<chain, ipfs, local, fixed, todo, owed>>

IpfsFails ==
    /\ ipfs
    /\ Event
    /\ ipfs' = FALSE
    /\ UNCHANGED <<chain, local, fixed, task, todo, owed, torn>>

IpfsReturns ==
    /\ ~ipfs
    /\ ipfs' = TRUE
    /\ UNCHANGED <<chain, local, fixed, task, todo, events, owed, torn>>

(* The data directory is deleted, and state.json with it, perhaps under a  *)
(* command (history: lost).  A deletion that meets a write has the effect  *)
(* of one that follows it.                                                 *)
DirIsLost ==
    /\ dir
    /\ \A t \in Tasks : task[t].at \notin {"packageWriting", "writing", "patchWriting"}
    /\ Event
    /\ dir' = FALSE
    /\ pkg' = "none"
    /\ pending' = 0
    /\ owed' = 0
    /\ torn' = (torn \/ \E t \in Tasks : task[t].at \in {"write", "patchWrite"})
    /\ task' = [t \in Tasks |-> [task[t] EXCEPT !.lost = task[t] # Idle]]
    /\ UNCHANGED <<chain, ipfs, fixed, todo>>

(* encryptionPassword is set or removed, between two starts. *)
EditPassword ==
    /\ \A t \in Tasks : task[t] = Idle
    /\ Event
    /\ password' = ~password
    /\ UNCHANGED <<chain, ipfs, local, habit, inGateway, task, todo, owed, torn>>

(* Time goes by. *)
GoesOffline ==
    /\ configured /\ ~offline
    /\ offline' = TRUE
    /\ UNCHANGED <<owner, anchored, configured, status, ipfs, local, fixed, task, todo,
                   events, owed, torn>>

(* The carrier confirms, anyone completes, the owner cancels on another    *)
(* host; the guardians complete a recovery: the soul has another owner.    *)
Elsewhere ==
    /\ \/ \E r \in Requests :
            \/ status[r] = "open" /\ SetStatus(r, "confirmed")
            \/ CanComplete(r) /\ SetStatus(r, "executed")
            \/ Open(r) /\ SetStatus(r, "cancelled")
       \/ /\ owner = "me"
          /\ owner' = "other"
          /\ UNCHANGED <<anchored, configured, offline, status>>
    /\ UNCHANGED <<ipfs, local, fixed, task, todo, events, owed, torn>>

Next ==
    \/ \E t \in Tasks : Step(t) \/ GetSoulFails(t) \/ Fail(t)
    \/ Habit
    \/ \E kind \in Kinds \ {"timer"} : Unasked(kind)
    \/ Tick
    \/ IpfsFails
    \/ IpfsReturns
    \/ DirIsLost
    \/ EditPassword
    \/ GoesOffline
    \/ Elsewhere

(* Awaits return, IPFS is brought back, and the operator keeps at it.      *)
Fairness ==
    /\ \A t \in Tasks : WF_vars(Step(t))
    /\ WF_vars(IpfsReturns)
    /\ WF_vars(Habit)

Spec == Init /\ [][Next]_vars /\ Fairness

(***************************************************************************)
(* Properties.                                                             *)
(***************************************************************************)

(* The request that was started last is the pending one until it is        *)
(* completed or cancelled, however many backups write state.json meanwhile *)
(* (persistState() writes the whole file, scheduler.ts:182), whatever      *)
(* commands fail.  Excepted are what the code does not guard against: two  *)
(* programs or tasks that are between reading and writing the file at the  *)
(* same time, and a write that is cut off after writeFile() has truncated  *)
(* the file, for which there is no other copy of the request.              *)
PendingIsKept ==
    \/ torn
    \/ \E t \in Tasks : task[t].at \in {"writing", "patchWriting"}
    \/ pending = owed

(* A doctor that calls the soul healthy has not been misled by reading the *)
(* chain and the disk one after the other, while a backup or a command     *)
(* went on: the soul is registered and backed up, can be restored from     *)
(* here, and its resurrection is configured; only the loss of the data or  *)
(* of the soul itself can have come in between, or that a backup is        *)
(* writing latest-recovery.json anew, or was cut off in that.              *)
HealthyIsTrue ==
    \A t \in Tasks :
        At(t, "report") /\ LifecycleState(Saw(t)) = "healthy" =>
            /\ anchored
            /\ configured
            /\ owner \in {"me", "other"}
            /\ dir => (pkg # "none" \/ task[t].lost)

(* An operator who follows the advice of the doctor, or repeats "backup    *)
(* init --key-hash", ends up with a soul that is registered, backed up and *)
(* can be resurrected, whatever step of an earlier command failed, unless  *)
(* the guardians give it to somebody else.                                 *)
SetUpAtLast == <>(owner = "other" \/ (owner = "me" /\ anchored /\ configured))
=============================================================================
