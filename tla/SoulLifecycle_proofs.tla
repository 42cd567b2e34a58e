------------------------ MODULE SoulLifecycle_proofs ------------------------
(***************************************************************************)
(* What TLAPS proves of the life cycle, for any number of requests and     *)
(* events.                                                                 *)
(***************************************************************************)
EXTENDS SoulLifecycle, TLAPS

(* "which" is a step of three commands only, and the doctor asks for a     *)
(* request only when one is pending.                                       *)
StageInv ==
    \A t \in Tasks :
        /\ At(t, "which") => task[t].kind \in {"confirm", "complete", "cancel"}
        /\ At(t, "request") => Saw(t).pending # 0

TypeInv == TypeOK /\ StageInv

-----------------------------------------------------------------------------
(* Tasks *)

(* The program counter tells a task that is under way from an idle one. *)
LEMMA UnderWay ==
    ASSUME TypeOK, NEW t \in Tasks, task[t].at \in Steps
    PROVE  task[t] \in Working
<1>1. Idle.at \notin Steps
  BY DEF Idle, Steps, BackupSteps
<1>2. task[t] \in {Idle} \cup Working
  BY DEF TypeOK
<1>q. QED
  BY <1>1, <1>2

(* A task that goes to another step stays a task. *)
LEMMA GoToType ==
    ASSUME TypeInv, NEW t \in Tasks, task[t] \in Working,
           NEW at \in Steps \ {"which", "request"}, GoTo(t, at)
    PROVE  task' \in [Tasks -> {Idle} \cup Working] /\ StageInv'
<1>1. /\ task' \in [Tasks -> {Idle} \cup Working]
      /\ \A u \in Tasks : u # t => task'[u] = task[u]
      /\ task'[t] = [task[t] EXCEPT !.at = at]
  BY DEF GoTo, TypeInv, TypeOK, Working
<1>2. task'[t].at = at
  BY <1>1 DEF Working
<1>q. QED
  BY <1>1, <1>2 DEF TypeInv, StageInv, At, Saw

LEMMA EndType ==
    ASSUME TypeInv, NEW t \in Tasks, End(t)
    PROVE  task' \in [Tasks -> {Idle} \cup Working] /\ StageInv'
<1>1. /\ task' \in [Tasks -> {Idle} \cup Working]
      /\ \A u \in Tasks : u # t => task'[u] = task[u]
      /\ task'[t].at = "idle"
  BY DEF End, TypeInv, TypeOK, Idle
<1>q. QED
  BY <1>1 DEF TypeInv, StageInv, At, Saw

(* A task goes on with another id, ... *)
LEMMA IdType ==
    ASSUME TypeInv, NEW t \in Tasks, task[t] \in Working,
           NEW at \in Steps \ {"which", "request"}, NEW id \in 0..MaxRequests,
           task' = [task EXCEPT ![t].at = at, ![t].id = id]
    PROVE  task' \in [Tasks -> {Idle} \cup Working] /\ StageInv'
<1>1. /\ task' \in [Tasks -> {Idle} \cup Working]
      /\ \A u \in Tasks : u # t => task'[u] = task[u]
      /\ task'[t] = [task[t] EXCEPT !.at = at, !.id = id]
  BY DEF TypeInv, TypeOK, Working
<1>2. task'[t].at = at
  BY <1>1 DEF Working
<1>q. QED
  BY <1>1, <1>2 DEF TypeInv, StageInv, At, Saw

(* ... or having seen more. *)
LEMMA SeesType ==
    ASSUME TypeInv, NEW t \in Tasks, task[t] \in Working,
           NEW at \in Steps \ {"which"}, NEW saw \in Reports, Sees(t, at, saw),
           at = "request" => saw.pending # 0
    PROVE  task' \in [Tasks -> {Idle} \cup Working] /\ StageInv'
<1>1. /\ task' \in [Tasks -> {Idle} \cup Working]
      /\ \A u \in Tasks : u # t => task'[u] = task[u]
      /\ task'[t] = [task[t] EXCEPT !.at = at, !.saw = saw]
  BY DEF TypeInv, TypeOK, Working, Sees
<1>2. task'[t].at = at /\ task'[t].saw = saw
  BY <1>1 DEF Working
<1>q. QED
  BY <1>1, <1>2 DEF TypeInv, StageInv, At, Saw

(* Idle knows nothing, and nothing is lost under it. *)
LEMMA IdleFacts ==
    /\ Idle.at = "idle" /\ Idle.lost = FALSE /\ Idle.id = 0
    /\ Idle.saw = Nothing /\ Nothing \in Reports
  BY LifecycleAssumption DEF Idle, Nothing, Reports

-----------------------------------------------------------------------------
(* Types *)

LEMMA InitType == Init => TypeInv
<1> SUFFICES ASSUME Init PROVE TypeInv
  OBVIOUS
<1>1. \A t \in Tasks : task[t] = Idle
  BY DEF Init
<1>2. task \in [Tasks -> {Idle} \cup Working]
  BY DEF Init
<1>3. status \in [Requests -> {"none", "open", "confirmed", "executed", "cancelled"}]
  BY DEF Init
<1>4. TypeOK
  <2>1. 0 \in 0..MaxRequests /\ 0 \in 0..MaxEvents
    BY LifecycleAssumption
  <2>2. /\ {pending, owed} \subseteq 0..MaxRequests
        /\ {anchored, configured, offline, ipfs, dir, password, inGateway, torn}
              \subseteq BOOLEAN
    BY <2>1 DEF Init
  <2>q. QED
    BY <1>2, <1>3, <2>1, <2>2 DEF Init, TypeOK
<1>5. StageInv
  BY <1>1, IdleFacts DEF StageInv, At
<1>q. QED
  BY <1>4, <1>5 DEF TypeInv

(* What a step of a task must show besides the type of the task. *)
StepType(t) ==
    /\ task' \in [Tasks -> {Idle} \cup Working] /\ StageInv'
    /\ owner' \in {"nobody", "me", "other"}
    /\ {anchored', configured', offline', dir', torn'} \subseteq BOOLEAN
    /\ status' \in [Requests -> {"none", "open", "confirmed", "executed", "cancelled"}]
    /\ {pending', owed'} \subseteq 0..MaxRequests
    /\ pkg' \in {"none", "truncated", "key", "password"}

LEMMA StepTypes ==
    ASSUME TypeInv, NEW t \in Tasks, Step(t)
    PROVE  StepType(t)
<1> USE DEF TypeInv, TypeOK, chain, local, StepType
<1>0. task[t] \in {Idle} \cup Working
  OBVIOUS
<1>a. ASSUME task[t].at \in Steps PROVE task[t] \in Working
  BY <1>a, UnderWay
<1>b. ASSUME task[t].at \in Steps, NEW at \in Steps \ {"which", "request"}, GoTo(t, at)
      PROVE  task' \in [Tasks -> {Idle} \cup Working] /\ StageInv'
  BY <1>a, <1>b, GoToType
<1>c. ASSUME End(t) PROVE task' \in [Tasks -> {Idle} \cup Working] /\ StageInv'
  BY <1>c, EndType
<1>d. ASSUME task[t].at \in Steps, NEW at \in Steps \ {"which", "request"},
             NEW id \in 0..MaxRequests,
             task' = [task EXCEPT ![t].at = at, ![t].id = id]
      PROVE  task' \in [Tasks -> {Idle} \cup Working] /\ StageInv'
  BY <1>a, <1>d, IdType
<1>e. ASSUME task[t].at \in Steps, NEW at \in Steps \ {"which"}, NEW saw \in Reports,
             Sees(t, at, saw), at = "request" => saw.pending # 0
      PROVE  task' \in [Tasks -> {Idle} \cup Working] /\ StageInv'
  BY <1>a, <1>e, SeesType
<1> USE DEF At, Steps, BackupSteps
<1>1. CASE BackupBegins(t)
  BY <1>1, <1>b, <1>c DEF BackupBegins
<1>2. CASE Prepare(t)
  BY <1>2, <1>b DEF Prepare
<1>3. CASE Anchor(t)
  BY <1>3, <1>b DEF Anchor
<1>4. CASE TruncatePackage(t) \/ WriteLatestRecoveryPackage(t)
  BY <1>4, <1>b DEF TruncatePackage, WriteLatestRecoveryPackage
<1>5. CASE ReadPending(t)
  BY <1>5, <1>d DEF ReadPending
<1>6. CASE TruncateState(t) \/ PersistState(t)
  <2>1. task[t].id \in 0..MaxRequests /\ 0 \in 0..MaxRequests
    BY <1>6, <1>a, LifecycleAssumption DEF TruncateState, PersistState, Working
  <2>q. QED
    BY <1>6, <1>b, <2>1 DEF TruncateState, PersistState
<1>7. ASSUME NEW sent \in BOOLEAN, SendHeartbeat(t, sent) PROVE StepType(t)
  BY <1>7, <1>b, <1>c DEF SendHeartbeat
<1>8. CASE GetAgentIdForOwner(t)
  BY <1>8, <1>b DEF GetAgentIdForOwner
<1>9. CASE RegisterSoul(t)
  BY <1>9, <1>b, <1>c DEF RegisterSoul
<1>10. CASE ConfigureResurrection(t)
  BY <1>10, <1>c DEF ConfigureResurrection
<1>11. CASE Heartbeat(t)
  BY <1>11, <1>c DEF Heartbeat
<1>12. CASE InitiateResurrection(t)
  <2>1. PICK r \in Requests :
            /\ SetStatus(r, "open")
            /\ task' = [task EXCEPT ![t].at = "patchRead", ![t].id = r]
    BY <1>12 DEF InitiateResurrection
  <2>2. r \in 0..MaxRequests
    BY LifecycleAssumption DEF Requests
  <2>q. QED
    BY <1>12, <1>d, <2>1, <2>2 DEF InitiateResurrection, SetStatus
<1>13. CASE ResolvePendingRequestId(t)
  <2>1. PICK r \in 0..MaxRequests :
            task' = [task EXCEPT ![t].at = task[t].kind, ![t].id = r]
    <3>1. {q \in Requests : status[q] # "none"} \cup ({pending} \ {0})
            \subseteq 0..MaxRequests
      BY LifecycleAssumption DEF Requests
    <3>q. QED
      BY <1>13, <3>1 DEF ResolvePendingRequestId
  <2>2. task[t].kind \in Steps \ {"which", "request"}
    BY <1>13 DEF ResolvePendingRequestId, StageInv
  <2>q. QED
    BY <1>13, <1>d, <2>1, <2>2 DEF ResolvePendingRequestId
<1>14. CASE ConfirmCarrier(t)
  BY <1>14, <1>c DEF ConfirmCarrier, SetStatus
<1>15. CASE CompleteResurrection(t)
  <2>1. 0 \in 0..MaxRequests
    BY LifecycleAssumption
  <2>2. task' \in [Tasks -> {Idle} \cup Working] /\ StageInv'
    BY <1>15, <1>d, <2>1 DEF CompleteResurrection
  <2>q. QED
    BY <1>15, <2>2 DEF CompleteResurrection, SetStatus
<1>16. CASE CancelResurrection(t)
  <2>1. 0 \in 0..MaxRequests
    BY LifecycleAssumption
  <2>2. task' \in [Tasks -> {Idle} \cup Working] /\ StageInv'
    BY <1>16, <1>d, <2>1 DEF CancelResurrection
  <2>q. QED
    BY <1>16, <2>2 DEF CancelResurrection, SetStatus
<1>17. CASE PatchRead(t)
  BY <1>17, <1>b DEF PatchRead
<1>18. CASE PatchTruncate(t) \/ PatchWrite(t)
  <2>1. task[t].id \in 0..MaxRequests /\ 0 \in 0..MaxRequests
    BY <1>18, <1>a, LifecycleAssumption DEF PatchTruncate, PatchWrite, Working
  <2>q. QED
    BY <1>18, <1>b, <1>c, <2>1 DEF PatchTruncate, PatchWrite
<1>19. CASE ReadLocal(t)
  <2>1. [Nothing EXCEPT !.pending = pending,
                        !.pkg = IF pkg = "truncated" THEN "none" ELSE pkg] \in Reports
    BY IdleFacts DEF Reports
  <2>q. QED
    BY <1>19, <1>e, <2>1 DEF ReadLocal
<1>20. CASE Ping(t)
  <2>1. Saw(t) \in Reports
    BY <1>20, <1>a DEF Ping, Saw, Working
  <2>2. [Saw(t) EXCEPT !.dir = dir, !.ipfs = ipfs] \in Reports
    BY <2>1 DEF Reports
  <2>q. QED
    BY <1>20, <1>e, <2>2 DEF Ping
<1>21. CASE GetSoul(t)
  <2>1. Saw(t) \in Reports
    BY <1>21, <1>a DEF GetSoul, Saw, Working
  <2>2. \A late \in {FALSE, anchored} :
          [Saw(t) EXCEPT !.mine = TRUE, !.anchored = anchored, !.late = late] \in Reports
    BY <2>1 DEF Reports
  <2>3. CASE owner = "me"
    <3>1. PICK late \in {FALSE, anchored} :
            Sees(t, "config", [Saw(t) EXCEPT !.mine = TRUE, !.anchored = anchored,
                                             !.late = late])
      BY <1>21, <2>3 DEF GetSoul
    <3>q. QED
      BY <1>21, <1>e, <2>2, <3>1 DEF GetSoul
  <2>4. CASE owner # "me"
    BY <1>21, <1>b, <2>4 DEF GetSoul
  <2>q. QED
    BY <2>3, <2>4
<1>22. CASE GetResurrectionConfig(t)
  <2> DEFINE saw == [Saw(t) EXCEPT !.configured = configured,
                                   !.offline = configured /\ offline]
  <2>1. Saw(t) \in Reports
    BY <1>22, <1>a DEF GetResurrectionConfig, Saw, Working
  <2>2. saw \in Reports /\ saw.pending = Saw(t).pending
    BY <2>1 DEF Reports
  <2>3. Sees(t, IF Saw(t).pending = 0 THEN "report" ELSE "request", saw)
    BY <1>22 DEF GetResurrectionConfig
  <2> HIDE DEF saw
  <2>4. CASE Saw(t).pending = 0
    BY <1>22, <1>e, <2>2, <2>3, <2>4 DEF GetResurrectionConfig
  <2>5. CASE Saw(t).pending # 0
    BY <1>22, <1>e, <2>2, <2>3, <2>5 DEF GetResurrectionConfig
  <2>q. QED
    BY <2>4, <2>5
<1>23. CASE GetResurrectionRequest(t)
  <2>1. Saw(t) \in Reports /\ Saw(t).pending # 0
    BY <1>23, <1>a DEF GetResurrectionRequest, Saw, Working, StageInv
  <2>2. Saw(t).pending \in Requests
    BY <2>1, LifecycleAssumption DEF Reports, Requests
  <2>3. SeenAs(Saw(t).pending) \subseteq {"none", "open", "confirmed", "ready"}
    BY <2>2 DEF SeenAs
  <2>4. PICK seen \in SeenAs(Saw(t).pending) :
            Sees(t, "report", [Saw(t) EXCEPT !.request = seen])
    BY <1>23 DEF GetResurrectionRequest
  <2>5. [Saw(t) EXCEPT !.request = seen] \in Reports
    BY <2>1, <2>3 DEF Reports
  <2>q. QED
    BY <1>23, <1>e, <2>4, <2>5 DEF GetResurrectionRequest
<1>24. CASE Report(t)
  BY <1>24, <1>c DEF Report
<1>25. CASE Refuse(t)
  BY <1>25, <1>c DEF Refuse
<1>q. QED
  BY <1>1, <1>2, <1>3, <1>4, <1>5, <1>6, <1>7, <1>8, <1>9, <1>10, <1>11, <1>12,
     <1>13, <1>14, <1>15, <1>16, <1>17, <1>18, <1>19, <1>20, <1>21, <1>22, <1>23,
     <1>24, <1>25 DEF Step

(* Nor does a step of a task touch what only others change. *)
LEMMA StepKeeps ==
    ASSUME TypeInv, NEW t \in Tasks, Step(t)
    PROVE  UNCHANGED <<ipfs, fixed, events>> /\ todo' \subseteq Kinds
<1> USE DEF TypeInv, TypeOK, Keeps
<1>1. CASE Report(t)
  <2>1. Advice(Saw(t)) \subseteq Kinds
    BY DEF Advice, Kinds
  <2>q. QED
    BY <1>1, <2>1 DEF Report
<1>2. CASE ~Report(t)
  BY <1>2 DEF Step, BackupBegins, Prepare, Anchor, TruncatePackage,
     WriteLatestRecoveryPackage, ReadPending, TruncateState, PersistState, PatchTruncate, SendHeartbeat, GetAgentIdForOwner, RegisterSoul, ConfigureResurrection,
     Heartbeat, InitiateResurrection, ResolvePendingRequestId, ConfirmCarrier,
     CompleteResurrection, CancelResurrection, PatchRead, PatchWrite, ReadLocal, Ping,
     GetSoul, GetResurrectionConfig, GetResurrectionRequest, Refuse
<1>q. QED
  BY <1>1, <1>2

(* A command starts from a task that was idle, having seen nothing. *)
Starts(u, kind, at) ==
    /\ task[u] = Idle
    /\ task' = [task EXCEPT ![u] = Begun(kind, at)]

LEMMA StartsType ==
    ASSUME TypeInv, NEW u \in Tasks, NEW kind \in Kinds, NEW at \in Steps \ {"request"},
           at = "which" => kind \in {"confirm", "complete", "cancel"},
           Starts(u, kind, at)
    PROVE  task' \in [Tasks -> {Idle} \cup Working] /\ StageInv'
<1>1. Begun(kind, at) \in Working
  <2>1. Idle \in [kind : {"none"}, at : {"idle"}, id : 0..MaxRequests, lost : BOOLEAN,
                  saw : Reports]
    BY IdleFacts, LifecycleAssumption DEF Idle
  <2>q. QED
    BY <2>1 DEF Begun, Working
<1>2. Begun(kind, at).at = at /\ Begun(kind, at).kind = kind
  BY DEF Begun, Idle
<1>3. /\ task' \in [Tasks -> {Idle} \cup Working]
      /\ \A v \in Tasks : v # u => task'[v] = task[v]
      /\ task'[u] = Begun(kind, at)
  BY <1>1 DEF Starts, TypeInv, TypeOK
<1>q. QED
  BY <1>2, <1>3 DEF TypeInv, StageInv, At, Saw

(* The commands all start the operator's task, at one step or another. *)
LEMMA CommandStarts ==
    ASSUME NEW kind \in Kinds, Command(kind)
    PROVE  \E at \in Steps \ {"write", "writing", "patchWriting", "request", "report"} :
             /\ Starts("operator", kind, at)
             /\ at = "which" => kind \in {"confirm", "complete", "cancel"}
  BY DEF Command, CreateCommand, InitCommand, RegisterCommand, HeartbeatCommand,
     ConfigureResurrectionCommand, DoctorCommand, StartCommand, ConfirmCommand,
     CompleteCommand, CancelCommand, Give, Starts, Steps, BackupSteps

(* What the operator does of a habit or unasked is a command. *)
LEMMA HabitIsCommand ==
    ASSUME TypeInv, Habit
    PROVE  todo' \subseteq Kinds /\ \E kind \in Kinds : Command(kind)
  BY DEF Habit, Command, TypeInv, TypeOK, Kinds

LEMMA UnaskedIsCommand ==
    ASSUME NEW kind \in Kinds, Unasked(kind)
    PROVE  Command(kind)
  BY DEF Unasked, BackupTool, DoctorTool, ResurrectionTool, Command

(* The loss of the directory leaves every task at its step. *)
LEMMA LossMarks ==
    ASSUME TypeInv, DirIsLost, NEW u \in Tasks
    PROVE  /\ task[u] = Idle => task'[u] = Idle
           /\ task[u] # Idle => /\ task[u] \in Working
                               /\ task'[u] \in Working
                               /\ task'[u].lost
           /\ task'[u].at = task[u].at /\ task'[u].saw = task[u].saw
           /\ task'[u].kind = task[u].kind /\ task'[u].id = task[u].id
<1>1. task'[u] = [task[u] EXCEPT !.lost = task[u] # Idle]
  BY DEF DirIsLost
<1>2. CASE task[u] = Idle
  <2>1. [Idle EXCEPT !.lost = FALSE] = Idle
    <3>1. Idle \in [kind : {"none"}, at : {"idle"}, id : {0}, lost : {FALSE}, saw : {Nothing}]
      BY DEF Idle
    <3>2. \A i \in [kind : {"none"}, at : {"idle"}, id : {0}, lost : {FALSE}, saw : {Nothing}] :
             [i EXCEPT !.lost = FALSE] = i
      OBVIOUS
    <3>q. QED
      BY <3>1, <3>2
  <2>2. task'[u] = Idle
    BY <1>1, <1>2, <2>1
  <2>q. QED
    BY <1>2, <2>2
<1>3. CASE task[u] # Idle
  <2>1. task[u] \in Working
    BY <1>3 DEF TypeInv, TypeOK
  <2>2. task'[u] = [task[u] EXCEPT !.lost = TRUE]
    BY <1>1, <1>3
  <2>q. QED
    BY <1>3, <2>1, <2>2 DEF Working
<1>q. QED
  BY <1>2, <1>3

LEMMA LossType ==
    ASSUME TypeInv, DirIsLost
    PROVE  task' \in [Tasks -> {Idle} \cup Working] /\ StageInv'
<1>1. \A u \in Tasks : task'[u] \in {Idle} \cup Working
  BY LossMarks
<1>2. task' = [u \in Tasks |-> task'[u]]
  BY DEF DirIsLost
<1>3. task' \in [Tasks -> {Idle} \cup Working]
  BY <1>1, <1>2
<1>q. QED
  BY <1>3, LossMarks DEF TypeInv, StageInv, At, Saw

LEMMA NextType == TypeInv /\ [Next]_vars => TypeInv'
<1> SUFFICES ASSUME TypeInv, [Next]_vars PROVE TypeInv'
  OBVIOUS
<1>0. StageInv /\ TypeOK
  BY DEF TypeInv
<1>b. BOOLEAN = {TRUE, FALSE}
  OBVIOUS
<1>1. ASSUME NEW t \in Tasks, Step(t) PROVE TypeInv'
  <2>1. StepType(t)
    BY <1>1, StepTypes
  <2>2. UNCHANGED <<ipfs, fixed, events>> /\ todo' \subseteq Kinds
    BY <1>1, StepKeeps
  <2>q. QED
    BY <1>0, <2>1, <2>2 DEF TypeInv, TypeOK, StepType, fixed
<1>e. ASSUME Event PROVE events' \in 0..MaxEvents
  BY <1>0, <1>e, LifecycleAssumption DEF Event, TypeOK
<1>2. ASSUME NEW t \in Tasks, GetSoulFails(t) PROVE TypeInv'
  <2>1. task[t] \in Working
    BY <1>0, <1>2, UnderWay DEF GetSoulFails, At, Steps
  <2>2. task' \in [Tasks -> {Idle} \cup Working] /\ StageInv'
    BY <1>2, <2>1, GoToType DEF GetSoulFails, Steps
  <2>q. QED
    BY <1>0, <1>2, <1>e, <2>2 DEF TypeInv, TypeOK, GetSoulFails, chain, local, fixed
<1>3. ASSUME NEW t \in Tasks, Fail(t) PROVE TypeInv'
  <2>1. task' \in [Tasks -> {Idle} \cup Working] /\ StageInv'
    BY <1>3, EndType DEF Fail
  <2>q. QED
    BY <1>0, <1>3, <1>e, <2>1 DEF TypeInv, TypeOK, Fail, chain, local, fixed
<1>c. ASSUME NEW kind \in Kinds, Command(kind)
      PROVE  task' \in [Tasks -> {Idle} \cup Working] /\ StageInv'
  <2>1. PICK at \in Steps \ {"request"} :
             /\ Starts("operator", kind, at)
             /\ at = "which" => kind \in {"confirm", "complete", "cancel"}
    BY <1>c, CommandStarts
  <2>q. QED
    BY <2>1, StartsType DEF Tasks
<1>4. CASE Habit
  <2>1. task' \in [Tasks -> {Idle} \cup Working] /\ StageInv' /\ todo' \subseteq Kinds
    BY <1>4, <1>c, HabitIsCommand
  <2>q. QED
    BY <1>0, <1>4, <2>1 DEF TypeInv, TypeOK, Habit, chain, local, fixed
<1>5. ASSUME NEW kind \in Kinds \ {"timer"}, Unasked(kind) PROVE TypeInv'
  <2>1. task' \in [Tasks -> {Idle} \cup Working] /\ StageInv'
    BY <1>5, <1>c, UnaskedIsCommand
  <2>q. QED
    BY <1>0, <1>5, <1>e, <2>1 DEF TypeInv, TypeOK, Unasked, chain, local, fixed
<1>6. CASE Tick
  <2>1. Starts("timer", "timer", "owner")
    BY <1>6 DEF Tick, Starts
  <2>2. task' \in [Tasks -> {Idle} \cup Working] /\ StageInv'
    BY <2>1, StartsType DEF Tasks, Kinds, Steps
  <2>q. QED
    BY <1>0, <1>6, <1>e, <2>2 DEF TypeInv, TypeOK, Tick, chain, local, fixed
<1>s. ASSUME UNCHANGED task PROVE StageInv'
  BY <1>0, <1>s DEF StageInv, At, Saw
<1>7. CASE IpfsFails
  BY <1>0, <1>7, <1>e, <1>s DEF TypeInv, TypeOK, IpfsFails, chain, local, fixed
<1>8. CASE IpfsReturns
  BY <1>0, <1>8, <1>s DEF TypeInv, TypeOK, IpfsReturns, chain, local, fixed
<1>9. CASE DirIsLost
  <2>1. task' \in [Tasks -> {Idle} \cup Working] /\ StageInv'
    BY <1>9, LossType
  <2>2. {pending', owed'} \subseteq 0..MaxRequests
    BY <1>9, LifecycleAssumption DEF DirIsLost
  <2>3. {dir', torn'} \subseteq BOOLEAN
    BY <1>0, <1>9 DEF DirIsLost, TypeOK
  <2>q. QED
    BY <1>0, <1>9, <1>e, <2>1, <2>2, <2>3 DEF TypeInv, TypeOK, DirIsLost, chain, fixed
<1>10. CASE EditPassword
  BY <1>0, <1>10, <1>e, <1>s DEF TypeInv, TypeOK, EditPassword, chain, local
<1>11. CASE GoesOffline
  BY <1>0, <1>11, <1>s DEF TypeInv, TypeOK, GoesOffline, local, fixed
<1>12. CASE Elsewhere
  BY <1>0, <1>12, <1>s DEF TypeInv, TypeOK, Elsewhere, SetStatus, local, fixed
<1>13. CASE UNCHANGED vars
  BY <1>0, <1>13, <1>s DEF TypeInv, TypeOK, vars, chain, local, fixed
<1>q. QED
  BY <1>1, <1>2, <1>3, <1>4, <1>5, <1>6, <1>7, <1>8, <1>9, <1>10, <1>11, <1>12, <1>13
  DEF Next

LEMMA SpecType == Spec => []TypeInv
  BY InitType, NextType, PTL DEF Spec

(* Whatever the commands, the timer, the losses and the failures do, the   *)
(* state of the life cycle keeps its type.                                 *)
THEOREM TypeCorrect == Spec => []TypeOK
<1>1. TypeInv => TypeOK
  BY DEF TypeInv
<1>q. QED
  BY <1>1, SpecType, PTL

-----------------------------------------------------------------------------
(* The pending request *)

InWrite(t) == task[t].at \in {"writing", "patchWriting"}
Holds == {"write", "writing", "patchWriting"}

(* A backup between reading state.json and writing it back holds the       *)
(* request that is pending, unless somebody else was writing when it read, *)
(* or has written since; and the file says so unless it is being written.  *)
PendingInv ==
    \/ torn
    \/ /\ (\A t \in Tasks : ~InWrite(t)) => pending = owed
       /\ \A t \in Tasks :
            task[t].at \in {"write", "writing"} =>
                task[t].id = owed \/ \E u \in Tasks \ {t} : InWrite(u)

(* A step that writes neither the file nor the history keeps that, if no   *)
(* task comes to the point of writing by it, or leaves a write.            *)
LEMMA PendingUntouched ==
    ASSUME PendingInv, UNCHANGED <<pending, owed, torn>>,
           \A u \in Tasks : task'[u] # task[u] => ~InWrite(u) /\ task'[u].at \notin Holds
    PROVE  PendingInv'
<1>1. \A u \in Tasks : InWrite(u)' = InWrite(u)
  BY DEF InWrite, Holds
<1>2. \A u \in Tasks : task'[u].at \in {"write", "writing"} => task'[u] = task[u]
  BY DEF Holds
<1>q. QED
  BY <1>1, <1>2 DEF PendingInv

(* A task's own step leaves the others where they are. *)
LEMMA OthersStay ==
    ASSUME TypeInv, NEW t \in Tasks, Step(t)
    PROVE  \A u \in Tasks \ {t} : task'[u] = task[u]
<1>1. task \in [Tasks -> {Idle} \cup Working]
  BY DEF TypeInv, TypeOK
<1>q. QED
  BY <1>1 DEF Step, BackupBegins, Prepare, Anchor, TruncatePackage,
     WriteLatestRecoveryPackage, ReadPending, TruncateState, PersistState, SendHeartbeat,
     GetAgentIdForOwner, RegisterSoul, ConfigureResurrection, Heartbeat,
     InitiateResurrection, ResolvePendingRequestId, ConfirmCarrier, CompleteResurrection,
     CancelResurrection, PatchRead, PatchTruncate, PatchWrite, ReadLocal, Ping, GetSoul,
     GetResurrectionConfig, GetResurrectionRequest, Report, Refuse, GoTo, End, Sees

(* The steps that read and write state.json to change it. *)
Writes(t) ==
    \/ ReadPending(t)
    \/ TruncateState(t)
    \/ PersistState(t)
    \/ PatchTruncate(t)
    \/ PatchWrite(t)

(* Only by these does a task come to write, or leave a write. *)
LEMMA OthersDoNotWrite ==
    ASSUME TypeInv, NEW t \in Tasks, Step(t), ~Writes(t)
    PROVE  ~InWrite(t) /\ task'[t].at \notin Holds
<1> USE DEF At, Holds, InWrite
<1>1. task \in [Tasks -> {Idle} \cup Working] /\ StageInv /\ task[t] \in {Idle} \cup Working
  BY DEF TypeInv, TypeOK
<1>2. Idle.at = "idle"
  BY IdleFacts
<1>a. ASSUME task[t].at \in Steps PROVE task[t] \in Working
  BY <1>a, UnderWay DEF TypeInv
<1>b. ASSUME task[t].at \in Steps, NEW at, at \notin Holds, GoTo(t, at)
      PROVE  task'[t].at \notin Holds
  BY <1>1, <1>a, <1>b DEF GoTo, Working
<1>c. ASSUME End(t) PROVE task'[t].at \notin Holds
  BY <1>1, <1>2, <1>c DEF End
<1>d. ASSUME task[t].at \in Steps, NEW at, NEW id, at \notin Holds,
             task' = [task EXCEPT ![t].at = at, ![t].id = id]
      PROVE  task'[t].at \notin Holds
  BY <1>1, <1>a, <1>d DEF Working
<1>e. ASSUME task[t].at \in Steps, NEW at, NEW saw, at \notin Holds, Sees(t, at, saw)
      PROVE  task'[t].at \notin Holds
  BY <1>1, <1>a, <1>e DEF Sees, Working
<1> USE DEF Steps, BackupSteps
<1>3. CASE BackupBegins(t) \/ Prepare(t) \/ Anchor(t) \/ TruncatePackage(t)
           \/ WriteLatestRecoveryPackage(t)
  BY <1>3, <1>b, <1>c DEF BackupBegins, Prepare, Anchor, TruncatePackage,
     WriteLatestRecoveryPackage
<1>4. ASSUME NEW sent \in BOOLEAN, SendHeartbeat(t, sent)
      PROVE  ~InWrite(t) /\ task'[t].at \notin Holds
  BY <1>4, <1>b, <1>c DEF SendHeartbeat
<1>5. CASE GetAgentIdForOwner(t) \/ RegisterSoul(t) \/ ConfigureResurrection(t) \/ Heartbeat(t)
  BY <1>5, <1>b, <1>c DEF GetAgentIdForOwner, RegisterSoul, ConfigureResurrection, Heartbeat
<1>6. CASE InitiateResurrection(t) \/ CompleteResurrection(t) \/ CancelResurrection(t)
  BY <1>6, <1>d DEF InitiateResurrection, CompleteResurrection, CancelResurrection
<1>7. CASE ResolvePendingRequestId(t)
  <2>1. task[t].kind \notin Holds
    BY <1>1, <1>7 DEF ResolvePendingRequestId, StageInv
  <2>q. QED
    BY <1>7, <1>d, <2>1 DEF ResolvePendingRequestId
<1>8. CASE ConfirmCarrier(t) \/ PatchRead(t) \/ Report(t) \/ Refuse(t)
  BY <1>8, <1>b, <1>c DEF ConfirmCarrier, PatchRead, Report, Refuse, Refused
<1>9. CASE ReadLocal(t) \/ Ping(t)
  BY <1>9, <1>e DEF ReadLocal, Ping
<1>10. CASE GetSoul(t)
  BY <1>10, <1>b, <1>e DEF GetSoul
<1>11. CASE GetResurrectionConfig(t)
  <2>1. PICK at, saw : at \in {"report", "request"} /\ Sees(t, at, saw)
    BY <1>11 DEF GetResurrectionConfig
  <2>q. QED
    BY <1>11, <1>e, <2>1 DEF GetResurrectionConfig
<1>12. CASE GetResurrectionRequest(t)
  BY <1>12, <1>e DEF GetResurrectionRequest
<1>q. QED
  BY <1>3, <1>4, <1>5, <1>6, <1>7, <1>8, <1>9, <1>10, <1>11, <1>12 DEF Step, Writes

LEMMA StepPending ==
    ASSUME TypeInv, PendingInv, NEW t \in Tasks, Step(t)
    PROVE  PendingInv'
<1>1. \A u \in Tasks \ {t} : task'[u] = task[u] /\ InWrite(u)' = InWrite(u)
  BY OthersStay DEF InWrite
<1>a. Writes(t) => task[t] \in Working
  BY UnderWay DEF Writes, ReadPending, TruncateState, PersistState, PatchTruncate,
     PatchWrite, At, Steps, BackupSteps, TypeInv
<1>b. task \in [Tasks -> {Idle} \cup Working]
  BY DEF TypeInv, TypeOK
<1>2. CASE ReadPending(t)
  <2>1. task'[t].id = pending /\ ~InWrite(t) /\ ~InWrite(t)' /\ UNCHANGED <<pending, owed, torn>>
    BY <1>2, <1>a, <1>b DEF ReadPending, Writes, Working, InWrite, At, local
  <2>2. CASE \E u \in Tasks \ {t} : InWrite(u)
    BY <1>1, <2>1, <2>2 DEF PendingInv
  <2>3. CASE \A u \in Tasks \ {t} : ~InWrite(u)
    BY <1>1, <2>1, <2>3 DEF PendingInv
  <2>q. QED
    BY <2>2, <2>3
<1>3. CASE TruncateState(t) \/ PatchTruncate(t)
  <2>1. /\ task'[t].id = task[t].id /\ owed' = owed /\ InWrite(t)'
        /\ torn' = (torn \/ MeetsAnother(t))
        /\ task'[t].at = "writing" => task[t].at = "write"
    BY <1>3, <1>a, <1>b
    DEF TruncateState, PatchTruncate, Writes, Working, InWrite, At, GoTo
  <2>2. CASE torn \/ MeetsAnother(t)
    BY <2>1, <2>2 DEF PendingInv
  <2>3. CASE ~torn /\ ~MeetsAnother(t)
    <3>1. \A u \in Tasks \ {t} : ~InWrite(u) /\ task[u].at \notin {"write", "writing"}
      BY <2>3 DEF MeetsAnother, ToWrite, InWrite
    <3>2. task'[t].at \in {"write", "writing"} => task'[t].id = owed'
      <4>1. task'[t].at # "write"
        BY <2>1 DEF InWrite
      <4>q. QED
        BY <2>1, <2>3, <3>1, <4>1 DEF PendingInv
    <3>q. QED
      BY <1>1, <2>1, <3>1, <3>2 DEF PendingInv
  <2>q. QED
    BY <2>2, <2>3
<1>4. CASE PersistState(t) \/ PatchWrite(t)
  <2>1. /\ pending' = task[t].id
        /\ task'[t].at \notin {"write", "writing"} /\ ~InWrite(t)'
        /\ torn' = (torn \/ MeetsAnother(t))
        /\ \/ owed' = owed /\ task[t].at = "writing"
           \/ owed' = task[t].id
    BY <1>4, <1>a, <1>b, IdleFacts
    DEF PersistState, PatchWrite, Writes, Working, InWrite, At, GoTo, End
  <2>2. CASE torn \/ MeetsAnother(t)
    BY <2>1, <2>2 DEF PendingInv
  <2>3. CASE ~torn /\ ~MeetsAnother(t)
    <3>1. \A u \in Tasks \ {t} : ~InWrite(u) /\ task[u].at \notin {"write", "writing"}
      BY <2>3 DEF MeetsAnother, ToWrite, InWrite
    <3>2. pending' = owed'
      BY <2>1, <2>3, <3>1 DEF PendingInv
    <3>q. QED
      BY <1>1, <2>1, <3>1, <3>2 DEF PendingInv
  <2>q. QED
    BY <2>2, <2>3
<1>5. CASE ~Writes(t)
  <2>1. ~InWrite(t) /\ task'[t].at \notin Holds
    BY <1>5, OthersDoNotWrite
  <2>2. UNCHANGED <<pending, owed, torn>>
    BY <1>5 DEF Step, Writes, BackupBegins, Prepare, Anchor, TruncatePackage,
       WriteLatestRecoveryPackage, SendHeartbeat, GetAgentIdForOwner, RegisterSoul,
       ConfigureResurrection, Heartbeat, InitiateResurrection, ResolvePendingRequestId,
       ConfirmCarrier, CompleteResurrection, CancelResurrection, PatchRead, ReadLocal, Ping,
       GetSoul, GetResurrectionConfig, GetResurrectionRequest, Report, Refuse, local
  <2>q. QED
    BY <1>1, <2>1, <2>2, PendingUntouched
<1>q. QED
  BY <1>2, <1>3, <1>4, <1>5 DEF Writes

(* Of the rest, only the loss of the directory touches the file. *)
LEMMA StartPending ==
    ASSUME TypeInv, PendingInv, UNCHANGED <<pending, owed, torn>>, NEW u \in Tasks,
           NEW kind, NEW at, at \notin Holds, Starts(u, kind, at)
    PROVE  PendingInv'
<1>1. Begun(kind, at).at = at
  BY DEF Begun, Idle
<1>2. /\ task[u].at = "idle" /\ task'[u].at = at
      /\ \A v \in Tasks \ {u} : task'[v] = task[v]
  BY <1>1, IdleFacts DEF Starts, TypeInv, TypeOK
<1>q. QED
  BY <1>2, PendingUntouched DEF InWrite, Holds

LEMMA NextPending == TypeInv /\ PendingInv /\ [Next]_vars => PendingInv'
<1> SUFFICES ASSUME TypeInv, PendingInv, [Next]_vars PROVE PendingInv'
  OBVIOUS
<1>1. ASSUME NEW t \in Tasks, Step(t) PROVE PendingInv'
  BY <1>1, StepPending
<1>2. ASSUME NEW t \in Tasks, GetSoulFails(t) \/ Fail(t) PROVE PendingInv'
  <2>1. CASE GetSoulFails(t)
    <3>1. task[t] \in Working
      BY <2>1, UnderWay DEF GetSoulFails, At, Steps, TypeInv
    <3>2. \A u \in Tasks : task'[u] # task[u] => ~InWrite(u) /\ task'[u].at \notin Holds
      BY <2>1, <3>1 DEF GetSoulFails, GoTo, At, InWrite, Holds, TypeInv, TypeOK, Working
    <3>q. QED
      BY <2>1, <3>2, PendingUntouched DEF GetSoulFails, local
  <2>2. CASE Fail(t)
    <3>1. task'[t] = Idle /\ \A u \in Tasks \ {t} : task'[u] = task[u]
      BY <2>2 DEF Fail, End, TypeInv, TypeOK
    <3>2. CASE InWrite(t)
      BY <2>2, <3>2 DEF Fail, InWrite, PendingInv
    <3>3. CASE ~InWrite(t)
      <4>1. \A u \in Tasks : task'[u] # task[u] => ~InWrite(u) /\ task'[u].at \notin Holds
        BY <3>1, <3>3, IdleFacts DEF Holds
      <4>2. torn' = torn
        BY <2>2, <3>3 DEF Fail, InWrite, TypeInv, TypeOK
      <4>q. QED
        BY <2>2, <4>1, <4>2, PendingUntouched DEF Fail, local
    <3>q. QED
      BY <3>2, <3>3
  <2>q. QED
    BY <1>2, <2>1, <2>2
<1>c. ASSUME NEW kind \in Kinds, Command(kind), UNCHANGED <<pending, owed, torn>>
      PROVE  PendingInv'
  <2>1. PICK at \in Steps \ Holds : Starts("operator", kind, at)
    BY <1>c, CommandStarts DEF Holds
  <2>q. QED
    BY <1>c, <2>1, StartPending DEF Tasks
<1>3. CASE Habit
  BY <1>3, <1>c, HabitIsCommand DEF Habit, local
<1>4. ASSUME NEW kind \in Kinds \ {"timer"}, Unasked(kind) PROVE PendingInv'
  BY <1>4, <1>c, UnaskedIsCommand DEF Unasked, local
<1>5. CASE Tick
  <2>1. Starts("timer", "timer", "owner") /\ UNCHANGED <<pending, owed, torn>>
    BY <1>5 DEF Tick, Starts, local
  <2>q. QED
    BY <2>1, StartPending DEF Tasks, Holds
<1>6. CASE DirIsLost
  <2>1. \A u \in Tasks : task'[u].at = task[u].at
    BY <1>6, LossMarks
  <2>q. QED
    BY <1>6, <2>1 DEF DirIsLost, PendingInv, InWrite
<1>7. CASE UNCHANGED <<task, pending, owed, torn>>
  BY <1>7, PendingUntouched DEF InWrite
<1>8. CASE IpfsFails \/ IpfsReturns \/ EditPassword \/ GoesOffline \/ Elsewhere
           \/ UNCHANGED vars
  BY <1>7, <1>8 DEF IpfsFails, IpfsReturns, EditPassword, GoesOffline, Elsewhere, vars, local
<1>q. QED
  BY <1>1, <1>2, <1>3, <1>4, <1>5, <1>6, <1>8 DEF Next

(* The request that was started last stays the pending one through any     *)
(* number of backups that write state.json, until it is completed or       *)
(* cancelled, unless two writers of the file met or a write was cut off.   *)
THEOREM PendingKept == Spec => []PendingIsKept
<1>1. Init => PendingInv
  <2> SUFFICES ASSUME Init PROVE PendingInv
    OBVIOUS
  <2>1. \A t \in Tasks : task[t].at = "idle"
    BY IdleFacts DEF Init
  <2>q. QED
    BY <2>1 DEF Init, PendingInv
<1>2. PendingInv => PendingIsKept
  BY DEF PendingInv, PendingIsKept, InWrite
<1>q. QED
  BY <1>1, <1>2, NextPending, SpecType, PTL DEF Spec

-----------------------------------------------------------------------------
(* The doctor's report *)

(* What a task w has seen is still so: of all a doctor reads, this is      *)
(* never taken back, except that the directory may be lost under it.       *)
StillSo(w) ==
    /\ w.saw.mine => owner # "nobody"
    /\ w.saw.anchored => anchored
    /\ w.saw.configured => configured
    /\ w.saw.pkg # "none" => pkg # "none" \/ w.lost

SeenInv == \A t \in Tasks : StillSo(task[t])

(* A soul has an owner for good, and a first backup and a resurrection     *)
(* configuration for good; a recovery package only goes with the           *)
(* directory.                                                              *)
LEMMA NothingTakenBack ==
    ASSUME TypeInv, [Next]_vars
    PROVE  /\ owner # "nobody" => owner' # "nobody"
           /\ anchored => anchored'
           /\ configured => configured'
           /\ pkg # "none" => pkg' # "none" \/ DirIsLost
<1>1. ASSUME NEW t \in Tasks, Step(t)
      PROVE  /\ owner # "nobody" => owner' # "nobody"
             /\ anchored => anchored'
             /\ configured => configured'
             /\ pkg # "none" => pkg' # "none"
  <2>1. CASE Anchor(t) \/ TruncatePackage(t) \/ WriteLatestRecoveryPackage(t)
               \/ RegisterSoul(t) \/ ConfigureResurrection(t)
    BY <2>1 DEF Anchor, TruncatePackage, WriteLatestRecoveryPackage, RegisterSoul, ConfigureResurrection,
       local, chain
  <2>2. CASE BackupBegins(t) \/ Prepare(t) \/ ReadPending(t) \/ TruncateState(t)
               \/ PersistState(t) \/ GetAgentIdForOwner(t) \/ Heartbeat(t) \/ Refuse(t)
    BY <2>2 DEF BackupBegins, Prepare, ReadPending, TruncateState, PersistState, GetAgentIdForOwner,
       Heartbeat, Refuse, chain, local
  <2>5. ASSUME NEW sent \in BOOLEAN, SendHeartbeat(t, sent)
        PROVE  UNCHANGED <<owner, anchored, configured, pkg>>
    BY <2>5 DEF SendHeartbeat, local
  <2>3. CASE InitiateResurrection(t) \/ ResolvePendingRequestId(t) \/ ConfirmCarrier(t)
               \/ CompleteResurrection(t) \/ CancelResurrection(t) \/ PatchRead(t)
               \/ PatchTruncate(t) \/ PatchWrite(t)
    BY <2>3 DEF InitiateResurrection, ResolvePendingRequestId, ConfirmCarrier,
       CompleteResurrection, CancelResurrection, PatchRead, PatchTruncate, PatchWrite, SetStatus, chain,
       local
  <2>4. CASE ReadLocal(t) \/ Ping(t) \/ GetSoul(t) \/ GetResurrectionConfig(t)
               \/ GetResurrectionRequest(t) \/ Report(t)
    BY <2>4 DEF ReadLocal, Ping, GetSoul, GetResurrectionConfig, GetResurrectionRequest,
       Report, chain, local
  <2>q. QED
    BY <1>1, <2>1, <2>2, <2>3, <2>4, <2>5 DEF Step
<1>2. ASSUME NEW t \in Tasks, GetSoulFails(t) \/ Fail(t) PROVE UNCHANGED <<chain, local>>
  BY <1>2 DEF GetSoulFails, Fail
<1>3. ASSUME NEW kind, Unasked(kind) PROVE UNCHANGED <<chain, local>>
  BY <1>3 DEF Unasked
<1>4. CASE Habit \/ Tick \/ IpfsFails \/ IpfsReturns \/ EditPassword \/ UNCHANGED vars
  BY <1>4 DEF Habit, Tick, IpfsFails, IpfsReturns, EditPassword, vars, chain, local
<1>5. CASE DirIsLost \/ GoesOffline \/ Elsewhere
  BY <1>5 DEF DirIsLost, GoesOffline, Elsewhere, SetStatus, chain, local
<1>q. QED
  BY <1>1, <1>2, <1>3, <1>4, <1>5 DEF Next, chain, local

(* So a task that learns nothing, or forgets everything, stays right. *)
LEMMA UnseenStaysSo ==
    ASSUME TypeInv, [Next]_vars, ~DirIsLost, NEW u \in Tasks, StillSo(task[u]),
           \/ task'[u].saw = Nothing
           \/ task'[u].saw = task[u].saw /\ task'[u].lost = task[u].lost
    PROVE  StillSo(task[u])'
<1>1. CASE task'[u].saw = Nothing
  BY <1>1 DEF StillSo, Nothing
<1>2. CASE task'[u].saw = task[u].saw /\ task'[u].lost = task[u].lost
  BY <1>2, NothingTakenBack DEF StillSo
<1>q. QED
  BY <1>1, <1>2

(* The steps by which a task sees something. *)
Looks(t) ==
    \/ ReadLocal(t)
    \/ Ping(t)
    \/ GetSoul(t)
    \/ GetResurrectionConfig(t)
    \/ GetResurrectionRequest(t)

LEMMA OnlyLooksSee ==
    ASSUME TypeInv, NEW t \in Tasks, Step(t), ~Looks(t)
    PROVE  \/ task'[t].saw = Nothing
           \/ task'[t].saw = task[t].saw /\ task'[t].lost = task[t].lost
<1>1. task \in [Tasks -> {Idle} \cup Working]
  BY DEF TypeInv, TypeOK
<1>a. ASSUME task[t].at \in Steps PROVE task[t] \in Working
  BY <1>a, UnderWay DEF TypeInv
<1>b. ASSUME task[t].at \in Steps, NEW at, GoTo(t, at)
      PROVE  task'[t].saw = task[t].saw /\ task'[t].lost = task[t].lost
  BY <1>1, <1>a, <1>b DEF GoTo, Working
<1>c. ASSUME End(t) PROVE task'[t].saw = Nothing
  BY <1>1, <1>c, IdleFacts DEF End
<1>d. ASSUME task[t].at \in Steps, NEW at, NEW id,
             task' = [task EXCEPT ![t].at = at, ![t].id = id]
      PROVE  task'[t].saw = task[t].saw /\ task'[t].lost = task[t].lost
  BY <1>1, <1>a, <1>d DEF Working
<1> USE DEF At, Steps, BackupSteps
<1>3. CASE BackupBegins(t) \/ Prepare(t) \/ Anchor(t) \/ TruncatePackage(t)
           \/ WriteLatestRecoveryPackage(t)
  BY <1>3, <1>b, <1>c DEF BackupBegins, Prepare, Anchor, TruncatePackage,
     WriteLatestRecoveryPackage
<1>4. CASE TruncateState(t) \/ PersistState(t)
  BY <1>4, <1>b DEF TruncateState, PersistState
<1>8. ASSUME NEW sent \in BOOLEAN, SendHeartbeat(t, sent)
      PROVE  \/ task'[t].saw = Nothing
             \/ task'[t].saw = task[t].saw /\ task'[t].lost = task[t].lost
  BY <1>8, <1>b, <1>c DEF SendHeartbeat
<1>5. CASE GetAgentIdForOwner(t) \/ RegisterSoul(t) \/ ConfigureResurrection(t) \/ Heartbeat(t)
  BY <1>5, <1>b, <1>c DEF GetAgentIdForOwner, RegisterSoul, ConfigureResurrection, Heartbeat
<1>6. CASE ReadPending(t) \/ InitiateResurrection(t) \/ ResolvePendingRequestId(t)
           \/ CompleteResurrection(t) \/ CancelResurrection(t)
  BY <1>6, <1>d DEF ReadPending, InitiateResurrection, ResolvePendingRequestId,
     CompleteResurrection, CancelResurrection
<1>7. CASE ConfirmCarrier(t) \/ PatchRead(t) \/ PatchTruncate(t) \/ PatchWrite(t)
           \/ Report(t) \/ Refuse(t)
  BY <1>7, <1>b, <1>c DEF ConfirmCarrier, PatchRead, PatchTruncate, PatchWrite, Report, Refuse
<1>q. QED
  BY <1>3, <1>4, <1>5, <1>6, <1>7, <1>8 DEF Step, Looks

(* What is seen is so at the time. *)
LEMMA LooksSeeWhatIs ==
    ASSUME TypeInv, NEW t \in Tasks, Looks(t), StillSo(task[t])
    PROVE  StillSo(task[t])'
<1>1. task[t] \in Working
  BY UnderWay DEF TypeInv, Looks, ReadLocal, Ping, GetSoul, GetResurrectionConfig,
     GetResurrectionRequest, At, Steps
<1>2. /\ task \in [Tasks -> {Idle} \cup Working]
      /\ Saw(t) \in Reports
      /\ \A at, saw : Sees(t, at, saw) => task'[t].saw = saw /\ task'[t].lost = task[t].lost
  BY <1>1 DEF Sees, TypeInv, TypeOK, Working, Saw
<1>3. UNCHANGED <<owner, anchored, configured, pkg>>
  BY DEF Looks, ReadLocal, Ping, GetSoul, GetResurrectionConfig, GetResurrectionRequest,
     chain, local
<1>4. CASE ReadLocal(t)
  <2>1. task'[t].saw = [Nothing EXCEPT !.pending = pending,
                                      !.pkg = IF pkg = "truncated" THEN "none" ELSE pkg]
    BY <1>2, <1>4 DEF ReadLocal
  <2>2. task'[t].saw.pkg \in {"none", pkg} /\ ~task'[t].saw.mine /\ ~task'[t].saw.anchored
          /\ ~task'[t].saw.configured
    BY <2>1 DEF Nothing
  <2>q. QED
    BY <1>3, <2>2 DEF StillSo
<1>5. CASE Ping(t)
  <2>1. task'[t].saw = [Saw(t) EXCEPT !.dir = dir, !.ipfs = ipfs]
    BY <1>2, <1>5 DEF Ping
  <2>2. /\ task'[t].saw.mine = task[t].saw.mine
        /\ task'[t].saw.anchored = task[t].saw.anchored
        /\ task'[t].saw.configured = task[t].saw.configured
        /\ task'[t].saw.pkg = task[t].saw.pkg
    BY <1>2, <2>1 DEF Saw, Reports
  <2>3. task'[t].lost = task[t].lost
    BY <1>2, <1>5 DEF Ping
  <2>q. QED
    BY <1>3, <2>2, <2>3 DEF StillSo
<1>6. CASE GetSoul(t)
  <2>1. CASE owner = "me"
    <3>1. PICK late \in {FALSE, anchored} :
            Sees(t, "config", [Saw(t) EXCEPT !.mine = TRUE, !.anchored = anchored,
                                             !.late = late])
      BY <1>6, <2>1 DEF GetSoul
    <3>2. task'[t].saw = [Saw(t) EXCEPT !.mine = TRUE, !.anchored = anchored, !.late = late]
      BY <1>2, <3>1
    <3>3. /\ task'[t].saw.anchored = anchored
          /\ task'[t].saw.configured = task[t].saw.configured
          /\ task'[t].saw.pkg = task[t].saw.pkg
      BY <1>2, <3>2 DEF Saw, Reports
    <3>4. task'[t].lost = task[t].lost
      BY <1>2, <3>1
    <3>q. QED
      BY <1>3, <2>1, <3>3, <3>4 DEF StillSo
  <2>2. CASE owner # "me"
    BY <1>1, <1>2, <1>3, <1>6, <2>2 DEF GetSoul, GoTo, StillSo, Working
  <2>q. QED
    BY <2>1, <2>2
<1>7. CASE GetResurrectionConfig(t)
  <2>1. task'[t].saw = [Saw(t) EXCEPT !.configured = configured,
                                     !.offline = configured /\ offline]
    BY <1>2, <1>7 DEF GetResurrectionConfig
  <2>2. /\ task'[t].saw.mine = task[t].saw.mine
        /\ task'[t].saw.anchored = task[t].saw.anchored
        /\ task'[t].saw.configured = configured
        /\ task'[t].saw.pkg = task[t].saw.pkg
    BY <1>2, <2>1 DEF Saw, Reports
  <2>3. task'[t].lost = task[t].lost
    BY <1>2, <1>7 DEF GetResurrectionConfig
  <2>q. QED
    BY <1>3, <2>2, <2>3 DEF StillSo
<1>8. CASE GetResurrectionRequest(t)
  BY <1>2, <1>3, <1>8 DEF GetResurrectionRequest, StillSo, Saw, Reports
<1>q. QED
  BY <1>4, <1>5, <1>6, <1>7, <1>8 DEF Looks

LEMMA NextSeen == TypeInv /\ SeenInv /\ [Next]_vars => SeenInv'
<1> SUFFICES ASSUME TypeInv, SeenInv, [Next]_vars, NEW u \in Tasks PROVE StillSo(task[u])'
  BY DEF SeenInv
<1>0. StillSo(task[u])
  BY DEF SeenInv
<1>1. CASE DirIsLost
  <2>1. CASE task[u] = Idle
    BY <1>1, <2>1, LossMarks, IdleFacts DEF StillSo, Nothing
  <2>2. CASE task[u] # Idle
    BY <1>0, <1>1, <2>2, LossMarks DEF StillSo, DirIsLost, chain
  <2>q. QED
    BY <2>1, <2>2
<1> DEFINE Quiet == \/ task'[u].saw = Nothing
                    \/ task'[u].saw = task[u].saw /\ task'[u].lost = task[u].lost
<1>2. ASSUME ~DirIsLost, Quiet PROVE StillSo(task[u])'
  BY <1>0, <1>2, UnseenStaysSo
<1>3. ASSUME NEW t \in Tasks, Step(t), ~DirIsLost PROVE StillSo(task[u])'
  <2>1. CASE t # u
    BY <1>2, <1>3, <2>1, OthersStay
  <2>2. CASE t = u /\ Looks(u)
    BY <1>0, <2>2, LooksSeeWhatIs
  <2>3. CASE t = u /\ ~Looks(u)
    BY <1>2, <1>3, <2>3, OnlyLooksSee
  <2>q. QED
    BY <2>1, <2>2, <2>3
<1>4. ASSUME NEW t \in Tasks, GetSoulFails(t) \/ Fail(t) PROVE Quiet
  <2>1. CASE GetSoulFails(t)
    <3>1. task[t] \in Working
      BY <2>1, UnderWay DEF GetSoulFails, At, Steps, TypeInv
    <3>q. QED
      BY <2>1, <3>1 DEF GetSoulFails, GoTo, TypeInv, TypeOK, Working
  <2>2. CASE Fail(t)
    BY <2>2, IdleFacts DEF Fail, End, TypeInv, TypeOK
  <2>q. QED
    BY <1>4, <2>1, <2>2
<1>s. ASSUME NEW v \in Tasks, NEW kind, NEW at, Starts(v, kind, at) PROVE Quiet
  <2>1. Begun(kind, at).saw = Nothing
    BY DEF Begun, Idle
  <2>q. QED
    BY <1>s, <2>1 DEF Starts, TypeInv, TypeOK
<1>c. ASSUME NEW kind \in Kinds, Command(kind) PROVE Quiet
  BY <1>c, <1>s, CommandStarts DEF Tasks
<1>5. ASSUME Habit PROVE Quiet
  BY <1>5, <1>c, HabitIsCommand
<1>6. ASSUME NEW kind \in Kinds \ {"timer"}, Unasked(kind) PROVE Quiet
  BY <1>6, <1>c, UnaskedIsCommand
<1>7. ASSUME Tick PROVE Quiet
  <2>1. Starts("timer", "timer", "owner")
    BY <1>7 DEF Tick, Starts
  <2>q. QED
    BY <1>s, <2>1 DEF Tasks
<1>8. ASSUME IpfsFails \/ IpfsReturns \/ EditPassword \/ GoesOffline \/ Elsewhere
             \/ UNCHANGED vars
      PROVE  Quiet
  BY <1>8 DEF IpfsFails, IpfsReturns, EditPassword, GoesOffline, Elsewhere, vars
<1>9. CASE ~DirIsLost
  <2> HIDE DEF Quiet
  <2>q. QED
    BY <1>2, <1>3, <1>4, <1>5, <1>6, <1>7, <1>8, <1>9 DEF Next
<1>q. QED
  BY <1>1, <1>9

(* A report that says healthy says it of what it saw. *)
LEMMA HealthySaw ==
    ASSUME NEW s, LifecycleState(s) = "healthy", s.dir \in BOOLEAN
    PROVE  s.mine /\ s.anchored /\ s.configured /\ s.pkg # "none"
<1>1. s.dir
  BY DEF LifecycleState
<1>2. s.mine
  BY <1>1 DEF LifecycleState
<1>3. s.ipfs
  BY <1>1, <1>2 DEF LifecycleState
<1>q. QED
  BY <1>1, <1>2, <1>3 DEF LifecycleState, RestoreBlocked

(* Whatever backups, commands, failures and losses come between two reads  *)
(* of the doctor, a soul it calls healthy is registered, backed up and     *)
(* configured for resurrection, and its recovery package is there unless   *)
(* the directory was lost under the doctor.                                *)
THEOREM HealthyTrue == Spec => []HealthyIsTrue
<1>1. Init => SeenInv
  <2> SUFFICES ASSUME Init, NEW t \in Tasks PROVE StillSo(task[t])
    BY DEF SeenInv
  <2>q. QED
    BY IdleFacts DEF Init, StillSo, Nothing
<1>2. TypeInv /\ SeenInv => HealthyIsTrue
  <2> SUFFICES ASSUME TypeInv, SeenInv, NEW t \in Tasks, At(t, "report"),
                      LifecycleState(Saw(t)) = "healthy"
               PROVE  /\ anchored
                      /\ configured
                      /\ owner \in {"me", "other"}
                      /\ dir => (pkg # "none" \/ task[t].lost)
    BY DEF HealthyIsTrue
  <2>1. Saw(t).dir \in BOOLEAN
    BY UnderWay DEF At, Steps, TypeInv, Working, Reports, Saw
  <2>2. Saw(t).mine /\ Saw(t).anchored /\ Saw(t).configured /\ Saw(t).pkg # "none"
    BY <2>1, HealthySaw
  <2>3. StillSo(task[t]) /\ owner \in {"nobody", "me", "other"}
    BY DEF SeenInv, TypeInv, TypeOK
  <2>q. QED
    BY <2>2, <2>3 DEF StillSo, Saw
<1>q. QED
  BY <1>1, <1>2, NextSeen, SpecType, PTL DEF Spec

=============================================================================
