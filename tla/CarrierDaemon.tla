---------------------------- MODULE CarrierDaemon ----------------------------
(***************************************************************************)
(* A carrier node of the soul package: the CarrierManager of one gateway   *)
(* process, the CarrierDaemons it creates one after the other, and the     *)
(* resurrection flows they run against the SoulRegistry contract, the      *)
(* agents' target directories and the operating system's processes.        *)
(*                                                                         *)
(* Daemon g is the g-th one created; 0 stands for null.  A flow is named   *)
(* by its key in activeResurrections: the daemon and the request.  It      *)
(* moves from one await of executeResurrectionFlow to the next, and what   *)
(* runs between two awaits is one action.  An agent process is named by    *)
(* its position in "procs", its pid.                                       *)
(*                                                                         *)
(* The contract is modelled from the calls soul-client.ts makes and from   *)
(* the fields of getResurrectionReadiness().                               *)
(***************************************************************************)
EXTENDS Integers, Sequences, FiniteSets

CONSTANTS
    Requests,        \* resurrection requests that target this carrier
    Agents,          \* agents the requests are for
    AgentOf,         \* AgentOf[r]: the agent of request r
    Pending,         \* config.pendingRequestIds, a sequence of requests
    MaxConcurrent,   \* config.maxConcurrentResurrections
    MaxStarts,       \* bound: daemons ever created
    MaxSpawns,       \* bound: agent processes ever spawned
    CanCrash         \* whether the gateway process may die

ASSUME ConstantsAssumption ==
    /\ IsFiniteSet(Requests)
    /\ AgentOf \in [Requests -> Agents]
    /\ Pending \in Seq(Requests)
    /\ \A i, j \in DOMAIN Pending : Pending[i] = Pending[j] => i = j
    /\ MaxConcurrent \in Nat
    /\ MaxStarts \in Nat
    /\ MaxSpawns \in Nat
    /\ CanCrash \in BOOLEAN

Null == 0
Daemons == 1..MaxStarts

VARIABLES
    \* CarrierManager.daemon, and whether its stop() is awaiting the daemon's
    daemon, stopping,
    \* Daemons created so far; those told to stop by nobody; the flows stop()
    \* waits for; daemons whose stop() gave up after 30 s
    created, running, awaited, timedOut,
    \* Where each flow is ("none": not in activeResurrections), record.agentPid
    flow, pid,
    \* The contract: requests that exist, are confirmed by the carrier,
    \* approved (quorum and timelock), executed; agents that are offline
    exists, confirmed, approved, executed, offline,
    \* Agent processes: procs[i] is the request pid i was spawned for (one
    \* that exits by itself makes no difference to the carrier); pids in the
    \* history of results; and, as history, pids a crash made the carrier
    \* forget and pids stopAgent() was called for
    procs, reported, lost, killed

managerVars == <<daemon, stopping, created, running, timedOut>>
chainVars == <<exists, confirmed, approved, executed, offline>>
osVars == <<procs, lost, killed>>
vars == <<managerVars, awaited, flow, pid, chainVars, osVars, reported>>

FlowPc == {"none", "mkdir", "isOffline", "validate", "confirm", "readiness",
           "sleep", "restore", "health", "complete", "heartbeat"}

TypeOK ==
    /\ daemon \in {Null} \cup Daemons
    /\ stopping \in BOOLEAN
    /\ created \in 0..MaxStarts
    /\ running \in SUBSET Daemons
    /\ awaited \in SUBSET Requests
    /\ timedOut \in SUBSET Daemons
    /\ flow \in [Daemons \X Requests -> FlowPc]
    /\ pid \in [Daemons \X Requests -> 0..MaxSpawns]
    /\ exists \in SUBSET Requests
    /\ confirmed \in SUBSET Requests
    /\ approved \in SUBSET Requests
    /\ executed \in SUBSET Requests
    /\ offline \in SUBSET Agents
    /\ procs \in Seq(Requests)
    /\ reported \in SUBSET (1..MaxSpawns)
    /\ lost \in SUBSET (1..MaxSpawns)
    /\ killed \in SUBSET (1..MaxSpawns)

Init ==
    /\ daemon = Null
    /\ stopping = FALSE
    /\ created = 0
    /\ running = {}
    /\ awaited = {}
    /\ timedOut = {}
    /\ flow = [k \in Daemons \X Requests |-> "none"]
    /\ pid = [k \in Daemons \X Requests |-> Null]
    /\ exists = Requests
    /\ confirmed = {}
    /\ approved = {}
    /\ executed = {}
    /\ offline = Agents
    /\ procs = <<>>
    /\ reported = {}
    /\ lost = {}
    /\ killed = {}

Active(g) == {r \in Requests : flow[<<g, r>>] # "none"}

-----------------------------------------------------------------------------
(* CarrierManager and CarrierDaemon *)

(* The daemon's start() accepts the configured requests in their order and *)
(* rejects those beyond the limit.                                         *)
Accepted == {Pending[i] : i \in {j \in DOMAIN Pending : j <= MaxConcurrent}}

(* start() of the manager: a new daemon, which starts.                     *)
Start ==
    /\ daemon = Null
    /\ created < MaxStarts
    /\ daemon' = created + 1
    /\ created' = created + 1
    /\ running' = running \cup {created + 1}
    /\ flow' = [k \in Daemons \X Requests |->
                  IF k \in {created + 1} \X Accepted THEN "mkdir" ELSE flow[k]]
    /\ UNCHANGED <<stopping, awaited, timedOut, pid, chainVars, osVars,
                   reported>>

(* Mutant: neither the flag nor the limit is looked at. *)
AddRequestUnguarded(r) ==
    /\ daemon # Null
    /\ flow[<<daemon, r>>] = "none"
    /\ flow' = [flow EXCEPT ![<<daemon, r>>] = "mkdir"]
    /\ UNCHANGED <<managerVars, awaited, pid, chainVars, osVars, reported>>

(* addRequest(): when it rejects, nothing changes. *)
AddRequest(r) ==
    /\ daemon # Null
    /\ daemon \in running
    /\ flow[<<daemon, r>>] = "none"
    /\ Cardinality(Active(daemon)) < MaxConcurrent
    /\ flow' = [flow EXCEPT ![<<daemon, r>>] = "mkdir"]
    /\ UNCHANGED <<managerVars, awaited, pid, chainVars, osVars, reported>>

(* Mutant: the manager forgets the daemon before its stop() has returned. *)
StopForgetsFirst ==
    /\ daemon # Null
    /\ ~stopping
    /\ stopping' = TRUE
    /\ daemon' = Null
    /\ awaited' = Active(daemon)
    /\ UNCHANGED <<created, running, timedOut, flow, pid, chainVars, osVars,
                   reported>>

(* stop() is called, once at a time: the gateway_stop hook and the CLI's   *)
(* stop command run in processes of their own.                             *)
Stop ==
    /\ daemon # Null
    /\ ~stopping
    /\ stopping' = TRUE
    /\ running' = running \ {daemon}
    /\ awaited' = Active(daemon)
    /\ UNCHANGED <<daemon, created, timedOut, flow, pid, chainVars, osVars,
                   reported>>

(* The flows have settled, or 30 s have passed. *)
StopReturns ==
    /\ stopping
    /\ stopping' = FALSE
    /\ daemon' = Null
    /\ awaited' = {}
    /\ timedOut' = IF awaited = {} THEN timedOut ELSE timedOut \cup {daemon}
    /\ UNCHANGED <<created, running, flow, pid, chainVars, osVars, reported>>

-----------------------------------------------------------------------------
(* executeResurrectionFlow() *)

Goto(g, r, from, to) ==
    /\ flow[<<g, r>>] = from
    /\ flow' = [flow EXCEPT ![<<g, r>>] = to]

(* Mutant: a flow that never spawned reports a pid too. *)
ReturnAnyPid(g, r) ==
    /\ flow' = [flow EXCEPT ![<<g, r>>] = "none"]
    /\ pid' = [pid EXCEPT ![<<g, r>>] = Null]
    /\ reported' = reported \cup {pid[<<g, r>>]}
    /\ awaited' = IF g = daemon THEN awaited \ {r} ELSE awaited

(* The flow returns: its result, with the pid, goes to the history, and    *)
(* finally() takes it out of activeResurrections.                          *)
Return(g, r) ==
    /\ flow' = [flow EXCEPT ![<<g, r>>] = "none"]
    /\ pid' = [pid EXCEPT ![<<g, r>>] = Null]
    /\ reported' = reported \cup ({pid[<<g, r>>]} \ {Null})
    /\ awaited' = IF g = daemon THEN awaited \ {r} ELSE awaited

(* Mutant of checkShutdown(): never throws. *)
ProceedUnchecked(g, r, to) ==
    /\ flow' = [flow EXCEPT ![<<g, r>>] = to]
    /\ UNCHANGED <<pid, reported, awaited>>

(* checkShutdown(), and the top of the waiting loop: go on unless aborted. *)
Proceed(g, r, to) ==
    \/ /\ g \in running
       /\ flow' = [flow EXCEPT ![<<g, r>>] = to]
       /\ UNCHANGED <<pid, reported, awaited>>
    \/ /\ g \notin running
       /\ Return(g, r)

(* mkdir() of the target directory.  If it rejects there is no record in   *)
(* the history, and the rejection of finally()'s promise is unhandled: the *)
(* process survives (here) or dies (Crash).                                *)
MakeDir(g, r) ==
    \/ /\ Goto(g, r, "mkdir", "isOffline")
       /\ UNCHANGED <<managerVars, awaited, pid, chainVars, osVars, reported>>
    \/ /\ flow[<<g, r>>] = "mkdir"
       /\ Return(g, r)
       /\ UNCHANGED <<managerVars, chainVars, osVars>>

(* The call a flow is awaiting rejects, or answers what makes it give up:  *)
(* any failing RPC call ends the flow, also while it waits for readiness.  *)
CallFails(g, r) ==
    /\ flow[<<g, r>>] \in {"isOffline", "validate", "confirm", "readiness",
                       "restore", "complete"}
    /\ Return(g, r)
    /\ UNCHANGED <<managerVars, chainVars, osVars>>

CheckOffline(g, r) ==
    /\ AgentOf[r] \in offline
    /\ Goto(g, r, "isOffline", "validate")
    /\ UNCHANGED <<managerVars, awaited, pid, chainVars, osVars, reported>>

(* getResurrectionRequest(): not executed; confirmed already or not.       *)
Validate(g, r) ==
    /\ flow[<<g, r>>] = "validate"
    /\ r \in exists \ executed
    /\ IF r \in confirmed
         THEN Proceed(g, r, "readiness")
         ELSE /\ Goto(g, r, "validate", "confirm")
              /\ UNCHANGED <<awaited, pid, reported>>
    /\ UNCHANGED <<managerVars, chainVars, osVars>>

(* confirmCarrier() is mined; its receipt may be lost. *)
Confirm(g, r) ==
    /\ flow[<<g, r>>] = "confirm"
    /\ r \in exists \ executed
    /\ confirmed' = confirmed \cup {r}
    /\ Proceed(g, r, "readiness") \/ Return(g, r)
    /\ UNCHANGED <<managerVars, exists, approved, executed, offline, osVars>>

(* What the contract answers as canComplete, and demands to complete. *)
CanComplete(r) ==
    /\ r \in exists \ executed
    /\ r \in confirmed
    /\ r \in approved
    /\ AgentOf[r] \in offline

(* waitForReadiness(): getResurrectionReadiness() answers. *)
Readiness(g, r) ==
    /\ flow[<<g, r>>] = "readiness"
    /\ \/ r \notin exists /\ Return(g, r)
       \/ CanComplete(r) /\ Proceed(g, r, "restore")
       \/ /\ r \in exists
          /\ ~CanComplete(r)
          /\ Goto(g, r, "readiness", "sleep")
          /\ UNCHANGED <<awaited, pid, reported>>
    /\ UNCHANGED <<managerVars, chainVars, osVars>>

Wake(g, r) ==
    /\ flow[<<g, r>>] = "sleep"
    /\ Proceed(g, r, "readiness")
    /\ UNCHANGED <<managerVars, chainVars, osVars>>

(* Mutant: the waiting loop has no deadline. *)
NeverTimesOut(g, r) ==
    /\ flow[<<g, r>>] = "sleep"
    /\ UNCHANGED vars

(* readinessTimeoutMs has passed. *)
ReadinessTimesOut(g, r) ==
    /\ flow[<<g, r>>] = "sleep"
    /\ Return(g, r)
    /\ UNCHANGED <<managerVars, chainVars, osVars>>

(* autoRestore() has returned, whatever it verified; unless the daemon is  *)
(* stopping, the agent is spawned at once.                                 *)
Restore(g, r) ==
    /\ flow[<<g, r>>] = "restore"
    /\ \/ /\ g \in running
          /\ Len(procs) < MaxSpawns
          /\ procs' = Append(procs, r)
          /\ pid' = [pid EXCEPT ![<<g, r>>] = Len(procs) + 1]
          /\ flow' = [flow EXCEPT ![<<g, r>>] = "health"]
          /\ UNCHANGED <<reported, awaited>>
       \/ /\ g \notin running
          /\ Return(g, r)
          /\ UNCHANGED procs
    /\ UNCHANGED <<managerVars, chainVars, lost, killed>>

(* The health URL answers.  It is the same for every agent, so the answer  *)
(* may come from another process.                                          *)
HealthPasses(g, r) ==
    /\ flow[<<g, r>>] = "health"
    /\ Proceed(g, r, "complete")
    /\ UNCHANGED <<managerVars, chainVars, osVars>>

(* Mutant: the process is not stopped. *)
HealthFailsQuietly(g, r) ==
    /\ flow[<<g, r>>] = "health"
    /\ flow' = [flow EXCEPT ![<<g, r>>] = "none"]
    /\ pid' = [pid EXCEPT ![<<g, r>>] = Null]
    /\ awaited' = IF g = daemon THEN awaited \ {r} ELSE awaited
    /\ UNCHANGED <<managerVars, chainVars, osVars, reported>>

(* It does not answer in time, or the daemon is stopping: stopAgent(). *)
HealthFails(g, r) ==
    /\ flow[<<g, r>>] = "health"
    /\ killed' = killed \cup {pid[<<g, r>>]}
    /\ flow' = [flow EXCEPT ![<<g, r>>] = "none"]
    /\ pid' = [pid EXCEPT ![<<g, r>>] = Null]
    /\ awaited' = IF g = daemon THEN awaited \ {r} ELSE awaited
    /\ UNCHANGED <<managerVars, chainVars, procs, lost, reported>>

(* completeResurrection() is mined; the receipt may be lost, and then the  *)
(* flow reports "failed" for a resurrection that has been executed.        *)
Complete(g, r) ==
    /\ flow[<<g, r>>] = "complete"
    /\ CanComplete(r)
    /\ executed' = executed \cup {r}
    /\ Proceed(g, r, "heartbeat") \/ Return(g, r)
    /\ UNCHANGED <<managerVars, exists, confirmed, approved, offline, osVars>>

(* The first heartbeat, whose failure is ignored. *)
Heartbeat(g, r) ==
    /\ flow[<<g, r>>] = "heartbeat"
    /\ offline' \in {offline, offline \ {AgentOf[r]}}
    /\ Return(g, r)
    /\ UNCHANGED <<managerVars, exists, confirmed, approved, executed, osVars>>

-----------------------------------------------------------------------------
(* The world outside *)

(* Guardians approve and the timelock passes. *)
Approve(r) ==
    /\ r \notin approved
    /\ approved' = approved \cup {r}
    /\ UNCHANGED <<managerVars, awaited, flow, pid, exists, confirmed,
                   executed, offline, osVars, reported>>

(* The owner cancels the request. *)
Cancel(r) ==
    /\ r \in exists \ executed
    /\ exists' = exists \ {r}
    /\ UNCHANGED <<managerVars, awaited, flow, pid, confirmed, approved,
                   executed, offline, osVars, reported>>

(* A heartbeat of the agent itself, or the lack of one. *)
OwnHeartbeat(a) ==
    /\ offline' = IF a \in offline THEN offline \ {a} ELSE offline \cup {a}
    /\ UNCHANGED <<managerVars, awaited, flow, pid, exists, confirmed,
                   approved, executed, osVars, reported>>

(* The gateway dies.  The agents it spawned are detached and stay, and the *)
(* transactions it had sent may still be mined.                            *)
Crash ==
    /\ CanCrash
    /\ daemon' = Null
    /\ stopping' = FALSE
    /\ running' = {}
    /\ awaited' = {}
    /\ flow' = [k \in Daemons \X Requests |-> "none"]
    /\ pid' = [k \in Daemons \X Requests |-> Null]
    /\ lost' = lost \cup ({pid[k] : k \in Daemons \X Requests} \ {Null})
    /\ executed' \in
         {executed \cup s : s \in SUBSET {r \in Requests :
             CanComplete(r) /\ \E g \in Daemons : flow[<<g, r>>] = "complete"}}
    /\ confirmed' \in
         {confirmed \cup s : s \in SUBSET {r \in exists \ executed :
             \E g \in Daemons : flow[<<g, r>>] = "confirm"}}
    /\ UNCHANGED <<created, timedOut, exists, approved, offline, procs, killed,
                   reported>>

-----------------------------------------------------------------------------
FlowStep(g, r) ==
    \/ MakeDir(g, r) \/ CallFails(g, r) \/ CheckOffline(g, r)
    \/ Validate(g, r) \/ Confirm(g, r) \/ Readiness(g, r) \/ Wake(g, r)
    \/ Restore(g, r) \/ HealthPasses(g, r) \/ HealthFails(g, r)
    \/ Complete(g, r) \/ Heartbeat(g, r)

Next ==
    \/ Start \/ Stop \/ StopReturns \/ Crash
    \/ \E r \in Requests : AddRequest(r) \/ Approve(r) \/ Cancel(r)
    \/ \E g \in Daemons, r \in Requests :
          FlowStep(g, r) \/ ReadinessTimesOut(g, r)
    \/ \E a \in Agents : OwnHeartbeat(a)

Spec == Init /\ [][Next]_vars

(***************************************************************************)
(* Calls answer or fail in the end and timers fire, so a flow keeps        *)
(* moving, and one that keeps finding its request not ready meets its      *)
(* deadline after finitely many sleeps.  (With one flow per daemon; of     *)
(* several, only that some flow moves.)  Nothing is assumed of operators,  *)
(* guardians, agents or crashes.                                           *)
(***************************************************************************)
FairSpec ==
    /\ Spec
    /\ \A g \in Daemons :
          /\ WF_vars(\E r \in Requests : FlowStep(g, r))
          /\ SF_vars(\E r \in Requests : ReadinessTimesOut(g, r))

-----------------------------------------------------------------------------
(* Properties *)

Held(i) == \E k \in Daemons \X Requests : pid[k] = i

(* No daemon runs out of the manager's reach: start() while a stop() is    *)
(* still draining does not leave one behind.  (carrier-manager.ts)         *)
DaemonIsManaged == running \subseteq {daemon}

(* When stop() has returned without giving up, nothing of that daemon is   *)
(* under way any more, and nothing can be added to it.                     *)
(* (carrier-daemon.ts, stop and addRequest)                                *)
DrainedIsQuiet ==
    \A g \in 1..created :
        g \in timedOut \cup {daemon} \/ Active(g) = {}

(* Once the shutdown signal is given, no flow starts to download, spawns   *)
(* an agent, sends the completion or the heartbeat, however late the call  *)
(* it was awaiting answers.  (resurrection-flow.ts, checkShutdown)         *)
NothingStartsAfterStop ==
    [][\A g \in Daemons, r \in Requests :
          /\ flow'[<<g, r>>] # flow[<<g, r>>]
          /\ flow'[<<g, r>>] \in {"restore", "health", "complete", "heartbeat"}
          => g \in running]_vars

(* An agent process the carrier has spawned belongs to a flow under way,   *)
(* was stopped, or is named in the history, unless the gateway died        *)
(* meanwhile; and of a resurrection that is executed on chain one process  *)
(* is not stopped, whatever flows overlap and receipts are lost.           *)
(* (resurrection-flow.ts, the health check and the catch)                  *)
ProcessesAccountedFor ==
    /\ \A i \in DOMAIN procs :
        i \in reported \cup lost \cup killed \/ Held(i)
    /\ \A r \in executed : \E i \in DOMAIN procs : procs[i] = r /\ i \notin killed

(* Two flows never restore into the target directory of one agent at the   *)
(* same time, with MaxConcurrent = 1 and unless a stop() gave up waiting.  *)
(* (carrier-daemon.ts, addRequest and _executeRequest)                     *)
OneRestorePerDirectory ==
    timedOut = {} =>
        \A k, l \in Daemons \X Requests :
            /\ flow[k] = "restore" /\ flow[l] = "restore"
            /\ AgentOf[k[2]] = AgentOf[l[2]]
            => k = l

(* Every accepted request is settled in the end. *)
FlowsEnd ==
    \A k \in Daemons \X Requests : flow[k] # "none" ~> flow[k] = "none"

(* "Watches for pending requests targeting this carrier (via config or     *)
(* polling)" (carrier-daemon.ts:6): a configured request is taken up as    *)
(* long as the daemon runs.                                                *)
PendingAreTried ==
    \A i \in DOMAIN Pending, g \in Daemons :
        g \in running ~> g \notin running \/ flow[<<g, Pending[i]>>] # "none"

=============================================================================
