------------------------ MODULE CarrierDaemon_proofs ------------------------
(***************************************************************************)
(* What TLAPS proves of the carrier node, for any number of requests,      *)
(* agents, daemons, agent processes and crashes.                           *)
(***************************************************************************)
EXTENDS CarrierDaemon, FiniteSetTheorems, SequenceTheorems, TLAPS

Keys == Daemons \X Requests
Spawned == {"health", "complete", "heartbeat"}

(* A flow holds a pid from the spawn to its end: that of a process of its  *)
(* request, which nobody else holds and nobody has stopped.                *)
PidInv ==
    /\ \A k \in Keys : pid[k] # Null <=> flow[k] \in Spawned
    /\ \A k \in Keys : pid[k] # Null =>
          /\ pid[k] \in DOMAIN procs
          /\ procs[pid[k]] = k[2]
          /\ pid[k] \notin killed
    /\ \A k, l \in Keys : pid[k] = pid[l] /\ pid[k] # Null => k = l
    /\ killed \subseteq DOMAIN procs
    /\ Len(procs) <= MaxSpawns

(* A daemon that does not exist yet has no flows, and stop() has one to    *)
(* wait for.                                                               *)
FreshInv ==
    /\ daemon <= created
    /\ stopping => daemon # Null
    /\ \A k \in Keys : k[1] > created => flow[k] = "none"

TypeInv == TypeOK /\ PidInv /\ FreshInv

-----------------------------------------------------------------------------
(* What the steps of a flow have in common. *)

FlowChange(g, r) == FlowStep(g, r) \/ ReadinessTimesOut(g, r)

(* A step of a flow is one of a flow under way; it moves that flow alone,  *)
(* and leaves the manager as it is.                                        *)
LEMMA FlowEffect ==
    ASSUME TypeOK, NEW g \in Daemons, NEW r \in Requests, FlowChange(g, r)
    PROVE  /\ flow[<<g, r>>] # "none"
           /\ \E v \in FlowPc : flow' = [flow EXCEPT ![<<g, r>>] = v]
           /\ UNCHANGED managerVars
           /\ awaited' \in SUBSET awaited
           /\ awaited \ {r} \subseteq awaited'
           /\ flow'[<<g, r>>] # "none" \/ g # daemon => awaited' = awaited
<1> USE DEF Return, Proceed, Goto, FlowPc
<1>0. <<g, r>> \in DOMAIN flow
  BY DEF TypeOK
<1>1. CASE MakeDir(g, r)
  BY <1>0, <1>1 DEF MakeDir
<1>2. CASE CallFails(g, r)
  BY <1>0, <1>2 DEF CallFails
<1>3. CASE CheckOffline(g, r)
  BY <1>0, <1>3 DEF CheckOffline
<1>4. CASE Validate(g, r)
  BY <1>0, <1>4 DEF Validate
<1>5. CASE Confirm(g, r)
  BY <1>0, <1>5 DEF Confirm
<1>6. CASE Readiness(g, r)
  BY <1>0, <1>6 DEF Readiness
<1>7. CASE Wake(g, r)
  BY <1>0, <1>7 DEF Wake
<1>8. CASE Restore(g, r)
  BY <1>0, <1>8 DEF Restore
<1>9. CASE HealthPasses(g, r)
  BY <1>0, <1>9 DEF HealthPasses
<1>10. CASE HealthFails(g, r)
  BY <1>0, <1>10 DEF HealthFails
<1>11. CASE Complete(g, r)
  BY <1>0, <1>11 DEF Complete
<1>12. CASE Heartbeat(g, r)
  BY <1>0, <1>12 DEF Heartbeat
<1>13. CASE ReadinessTimesOut(g, r)
  BY <1>0, <1>13 DEF ReadinessTimesOut
<1>q. QED
  BY <1>1, <1>2, <1>3, <1>4, <1>5, <1>6, <1>7, <1>8, <1>9, <1>10, <1>11,
     <1>12, <1>13 DEF FlowChange, FlowStep

-----------------------------------------------------------------------------
(* Types and pids *)

LEMMA InitType == Init => TypeInv
<1> SUFFICES ASSUME Init PROVE TypeInv
  OBVIOUS
<1>1. procs \in Seq(Requests) /\ Len(procs) = 0 /\ DOMAIN procs = {}
  BY DEF Init
<1>2. TypeOK
  <2>1. /\ flow \in [Daemons \X Requests -> FlowPc]
        /\ pid \in [Daemons \X Requests -> 0..MaxSpawns]
    BY ConstantsAssumption DEF Init, FlowPc, Null
  <2>2. created \in 0..MaxStarts
    BY ConstantsAssumption DEF Init
  <2>3. /\ {running, timedOut} \subseteq SUBSET Daemons
        /\ {exists, awaited, confirmed, approved, executed} \subseteq SUBSET Requests
        /\ offline \in SUBSET Agents
        /\ {reported, lost, killed} \subseteq SUBSET (1..MaxSpawns)
    BY DEF Init
  <2>q. QED
    BY <1>1, <2>1, <2>2, <2>3 DEF Init, TypeOK
<1>3. PidInv
  BY <1>1, ConstantsAssumption DEF Init, PidInv, Keys, Spawned, Null
<1>4. FreshInv
  BY DEF Init, FreshInv, Keys, Null
<1>q. QED
  BY <1>2, <1>3, <1>4 DEF TypeInv

(* A flow ends without having been told to stop its agent. *)
LEMMA ReturnType ==
    ASSUME TypeInv, NEW g \in Daemons, NEW r \in Requests, Return(g, r),
           UNCHANGED <<procs, killed>>
    PROVE  /\ flow' \in [Keys -> FlowPc]
           /\ pid' \in [Keys -> 0..MaxSpawns]
           /\ reported' \in SUBSET (1..MaxSpawns)
           /\ awaited' \in SUBSET Requests
           /\ PidInv'
<1>1. <<g, r>> \in Keys
  BY DEF Keys
<1>2. /\ flow' \in [Keys -> FlowPc]
      /\ pid' \in [Keys -> 0..MaxSpawns]
      /\ awaited' \in SUBSET Requests
  BY <1>1, ConstantsAssumption DEF Return, TypeInv, TypeOK, Keys, FlowPc, Null
<1>3. reported' \in SUBSET (1..MaxSpawns)
  <2>1. pid[<<g, r>>] \in 0..MaxSpawns
    BY <1>1 DEF TypeInv, TypeOK, Keys
  <2>2. {pid[<<g, r>>]} \ {Null} \subseteq 1..MaxSpawns
    BY <2>1, ConstantsAssumption DEF Null
  <2>q. QED
    BY <2>2 DEF Return, TypeInv, TypeOK
<1>4. PidInv'
  BY <1>1, <1>2 DEF Return, TypeInv, TypeOK, PidInv, Keys, Spawned, Null
<1>q. QED
  BY <1>2, <1>3, <1>4

(* A flow goes on, from a step with a pid to one with, or without to       *)
(* without.                                                                *)
LEMMA MoveType ==
    ASSUME TypeInv, NEW g \in Daemons, NEW r \in Requests, NEW v \in FlowPc,
           flow' = [flow EXCEPT ![<<g, r>>] = v],
           v \in Spawned <=> flow[<<g, r>>] \in Spawned,
           UNCHANGED <<pid, procs, killed>>
    PROVE  flow' \in [Keys -> FlowPc] /\ PidInv'
<1>1. <<g, r>> \in Keys
  BY DEF Keys
<1>2. flow' \in [Keys -> FlowPc]
  BY <1>1 DEF TypeInv, TypeOK, Keys
<1>q. QED
  BY <1>1, <1>2 DEF TypeInv, TypeOK, PidInv, Keys, Spawned

(* What a step of a flow must show besides what all of them have in common.*)
LEMMA FlowType ==
    ASSUME TypeInv, NEW g \in Daemons, NEW r \in Requests, FlowChange(g, r),
           PidInv',
           pid' \in [Keys -> 0..MaxSpawns],
           reported' \in SUBSET (1..MaxSpawns),
           {exists', confirmed', executed'} \subseteq SUBSET Requests,
           UNCHANGED <<approved, lost>>,
           offline' \in SUBSET Agents,
           procs' \in Seq(Requests),
           killed' \in SUBSET (1..MaxSpawns)
    PROVE  TypeInv'
<1>1. TypeOK
  BY DEF TypeInv
<1>2. PICK v \in FlowPc : flow' = [flow EXCEPT ![<<g, r>>] = v]
  BY <1>1, FlowEffect
<1>3. <<g, r>> \in Keys /\ flow[<<g, r>>] # "none"
  BY <1>1, FlowEffect DEF Keys
<1>4. UNCHANGED managerVars /\ awaited' \in SUBSET awaited
  BY <1>1, FlowEffect
<1>5. flow' \in [Keys -> FlowPc]
  BY <1>2, <1>3 DEF TypeInv, TypeOK, Keys
<1>6. TypeOK'
  BY <1>1, <1>4, <1>5 DEF TypeOK, managerVars, Daemons, Keys
<1>7. FreshInv'
  BY <1>2, <1>3, <1>4 DEF TypeInv, FreshInv, TypeOK, managerVars, Keys
<1>q. QED
  BY <1>6, <1>7 DEF TypeInv

LEMMA FlowChangeType ==
    ASSUME TypeInv, NEW g \in Daemons, NEW r \in Requests, FlowChange(g, r)
    PROVE  TypeInv'
<1> DEFINE k == <<g, r>>
<1>0. k \in Keys /\ k \in DOMAIN flow
  BY DEF Keys, TypeInv, TypeOK
<1>a. SUFFICES
        /\ PidInv'
        /\ pid' \in [Keys -> 0..MaxSpawns]
        /\ reported' \in SUBSET (1..MaxSpawns)
        /\ {exists', confirmed', executed'} \subseteq SUBSET Requests
        /\ UNCHANGED <<approved, lost>>
        /\ offline' \in SUBSET Agents
        /\ procs' \in Seq(Requests)
        /\ killed' \in SUBSET (1..MaxSpawns)
  BY FlowType
<1>b. ASSUME Return(g, r), UNCHANGED <<procs, killed>>
      PROVE  PidInv' /\ pid' \in [Keys -> 0..MaxSpawns]
             /\ reported' \in SUBSET (1..MaxSpawns)
  BY <1>b, ReturnType
<1>c. ASSUME NEW v \in FlowPc, flow' = [flow EXCEPT ![k] = v],
             v \in Spawned <=> flow[k] \in Spawned,
             UNCHANGED <<pid, reported, procs, killed>>
      PROVE  PidInv' /\ pid' \in [Keys -> 0..MaxSpawns]
             /\ reported' \in SUBSET (1..MaxSpawns)
  BY <1>c, MoveType DEF TypeInv, TypeOK, Keys
<1> USE DEF TypeInv, TypeOK, chainVars, osVars, FlowPc, Goto, Proceed
<1>1. CASE MakeDir(g, r)
  BY <1>0, <1>1, <1>b, <1>c DEF MakeDir, Spawned
<1>2. CASE CallFails(g, r)
  BY <1>0, <1>2, <1>b DEF CallFails
<1>3. CASE CheckOffline(g, r)
  BY <1>0, <1>3, <1>c DEF CheckOffline, Spawned
<1>4. CASE Validate(g, r)
  BY <1>0, <1>4, <1>b, <1>c DEF Validate, Spawned
<1>5. CASE Confirm(g, r)
  BY <1>0, <1>5, <1>b, <1>c DEF Confirm, Spawned
<1>6. CASE Readiness(g, r)
  BY <1>0, <1>6, <1>b, <1>c DEF Readiness, Spawned
<1>7. CASE Wake(g, r)
  BY <1>0, <1>7, <1>b, <1>c DEF Wake, Spawned
<1>8. CASE Restore(g, r)
  <2>1. CASE Return(g, r) /\ procs' = procs
    BY <1>8, <2>1, <1>b DEF Restore
  <2>2. CASE /\ Len(procs) < MaxSpawns
             /\ procs' = Append(procs, r)
             /\ pid' = [pid EXCEPT ![k] = Len(procs) + 1]
             /\ flow' = [flow EXCEPT ![k] = "health"]
             /\ UNCHANGED <<reported, awaited>>
    <3> DEFINE n == Len(procs)
    <3>1. /\ n \in Nat /\ DOMAIN procs = 1..n
          /\ procs' \in Seq(Requests)
          /\ Len(procs') = n + 1 /\ DOMAIN procs' = 1..(n + 1)
          /\ \A i \in 1..n : procs'[i] = procs[i]
          /\ procs'[n + 1] = r
      BY <2>2, AppendProperties, LenProperties
    <3>2. n + 1 \in 1..MaxSpawns /\ n + 1 # Null
      BY <2>2, <3>1, ConstantsAssumption DEF Null
    <3>3. pid' \in [Keys -> 0..MaxSpawns]
      BY <1>0, <2>2, <3>2 DEF Keys
    <3>4. \A l \in Keys : pid'[l] = IF l = k THEN n + 1 ELSE pid[l]
      BY <1>0, <2>2 DEF Keys
    <3>5. \A l \in Keys : flow'[l] = IF l = k THEN "health" ELSE flow[l]
      BY <1>0, <2>2 DEF Keys
    <3>6. killed' = killed
      BY <1>8 DEF Restore
    <3>7. (\A l \in Keys : pid[l] # Null <=> flow[l] \in Spawned)'
      BY <3>2, <3>4, <3>5 DEF PidInv, Spawned
    <3>8. (\A l \in Keys : pid[l] # Null =>
            pid[l] \in DOMAIN procs /\ procs[pid[l]] = l[2] /\ pid[l] \notin killed)'
      BY <3>1, <3>2, <3>4, <3>6 DEF PidInv
    <3>9. (\A l, m \in Keys : pid[l] = pid[m] /\ pid[l] # Null => l = m)'
      <4>1. \A l \in Keys : pid[l] # Null => pid[l] # n + 1
        BY <3>1 DEF PidInv
      <4>q. QED
        BY <3>4, <4>1 DEF PidInv
    <3>10. (killed \subseteq DOMAIN procs /\ Len(procs) <= MaxSpawns)'
      BY <3>1, <3>2, <3>6 DEF PidInv
    <3>11. PidInv'
      BY <3>7, <3>8, <3>9, <3>10 DEF PidInv
    <3>q. QED
      BY <1>8, <2>2, <3>1, <3>3, <3>11 DEF Restore
  <2>q. QED
    BY <1>8, <2>1, <2>2 DEF Restore
<1>9. CASE HealthPasses(g, r)
  BY <1>0, <1>9, <1>b, <1>c DEF HealthPasses, Spawned
<1>10. CASE HealthFails(g, r)
  <2>1. flow[k] = "health" /\ pid[k] # Null
    BY <1>0, <1>10 DEF HealthFails, PidInv, Spawned
  <2>2. pid[k] \in DOMAIN procs /\ pid[k] \in 1..MaxSpawns
    BY <1>0, <2>1, ConstantsAssumption DEF PidInv, Null, Keys
  <2>3. pid' \in [Keys -> 0..MaxSpawns]
    BY <1>10, ConstantsAssumption DEF HealthFails, Null, Keys
  <2>4. \A l \in Keys : pid'[l] = IF l = k THEN Null ELSE pid[l]
    BY <1>0, <1>10 DEF HealthFails, Keys
  <2>5. \A l \in Keys : flow'[l] = IF l = k THEN "none" ELSE flow[l]
    BY <1>0, <1>10 DEF HealthFails, Keys
  <2>6. procs' = procs /\ killed' = killed \cup {pid[k]}
    BY <1>10 DEF HealthFails
  <2>7. PidInv'
    BY <1>0, <2>1, <2>2, <2>4, <2>5, <2>6 DEF PidInv, Spawned
  <2>q. QED
    BY <1>10, <2>2, <2>3, <2>6, <2>7 DEF HealthFails
<1>11. CASE Complete(g, r)
  BY <1>0, <1>11, <1>b, <1>c DEF Complete, Spawned
<1>12. CASE Heartbeat(g, r)
  BY <1>0, <1>12, <1>b DEF Heartbeat
<1>13. CASE ReadinessTimesOut(g, r)
  BY <1>0, <1>13, <1>b DEF ReadinessTimesOut
<1>q. QED
  BY <1>1, <1>2, <1>3, <1>4, <1>5, <1>6, <1>7, <1>8, <1>9, <1>10, <1>11,
     <1>12, <1>13 DEF FlowChange, FlowStep

(* Every variable keeps its type, and every pid its owner. *)
LEMMA NextType == TypeInv /\ [Next]_vars => TypeInv'
<1> SUFFICES ASSUME TypeInv, [Next]_vars PROVE TypeInv'
  OBVIOUS
<1> USE DEF TypeInv, TypeOK
<1>1. CASE UNCHANGED vars
  BY <1>1 DEF vars, managerVars, chainVars, osVars, PidInv, FreshInv
<1>2. CASE Start
  <2>1. created + 1 \in Daemons /\ created + 1 \in 0..MaxStarts
    BY <1>2, ConstantsAssumption DEF Start, Daemons
  <2>2. Accepted \subseteq Requests
    BY ConstantsAssumption DEF Accepted
  <2>3. flow' \in [Keys -> FlowPc]
    BY <1>2 DEF Start, FlowPc, Keys
  <2>4. TypeOK'
    BY <1>2, <2>1, <2>3 DEF Start, chainVars, osVars, Keys
  <2>5. \A k \in Keys : \/ flow'[k] = flow[k]
                        \/ flow[k] = "none" /\ flow'[k] = "mkdir" /\ k[1] = created + 1
    BY <1>2, <2>1, <2>3 DEF Start, FreshInv, Keys, Daemons
  <2>6. PidInv'
    BY <1>2, <2>5 DEF Start, PidInv, Spawned, osVars
  <2>7. FreshInv'
    BY <1>2, <2>1, <2>5 DEF Start, FreshInv, Keys, Daemons
  <2>q. QED
    BY <2>4, <2>6, <2>7
<1>3. CASE Stop
  <2>1. TypeOK'
    BY <1>3 DEF Stop, chainVars, osVars, Active
  <2>q. QED
    BY <1>3, <2>1 DEF Stop, PidInv, FreshInv, osVars
<1>4. CASE StopReturns
  <2>1. daemon \in Daemons
    BY <1>4 DEF StopReturns, FreshInv
  <2>2. TypeOK'
    BY <1>4, <2>1 DEF StopReturns, chainVars, osVars
  <2>q. QED
    BY <1>4, <2>2 DEF StopReturns, PidInv, FreshInv, osVars, Null
<1>5. CASE Crash
  <2>1. /\ flow' = [k \in Keys |-> "none"]
        /\ pid' = [k \in Keys |-> Null]
    BY <1>5 DEF Crash, Keys
  <2>2. lost' \in SUBSET (1..MaxSpawns)
    <3>1. {pid[k] : k \in Daemons \X Requests} \subseteq 0..MaxSpawns
      OBVIOUS
    <3>2. (0..MaxSpawns) \ {Null} \subseteq 1..MaxSpawns
      BY ConstantsAssumption DEF Null
    <3>q. QED
      BY <1>5, <3>1, <3>2 DEF Crash
  <2>3. executed' \in SUBSET Requests /\ confirmed' \in SUBSET Requests
    BY <1>5 DEF Crash
  <2>4. TypeOK'
    <3>1. flow' \in [Keys -> FlowPc] /\ pid' \in [Keys -> 0..MaxSpawns]
      BY <2>1, ConstantsAssumption DEF FlowPc, Null
    <3>q. QED
      BY <1>5, <2>2, <2>3, <3>1 DEF Crash, Keys
  <2>q. QED
    BY <1>5, <2>1, <2>4 DEF Crash, PidInv, FreshInv, Spawned, Null, Keys
<1>6. ASSUME NEW r \in Requests, AddRequest(r) PROVE TypeInv'
  <2>1. daemon \in Daemons /\ <<daemon, r>> \in Keys
    BY <1>6 DEF AddRequest, Null, Keys
  <2>2. flow' \in [Keys -> FlowPc]
    BY <1>6 DEF AddRequest, FlowPc, Keys
  <2>3. \A k \in Keys : flow'[k] = IF k = <<daemon, r>> THEN "mkdir" ELSE flow[k]
    BY <1>6, <2>1 DEF AddRequest, Keys
  <2>4. TypeOK'
    BY <1>6, <2>2 DEF AddRequest, managerVars, chainVars, osVars, Keys
  <2>5. PidInv'
    BY <1>6, <2>3 DEF AddRequest, PidInv, Spawned, osVars
  <2>6. FreshInv'
    BY <1>6, <2>3 DEF AddRequest, FreshInv, managerVars, Daemons
  <2>q. QED
    BY <2>4, <2>5, <2>6
<1>7. ASSUME NEW r \in Requests, Approve(r) \/ Cancel(r) PROVE TypeInv'
  BY <1>7 DEF Approve, Cancel, PidInv, FreshInv, managerVars, osVars
<1>8. ASSUME NEW a \in Agents, OwnHeartbeat(a) PROVE TypeInv'
  BY <1>8 DEF OwnHeartbeat, PidInv, FreshInv, managerVars, osVars
<1>9. ASSUME NEW g \in Daemons, NEW r \in Requests, FlowChange(g, r)
      PROVE  TypeInv'
  BY <1>9, FlowChangeType
<1>q. QED
  BY <1>1, <1>2, <1>3, <1>4, <1>5, <1>6, <1>7, <1>8, <1>9
  DEF Next, FlowChange

(* The carrier's variables keep their types; in particular stop() always   *)
(* has a daemon to wait for, and pids are those of spawned processes.      *)
THEOREM TypeCorrect == Spec => []TypeOK
<1>1. Spec => []TypeInv
  BY InitType, NextType, PTL DEF Spec
<1>2. TypeInv => TypeOK
  BY DEF TypeInv
<1>q. QED
  BY <1>1, <1>2, PTL

-----------------------------------------------------------------------------
(* Stopping *)

(* While stop() waits, the daemon runs no more, and what it waits for is   *)
(* all that is under way.                                                  *)
StopInv ==
    stopping =>
        /\ running = {}
        /\ Active(daemon) \subseteq awaited

ManagerInv == DaemonIsManaged /\ DrainedIsQuiet /\ StopInv

(* A step of a flow never makes a daemon busier, and what it takes off the *)
(* list of the awaited is over.                                            *)
LEMMA FlowDrains ==
    ASSUME TypeOK, NEW g \in Daemons, NEW r \in Requests, FlowChange(g, r)
    PROVE  /\ \A h \in Daemons : Active(h)' \subseteq Active(h)
           /\ daemon \in Daemons /\ Active(daemon) \subseteq awaited
                 => Active(daemon)' \subseteq awaited'
<1>1. /\ flow[<<g, r>>] # "none"
      /\ awaited \ {r} \subseteq awaited'
      /\ flow'[<<g, r>>] # "none" \/ g # daemon => awaited' = awaited
      /\ daemon' = daemon
  BY FlowEffect DEF managerVars
<1>2. PICK v \in FlowPc : flow' = [flow EXCEPT ![<<g, r>>] = v]
  BY FlowEffect
<1>3. \A k \in Keys : k # <<g, r>> => flow'[k] = flow[k]
  BY <1>2 DEF TypeOK, Keys
<1>4. \A h \in Daemons : Active(h)' \subseteq Active(h)
  BY <1>1, <1>3 DEF Active, Keys
<1>5. ASSUME daemon \in Daemons, Active(daemon) \subseteq awaited,
             NEW s \in Requests, flow'[<<daemon, s>>] # "none"
      PROVE  s \in awaited'
  <2>1. s \in awaited
    BY <1>1, <1>3, <1>5 DEF Active, Keys
  <2>2. CASE g = daemon /\ s = r
    BY <1>1, <1>5, <2>1, <2>2
  <2>3. CASE g # daemon \/ s # r
    BY <1>1, <2>1, <2>3
  <2>q. QED
    BY <2>2, <2>3
<1>6. daemon \in Daemons /\ Active(daemon) \subseteq awaited
        => Active(daemon)' \subseteq awaited'
  BY <1>1, <1>5 DEF Active
<1>q. QED
  BY <1>4, <1>6

LEMMA InitManager == Init => ManagerInv
  BY DEF Init, ManagerInv, DaemonIsManaged, DrainedIsQuiet, StopInv

LEMMA NextManager ==
    TypeInv /\ ManagerInv /\ [Next]_vars => ManagerInv'
<1> SUFFICES ASSUME TypeInv, ManagerInv, [Next]_vars PROVE ManagerInv'
  OBVIOUS
<1>0. /\ TypeOK
      /\ daemon \in {Null} \cup Daemons
      /\ stopping => daemon \in Daemons
      /\ Null \notin Daemons /\ 1..created \subseteq Daemons
      /\ running \subseteq Daemons
  BY ConstantsAssumption DEF TypeInv, TypeOK, FreshInv, Null, Daemons
<1> USE DEF ManagerInv, DaemonIsManaged, DrainedIsQuiet, StopInv
<1>1. CASE UNCHANGED vars
  BY <1>1 DEF vars, managerVars, Active
<1>2. CASE Start
  <2>1. running = {} /\ ~stopping
    BY <1>0, <1>2 DEF Start
  <2>2. \A g \in 1..created : Active(g)' = Active(g)
    BY <1>0, <1>2 DEF Start, Active, TypeOK
  <2>3. 1..created' = 1..created \cup {daemon'}
    BY <1>0, <1>2 DEF Start, TypeOK
  <2>4. DrainedIsQuiet'
    BY <1>0, <1>2, <2>2, <2>3 DEF Start
  <2>q. QED
    BY <1>2, <2>1, <2>4 DEF Start
<1>3. CASE Stop
  <2>1. running' = {} /\ daemon' = daemon
    BY <1>3 DEF Stop
  <2>q. QED
    BY <1>3, <2>1 DEF Stop, Active
<1>4. CASE StopReturns
  <2>1. running' = {}
    BY <1>4 DEF StopReturns
  <2>2. ASSUME NEW g \in 1..created, g \notin timedOut'
        PROVE  Active(g)' = {}
    <3>1. CASE g = daemon
      BY <1>4, <2>2, <3>1 DEF StopReturns, Active
    <3>2. CASE g # daemon
      BY <1>4, <2>2, <3>2 DEF StopReturns, Active
    <3>q. QED
      BY <3>1, <3>2
  <2>q. QED
    BY <1>4, <2>1, <2>2 DEF StopReturns
<1>5. CASE Crash
  <2>1. \A g \in Daemons : Active(g)' = {}
    BY <1>5 DEF Crash, Active
  <2>q. QED
    BY <1>0, <1>5, <2>1 DEF Crash
<1>6. ASSUME NEW r \in Requests, AddRequest(r) PROVE ManagerInv'
  <2>1. \A g \in Daemons : g # daemon => Active(g)' = Active(g)
    BY <1>6 DEF AddRequest, Active, TypeInv, TypeOK
  <2>2. ~stopping
    BY <1>6 DEF AddRequest
  <2>q. QED
    BY <1>0, <1>6, <2>1, <2>2 DEF AddRequest, managerVars
<1>7. ASSUME NEW r \in Requests, Approve(r) \/ Cancel(r) PROVE ManagerInv'
  BY <1>7 DEF Approve, Cancel, managerVars, Active
<1>8. ASSUME NEW a \in Agents, OwnHeartbeat(a) PROVE ManagerInv'
  BY <1>8 DEF OwnHeartbeat, managerVars, Active
<1>9. ASSUME NEW g \in Daemons, NEW r \in Requests, FlowChange(g, r)
      PROVE  ManagerInv'
  <2>1. UNCHANGED managerVars
    BY <1>0, <1>9, FlowEffect
  <2>2. /\ \A h \in Daemons : Active(h)' \subseteq Active(h)
        /\ daemon \in Daemons /\ Active(daemon) \subseteq awaited
              => Active(daemon)' \subseteq awaited'
    BY <1>0, <1>9, FlowDrains
  <2>q. QED
    BY <1>0, <2>1, <2>2 DEF managerVars
<1>q. QED
  BY <1>1, <1>2, <1>3, <1>4, <1>5, <1>6, <1>7, <1>8, <1>9
  DEF Next, FlowChange

LEMMA Invariant == Spec => [](TypeInv /\ ManagerInv)
  BY InitType, NextType, InitManager, NextManager, PTL DEF Spec

(* However start(), stop(), timeouts and crashes follow one another, only  *)
(* the daemon the manager knows can be running.                            *)
THEOREM OnlyManagedDaemonRuns == Spec => []DaemonIsManaged
<1>1. ManagerInv => DaemonIsManaged
  BY DEF ManagerInv
<1>q. QED
  BY <1>1, Invariant, PTL

(* When stop() has returned in time, no flow of that daemon is left, and   *)
(* none comes after.                                                       *)
THEOREM StopDrains == Spec => []DrainedIsQuiet
<1>1. ManagerInv => DrainedIsQuiet
  BY DEF ManagerInv
<1>q. QED
  BY <1>1, Invariant, PTL

(* However late a call answers that a flow was awaiting when the daemon    *)
(* was told to stop: it starts no restore, spawn, completion or heartbeat. *)
THEOREM NoStepAfterStop == Spec => NothingStartsAfterStop
<1> DEFINE Late == {"restore", "health", "complete", "heartbeat"}
<1>1. ASSUME TypeInv, [Next]_vars, NEW g \in Daemons, NEW r \in Requests,
             flow'[<<g, r>>] # flow[<<g, r>>],
             flow'[<<g, r>>] \in Late
      PROVE  g \in running
  <2>0. <<g, r>> \in Keys /\ flow \in [Keys -> FlowPc]
    BY <1>1 DEF TypeInv, TypeOK, Keys
  <2>1. CASE UNCHANGED vars
    BY <1>1, <2>1 DEF vars
  <2>2. CASE Start \/ Crash
    BY <1>1, <2>0, <2>2 DEF Start, Crash, Keys
  <2>3. CASE Stop \/ StopReturns
    BY <1>1, <2>3 DEF Stop, StopReturns
  <2>4. ASSUME NEW q \in Requests, AddRequest(q) \/ Approve(q) \/ Cancel(q)
        PROVE  g \in running
    BY <1>1, <2>0, <2>4 DEF AddRequest, Approve, Cancel
  <2>5. ASSUME NEW a \in Agents, OwnHeartbeat(a) PROVE g \in running
    BY <1>1, <2>5 DEF OwnHeartbeat
  <2>6. ASSUME NEW h \in Daemons, NEW q \in Requests, FlowChange(h, q)
        PROVE  g \in running
    <3> USE DEF Return, Proceed, Goto
    <3>1. <<h, q>> = <<g, r>>
      BY <1>1, <2>0, <2>6, FlowEffect DEF TypeInv, Keys
    <3>2. CASE MakeDir(g, r) \/ CallFails(g, r) \/ CheckOffline(g, r)
      BY <1>1, <2>0, <3>2 DEF MakeDir, CallFails, CheckOffline
    <3>3. CASE Validate(g, r) \/ Confirm(g, r)
      BY <1>1, <2>0, <3>3 DEF Validate, Confirm
    <3>4. CASE Readiness(g, r) \/ Wake(g, r) \/ ReadinessTimesOut(g, r)
      BY <1>1, <2>0, <3>4 DEF Readiness, Wake, ReadinessTimesOut
    <3>5. CASE Restore(g, r) \/ HealthPasses(g, r) \/ HealthFails(g, r)
      BY <1>1, <2>0, <3>5 DEF Restore, HealthPasses, HealthFails
    <3>6. CASE Complete(g, r) \/ Heartbeat(g, r)
      BY <1>1, <2>0, <3>6 DEF Complete, Heartbeat
    <3>q. QED
      BY <2>6, <3>1, <3>2, <3>3, <3>4, <3>5, <3>6 DEF FlowChange, FlowStep
  <2>q. QED
    BY <1>1, <2>1, <2>2, <2>3, <2>4, <2>5, <2>6 DEF Next, FlowChange
<1>2. TypeInv /\ [Next]_vars =>
        [\A g \in Daemons, r \in Requests :
            /\ flow'[<<g, r>>] # flow[<<g, r>>]
            /\ flow'[<<g, r>>] \in Late
            => g \in running]_vars
  BY <1>1
<1>q. QED
  BY <1>2, Invariant, PTL DEF Spec, NothingStartsAfterStop

-----------------------------------------------------------------------------
(* Processes *)

(* Of an executed resurrection one process was not stopped, and is not     *)
(* about to be: its flow has passed the health check.                      *)
ExecutedInv ==
    \A r \in executed : \E i \in DOMAIN procs :
        /\ procs[i] = r
        /\ i \notin killed
        /\ \A k \in Keys : pid[k] = i => flow[k] # "health"

ProcessInv == ProcessesAccountedFor /\ ExecutedInv

(* A request is only new among the executed when its flow has just had the *)
(* completion mined.                                                       *)
ExecutedBy(k) ==
    \A q \in executed' : q \in executed \/ (q = k[2] /\ flow[k] = "complete")

LEMMA ReturnAccounts ==
    ASSUME TypeInv, ProcessInv, NEW g \in Daemons, NEW r \in Requests,
           Return(g, r), UNCHANGED <<procs, lost, killed>>,
           ExecutedBy(<<g, r>>)
    PROVE  ProcessInv'
<1> DEFINE k == <<g, r>>
<1>0. k \in Keys
  BY DEF Keys
<1>1. \A l \in Keys : pid'[l] = IF l = k THEN Null ELSE pid[l]
  BY <1>0 DEF Return, TypeInv, TypeOK, Keys
<1>2. \A l \in Keys : flow'[l] = IF l = k THEN "none" ELSE flow[l]
  BY <1>0 DEF Return, TypeInv, TypeOK, Keys
<1>3. \A i \in DOMAIN procs : i # Null
  BY LenProperties DEF TypeInv, TypeOK, Null
<1>4. ASSUME NEW i \in DOMAIN procs
      PROVE  i \in reported' \cup lost \cup killed \/ Held(i)'
  <2>1. CASE pid[k] = i
    BY <1>3, <2>1 DEF Return
  <2>2. CASE pid[k] # i
    BY <1>1, <2>2 DEF Return, ProcessInv, ProcessesAccountedFor, Held, Keys
  <2>q. QED
    BY <2>1, <2>2
<1>5. ASSUME NEW q \in executed'
      PROVE  \E i \in DOMAIN procs :
                /\ procs[i] = q
                /\ i \notin killed
                /\ \A l \in Keys : pid'[l] = i => flow'[l] # "health"
  <2>1. CASE q \in executed
    BY <1>1, <1>2, <2>1, <1>3 DEF ProcessInv, ExecutedInv
  <2>2. CASE q = r /\ flow[k] = "complete"
    <3>1. /\ pid[k] # Null /\ pid[k] \in DOMAIN procs
          /\ procs[pid[k]] = r /\ pid[k] \notin killed
      BY <1>0, <2>2 DEF TypeInv, PidInv, Spawned
    <3>2. \A l \in Keys : pid'[l] # pid[k]
      BY <1>0, <1>1, <3>1 DEF TypeInv, PidInv
    <3>q. QED
      BY <2>2, <3>1, <3>2
  <2>q. QED
    BY <2>1, <2>2 DEF ExecutedBy
<1>6. ProcessesAccountedFor'
  BY <1>4, <1>5 DEF ProcessesAccountedFor
<1>7. ExecutedInv'
  BY <1>5 DEF ExecutedInv
<1>q. QED
  BY <1>6, <1>7 DEF ProcessInv

LEMMA MoveAccounts ==
    ASSUME TypeInv, ProcessInv, NEW g \in Daemons, NEW r \in Requests,
           NEW v \in FlowPc, v # "health",
           flow' = [flow EXCEPT ![<<g, r>>] = v],
           UNCHANGED <<pid, procs, lost, killed, reported>>,
           ExecutedBy(<<g, r>>)
    PROVE  ProcessInv'
<1> DEFINE k == <<g, r>>
<1>0. k \in Keys
  BY DEF Keys
<1>1. \A l \in Keys : flow'[l] = IF l = k THEN v ELSE flow[l]
  BY <1>0 DEF TypeInv, TypeOK, Keys
<1>2. ASSUME NEW q \in executed'
      PROVE  \E i \in DOMAIN procs :
                /\ procs[i] = q
                /\ i \notin killed
                /\ \A l \in Keys : pid[l] = i => flow'[l] # "health"
  <2>1. CASE q \in executed
    BY <1>1, <2>1 DEF ProcessInv, ExecutedInv
  <2>2. CASE q = r /\ flow[k] = "complete"
    <3>1. /\ pid[k] # Null /\ pid[k] \in DOMAIN procs
          /\ procs[pid[k]] = r /\ pid[k] \notin killed
      BY <1>0, <2>2 DEF TypeInv, PidInv, Spawned
    <3>2. \A l \in Keys : pid[l] = pid[k] => flow'[l] # "health"
      BY <1>0, <1>1, <3>1 DEF TypeInv, PidInv
    <3>q. QED
      BY <2>2, <3>1, <3>2
  <2>q. QED
    BY <2>1, <2>2 DEF ExecutedBy
<1>3. ProcessesAccountedFor'
  BY <1>2 DEF ProcessInv, ProcessesAccountedFor, Held
<1>4. ExecutedInv'
  BY <1>2 DEF ExecutedInv
<1>q. QED
  BY <1>3, <1>4 DEF ProcessInv

LEMMA FlowAccounts ==
    ASSUME TypeInv, ProcessInv, NEW g \in Daemons, NEW r \in Requests,
           FlowChange(g, r)
    PROVE  ProcessInv'
<1> DEFINE k == <<g, r>>
<1>0. k \in Keys /\ k \in DOMAIN flow
  BY DEF Keys, TypeInv, TypeOK
<1>a. ASSUME Return(g, r), UNCHANGED <<procs, lost, killed>>, ExecutedBy(k)
      PROVE  ProcessInv'
  BY <1>a, ReturnAccounts
<1>b. ASSUME NEW v \in FlowPc, flow' = [flow EXCEPT ![k] = v], v # "health",
             UNCHANGED <<pid, procs, lost, killed, reported>>, ExecutedBy(k)
      PROVE  ProcessInv'
  BY <1>b, MoveAccounts
<1> USE DEF chainVars, osVars, FlowPc, Goto, Proceed, ExecutedBy
<1>1. CASE MakeDir(g, r)
  BY <1>1, <1>a, <1>b DEF MakeDir
<1>2. CASE CallFails(g, r)
  BY <1>2, <1>a DEF CallFails
<1>3. CASE CheckOffline(g, r)
  BY <1>3, <1>b DEF CheckOffline
<1>4. CASE Validate(g, r)
  BY <1>4, <1>a, <1>b DEF Validate
<1>5. CASE Confirm(g, r)
  BY <1>5, <1>a, <1>b DEF Confirm
<1>6. CASE Readiness(g, r)
  BY <1>6, <1>a, <1>b DEF Readiness
<1>7. CASE Wake(g, r)
  BY <1>7, <1>a, <1>b DEF Wake
<1>8. CASE Restore(g, r)
  <2>1. CASE Return(g, r) /\ procs' = procs
    BY <1>8, <2>1, <1>a DEF Restore
  <2>2. CASE /\ procs' = Append(procs, r)
             /\ pid' = [pid EXCEPT ![k] = Len(procs) + 1]
             /\ flow' = [flow EXCEPT ![k] = "health"]
             /\ UNCHANGED <<reported, awaited>>
    <3> DEFINE n == Len(procs)
    <3>1. /\ n \in Nat /\ DOMAIN procs = 1..n
          /\ DOMAIN procs' = 1..(n + 1)
          /\ \A i \in 1..n : procs'[i] = procs[i]
      BY <2>2, AppendProperties, LenProperties DEF TypeInv, TypeOK
    <3>2. pid[k] = Null
      BY <1>0, <1>8 DEF Restore, TypeInv, PidInv, Spawned
    <3>3. /\ \A l \in Keys : pid'[l] = IF l = k THEN n + 1 ELSE pid[l]
          /\ \A l \in Keys : flow'[l] = IF l = k THEN "health" ELSE flow[l]
      BY <1>0, <2>2 DEF TypeInv, TypeOK, Keys
    <3>4. UNCHANGED <<executed, lost, killed, reported>>
      BY <1>8, <2>2 DEF Restore
    <3>5. \A i \in 1..n : (\E l \in Keys : pid[l] = i)
                            => \E l \in Keys : pid'[l] = i
      BY <3>2, <3>3 DEF Null
    <3>6. \E l \in Keys : pid'[l] = n + 1
      BY <1>0, <3>3
    <3>7. \A i \in 1..(n + 1) : i \in 1..n \/ i = n + 1
      BY <3>1
    <3>8. \A i \in DOMAIN procs' :
            i \in reported' \cup lost' \cup killed' \/ \E l \in Keys : pid'[l] = i
      BY <3>1, <3>4, <3>5, <3>6, <3>7
      DEF ProcessInv, ProcessesAccountedFor, Held, Keys
    <3>9. ASSUME NEW q \in executed'
          PROVE  \E i \in DOMAIN procs' :
                    /\ procs'[i] = q
                    /\ i \notin killed'
                    /\ \A l \in Keys : pid'[l] = i => flow'[l] # "health"
      <4>1. PICK i \in 1..n :
                /\ procs[i] = q
                /\ i \notin killed
                /\ \A l \in Keys : pid[l] = i => flow[l] # "health"
        BY <3>1, <3>4 DEF ProcessInv, ExecutedInv
      <4>2. i \in DOMAIN procs' /\ i # n + 1
        BY <3>1
      <4>q. QED
        BY <3>1, <3>3, <3>4, <4>1, <4>2
    <3>10. ProcessesAccountedFor'
      BY <3>8, <3>9 DEF ProcessesAccountedFor, Held, Keys
    <3>11. ExecutedInv'
      BY <3>9 DEF ExecutedInv
    <3>q. QED
      BY <3>10, <3>11 DEF ProcessInv
  <2>q. QED
    BY <1>8, <2>1, <2>2 DEF Restore
<1>9. CASE HealthPasses(g, r)
  BY <1>9, <1>a, <1>b DEF HealthPasses
<1>10. CASE HealthFails(g, r)
  <2>1. flow[k] = "health"
    BY <1>10 DEF HealthFails
  <2>2. /\ \A l \in Keys : pid'[l] = IF l = k THEN Null ELSE pid[l]
        /\ \A l \in Keys : flow'[l] = IF l = k THEN "none" ELSE flow[l]
    BY <1>0, <1>10 DEF HealthFails, TypeInv, TypeOK, Keys
  <2>3. /\ UNCHANGED <<procs, lost, reported, executed>>
        /\ killed' = killed \cup {pid[k]}
    BY <1>10 DEF HealthFails
  <2>4. \A i \in DOMAIN procs :
            i \in reported \cup lost \cup killed' \/ \E l \in Keys : pid'[l] = i
    BY <2>2, <2>3 DEF ProcessInv, ProcessesAccountedFor, Held, Keys
  <2>5. ASSUME NEW q \in executed
        PROVE  \E i \in DOMAIN procs :
                  /\ procs[i] = q
                  /\ i \notin killed'
                  /\ \A l \in Keys : pid'[l] = i => flow'[l] # "health"
    BY <1>0, <2>1, <2>2, <2>3 DEF ProcessInv, ExecutedInv
  <2>6. ProcessesAccountedFor'
    BY <2>3, <2>4, <2>5 DEF ProcessesAccountedFor, Held, Keys
  <2>7. ExecutedInv'
    BY <2>3, <2>5 DEF ExecutedInv
  <2>q. QED
    BY <2>6, <2>7 DEF ProcessInv
<1>11. CASE Complete(g, r)
  BY <1>11, <1>a, <1>b DEF Complete
<1>12. CASE Heartbeat(g, r)
  BY <1>12, <1>a DEF Heartbeat
<1>13. CASE ReadinessTimesOut(g, r)
  BY <1>13, <1>a DEF ReadinessTimesOut
<1>q. QED
  BY <1>1, <1>2, <1>3, <1>4, <1>5, <1>6, <1>7, <1>8, <1>9, <1>10, <1>11,
     <1>12, <1>13 DEF FlowChange, FlowStep

LEMMA InitProcess == Init => ProcessInv
  BY DEF Init, ProcessInv, ProcessesAccountedFor, ExecutedInv

(* What leaves processes, pids and the contract as they are. *)
LEMMA SameProcesses ==
    ASSUME ProcessInv,
           UNCHANGED <<pid, procs, reported, lost, killed, executed>>,
           \A k \in Keys : flow'[k] = "health" => flow[k] = "health"
    PROVE  ProcessInv'
  BY DEF ProcessInv, ProcessesAccountedFor, ExecutedInv, Held

LEMMA NextProcess == TypeInv /\ ProcessInv /\ [Next]_vars => ProcessInv'
<1> SUFFICES ASSUME TypeInv, ProcessInv, [Next]_vars PROVE ProcessInv'
  OBVIOUS
<1> USE DEF chainVars, osVars
<1>1. CASE UNCHANGED vars
  BY <1>1, SameProcesses DEF vars
<1>2. CASE Start \/ Stop \/ StopReturns
  <2>1. \A k \in Keys : flow'[k] = "health" => flow[k] = "health"
    BY <1>2 DEF Start, Stop, StopReturns, Keys
  <2>q. QED
    BY <1>2, <2>1, SameProcesses DEF Start, Stop, StopReturns
<1>3. CASE Crash
  <2>1. UNCHANGED <<procs, killed, reported>>
    BY <1>3 DEF Crash
  <2>2. lost' = lost \cup ({pid[k] : k \in Keys} \ {Null})
    BY <1>3 DEF Crash, Keys
  <2>3. \A k \in Keys : pid'[k] = Null /\ flow'[k] = "none"
    BY <1>3 DEF Crash, Keys
  <2>4. \A i \in DOMAIN procs : i # Null
    BY LenProperties DEF TypeInv, TypeOK, Null
  <2>5. \A i \in DOMAIN procs : i \in reported \cup lost' \cup killed
    BY <2>2, <2>4 DEF ProcessInv, ProcessesAccountedFor, Held, Keys
  <2>6. \A r \in executed' : \E i \in DOMAIN procs : procs[i] = r /\ i \notin killed
    <3>1. ASSUME NEW r \in executed' \ executed
          PROVE  \E i \in DOMAIN procs : procs[i] = r /\ i \notin killed
      <4>1. PICK g \in Daemons : r \in Requests /\ flow[<<g, r>>] = "complete"
        BY <1>3, <3>1 DEF Crash
      <4>2. <<g, r>> \in Keys /\ flow[<<g, r>>] \in Spawned
        BY <4>1 DEF Keys, Spawned
      <4>3. LET i == pid[<<g, r>>] IN
              i \in DOMAIN procs /\ procs[i] = r /\ i \notin killed
        BY <4>2 DEF TypeInv, PidInv
      <4>q. QED
        BY <4>3
    <3>q. QED
      BY <3>1 DEF ProcessInv, ExecutedInv
  <2>7. ProcessesAccountedFor'
    BY <2>1, <2>5, <2>6 DEF ProcessesAccountedFor
  <2>8. ExecutedInv'
    BY <2>1, <2>3, <2>6 DEF ExecutedInv
  <2>q. QED
    BY <2>7, <2>8 DEF ProcessInv
<1>4. ASSUME NEW r \in Requests, AddRequest(r) \/ Approve(r) \/ Cancel(r)
      PROVE  ProcessInv'
  <2>1. \A k \in Keys : flow'[k] = "health" => flow[k] = "health"
    BY <1>4 DEF AddRequest, Approve, Cancel, TypeInv, TypeOK, Keys
  <2>q. QED
    BY <1>4, <2>1, SameProcesses DEF AddRequest, Approve, Cancel
<1>5. ASSUME NEW a \in Agents, OwnHeartbeat(a) PROVE ProcessInv'
  BY <1>5, SameProcesses DEF OwnHeartbeat
<1>6. ASSUME NEW g \in Daemons, NEW r \in Requests, FlowChange(g, r)
      PROVE  ProcessInv'
  BY <1>6, FlowAccounts
<1>q. QED
  BY <1>1, <1>2, <1>3, <1>4, <1>5, <1>6 DEF Next, FlowChange

(* Of every process the carrier has spawned somebody still knows, and an   *)
(* executed resurrection has a process that nobody stopped.                *)
THEOREM ProcessesKnown == Spec => []ProcessesAccountedFor
<1>1. Spec => [](TypeInv /\ ProcessInv)
  BY InitType, NextType, InitProcess, NextProcess, PTL DEF Spec
<1>2. ProcessInv => ProcessesAccountedFor
  BY DEF ProcessInv
<1>q. QED
  BY <1>1, <1>2, PTL

-----------------------------------------------------------------------------
(* One flow at a time *)

OneFlow == \A g \in Daemons : \A r, s \in Active(g) : r = s

LEMMA InitOneFlow == Init => OneFlow
  BY DEF Init, OneFlow, Active

(* The limit of one counts what is under way, also what start() accepted.  *)
LEMMA NextOneFlow ==
    ASSUME MaxConcurrent = 1
    PROVE  TypeInv /\ OneFlow /\ [Next]_vars => OneFlow'
<1> SUFFICES ASSUME TypeInv, OneFlow, [Next]_vars PROVE OneFlow'
  OBVIOUS
<1>1. CASE UNCHANGED vars
  BY <1>1 DEF vars, OneFlow, Active
<1>2. CASE Start
  <2>1. created + 1 \in Daemons
    BY <1>2, ConstantsAssumption DEF Start, Daemons, TypeInv, TypeOK
  <2>2. Active(created + 1) = {}
    BY <2>1 DEF TypeInv, TypeOK, FreshInv, Active, Keys
  <2>3. \A r, s \in Accepted : r = s
    BY ConstantsAssumption, LenProperties DEF Accepted
  <2>4. \A g \in Daemons : Active(g)' \subseteq
            Active(g) \cup (IF g = created + 1 THEN Accepted ELSE {})
    BY <1>2 DEF Start, Active
  <2>q. QED
    BY <2>2, <2>3, <2>4 DEF OneFlow
<1>3. CASE Stop \/ StopReturns
  BY <1>3 DEF Stop, StopReturns, OneFlow, Active
<1>4. CASE Crash
  <2>1. \A g \in Daemons : Active(g)' = {}
    BY <1>4 DEF Crash, Active
  <2>q. QED
    BY <2>1 DEF OneFlow
<1>5. ASSUME NEW r \in Requests, AddRequest(r) PROVE OneFlow'
  <2>1. Active(daemon) = {}
    <3>1. IsFiniteSet(Active(daemon))
      BY ConstantsAssumption, FS_Subset DEF Active
    <3>2. Cardinality(Active(daemon)) \in Nat /\ Cardinality(Active(daemon)) < 1
      BY <1>5, <3>1, FS_CardinalityType DEF AddRequest
    <3>q. QED
      BY <3>1, <3>2, FS_EmptySet
  <2>2. \A g \in Daemons : Active(g)' \subseteq
            Active(g) \cup (IF g = daemon THEN {r} ELSE {})
    BY <1>5 DEF AddRequest, Active, TypeInv, TypeOK
  <2>q. QED
    BY <2>1, <2>2 DEF OneFlow
<1>6. ASSUME NEW r \in Requests, Approve(r) \/ Cancel(r) PROVE OneFlow'
  BY <1>6 DEF Approve, Cancel, OneFlow, Active
<1>7. ASSUME NEW a \in Agents, OwnHeartbeat(a) PROVE OneFlow'
  BY <1>7 DEF OwnHeartbeat, OneFlow, Active
<1>8. ASSUME NEW g \in Daemons, NEW r \in Requests, FlowChange(g, r)
      PROVE  OneFlow'
  <2>1. \A h \in Daemons : Active(h)' \subseteq Active(h)
    BY <1>8, FlowDrains DEF TypeInv
  <2>q. QED
    BY <2>1 DEF OneFlow
<1>q. QED
  BY <1>1, <1>2, <1>3, <1>4, <1>5, <1>6, <1>7, <1>8 DEF Next, FlowChange

(* With a limit of one flow, and as long as no stop() gave up waiting, no  *)
(* two flows restore into the directory of one agent, though daemons       *)
(* follow one another.  (addRequest, _executeRequest)                      *)
THEOREM RestoresAlone ==
    ASSUME MaxConcurrent = 1
    PROVE  Spec => []OneRestorePerDirectory
<1>1. TypeInv /\ ManagerInv /\ OneFlow => OneRestorePerDirectory
  <2> SUFFICES ASSUME TypeInv, ManagerInv, OneFlow, timedOut = {},
                      NEW k \in Keys, NEW l \in Keys,
                      flow[k] = "restore", flow[l] = "restore"
               PROVE  k = l
    BY DEF OneRestorePerDirectory, Keys
  <2>1. ASSUME NEW m \in Keys, flow[m] = "restore"
        PROVE  m[1] = daemon /\ m[2] \in Active(daemon) /\ m = <<m[1], m[2]>>
    <3>1. m = <<m[1], m[2]>> /\ m[1] \in Daemons /\ m[2] \in Requests
      BY DEF Keys
    <3>2. m[2] \in Active(m[1])
      BY <2>1, <3>1 DEF Active
    <3>3. m[1] \in 1..created
      <4>1. ~(m[1] > created)
        BY <2>1 DEF TypeInv, FreshInv
      <4>2. m[1] \in 1..MaxStarts /\ created \in 0..MaxStarts
        BY <3>1 DEF TypeInv, TypeOK, Daemons
      <4>q. QED
        BY <4>1, <4>2, ConstantsAssumption
    <3>q. QED
      BY <3>1, <3>2, <3>3 DEF ManagerInv, DrainedIsQuiet
  <2>q. QED
    BY <2>1 DEF OneFlow, Keys
<1>2. Spec => [](TypeInv /\ ManagerInv /\ OneFlow)
  BY InitType, NextType, InitManager, NextManager, InitOneFlow, NextOneFlow,
     PTL DEF Spec
<1>q. QED
  BY <1>1, <1>2, PTL

=============================================================================
