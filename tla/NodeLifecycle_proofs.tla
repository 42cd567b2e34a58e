------------------------ MODULE NodeLifecycle_proofs ------------------------
(***************************************************************************)
(* What TLAPS proves of nodes and their processes, for any set of names,   *)
(* programs and pids, any services and any number of operations.           *)
(***************************************************************************)
EXTENDS NodeLifecycle, SequenceTheorems, TLAPS

(* The moves of the node manager as its callers see them: an operation     *)
(* begins, goes on, or is cut off; a process changes; the registry is read *)
(* and nothing else is done (a caller that only lists the nodes).          *)
Begins(c, n) ==
    \/ \E d \in Dirs : BeginInstall(c, n, d)
    \/ BeginStart(c, n)
    \/ BeginStop(c, n)
    \/ BeginRestart(c, n)
    \/ \E withData \in BOOLEAN : BeginRemove(c, n, withData)
    \/ BeginUpdate(c, n)
    \/ BeginEdit(c, n)

Lists(c) ==
    /\ Load(c)
    /\ UNCHANGED <<sqlite, rows, files, pidFile, procs, op, keys, ops, raced, mixed>>

NodeMoves ==
    \/ \E c \in Clients, n \in Names : Begins(c, n)
    \/ \E c \in Clients : Progress(c) \/ Die(c) \/ Lists(c)
    \/ \E p \in Pids : Exit(p) \/ Reuse(p)
    \/ UNCHANGED nvars

LEMMA NextMoves == [NodeNext]_nvars => NodeMoves
<1> SUFFICES ASSUME [NodeNext]_nvars PROVE NodeMoves
  OBVIOUS
<1>1. ASSUME NEW c \in Clients, Command(c) \/ Tool(c) PROVE \E n \in Names : Begins(c, n)
  BY <1>1 DEF Command, Tool, Operation, Begins
<1>q. QED
  BY <1>1 DEF NodeNext, NodeMoves

-----------------------------------------------------------------------------
(* Operations *)

(* Which operation is at which step, and what it holds there. *)
Sound(o) ==
    /\ o.at \in ServiceSteps <=> o.left # <<>>
    /\ o.at \in {"read", "spawn", "write"} => o.kind \in {"start", "restart"}
    /\ o.at = "pause" => o.kind = "restart"
    /\ o.at \in {"kill", "unlink"} => o.kind \in {"stop", "restart", "remove"}
    /\ o.at = "rm" => o.kind = "remove"
    /\ o.at \in {"key", "config"} => o.kind = "install"
    /\ o.at = "row" => o.kind \in {"install", "remove"}
    /\ o.at = "patch" => o.kind \in {"update", "edit"}
    /\ o.at = "config" => o.value \in 0..MaxKeys
    /\ o.at = "patch" => o.value \in NodeIds
    /\ o.at = "write" => o.value \in Pids

OpOK(o) == o = Idle \/ (o \in Op /\ Sound(o))

TypeInv == NodeTypeOK /\ \A c \in Clients : OpOK(op[c])

LEMMA IdleIsNoOp == Idle \notin Op
  BY DEF Idle, Op, Kinds

(* The operation of a program that is busy. *)
LEMMA Busy ==
    ASSUME TypeInv, NEW c \in Clients, NEW at, At(c, at)
    PROVE  op[c] \in Op /\ Sound(op[c]) /\ op[c].at = at
  BY DEF At, TypeInv, OpOK

(* The services, and what is left of them. *)
LEMMA ServicesLeft ==
    ASSUME NEW left \in Seq(ServiceNames), left # <<>>
    PROVE  /\ Head(left) \in ServiceNames
           /\ Tail(left) \in Seq(ServiceNames)
  BY HeadTailProperties

LEMMA BackwardsType ==
    /\ Services \in Seq(ServiceNames) /\ Services # <<>>
    /\ Backwards(Services) \in Seq(ServiceNames)
    /\ Backwards(Services) # <<>>
    /\ \A s \in ServiceNames : \E i \in DOMAIN Backwards(Services) : Backwards(Services)[i] = s
<1>1. Services \in Seq(ServiceNames) /\ Services # <<>>
  BY NodeAssumption
<1>2. Len(Services) \in Nat \ {0} /\ DOMAIN Services = 1..Len(Services)
  BY <1>1, LenProperties, EmptySeq
<1>3. \A i \in 1..Len(Services) : Len(Services) + 1 - i \in 1..Len(Services)
  BY <1>2
<1>4. \A i \in 1..Len(Services) : Services[i] \in ServiceNames
  BY <1>2 DEF ServiceNames
<1>5. Backwards(Services) = [i \in 1..Len(Services) |-> Services[Len(Services) + 1 - i]]
  BY <1>2 DEF Backwards
<1>6. Backwards(Services) \in [1..Len(Services) -> ServiceNames]
  BY <1>3, <1>4, <1>5
<1>7. Backwards(Services) \in Seq(ServiceNames) /\ DOMAIN Backwards(Services) = 1..Len(Services)
  BY <1>2, <1>6 DEF Seq
<1>8. Backwards(Services) # <<>>
  BY <1>2, <1>7
<1>9. ASSUME NEW s \in ServiceNames
      PROVE  \E i \in DOMAIN Backwards(Services) : Backwards(Services)[i] = s
  <2>1. PICK j \in 1..Len(Services) : Services[j] = s
    BY <1>2 DEF ServiceNames
  <2>2. Len(Services) + 1 - (Len(Services) + 1 - j) = j
    BY <1>2
  <2>3. Backwards(Services)[Len(Services) + 1 - j] = s
    BY <1>3, <1>5, <2>1, <2>2
  <2>q. QED
    BY <1>3, <1>7, <2>3
<1>q. QED
  BY <1>1, <1>7, <1>8, <1>9

(* An operation o on node n begins. *)
Fresh(c, n, o) ==
    /\ op[c] = Idle
    /\ o \in Op /\ Sound(o)
    /\ o.name = n /\ o.value = 0
    /\ o.at \in {"key", "read", "kill", "patch"}
    /\ o.at = "kill" => o.left = Backwards(Services)
    /\ o.kind = "install" => Known(c)[n] = NoDir
    /\ o.kind # "install" => o.dir = Known(c)[n]
    /\ o.withData => o.kind = "remove"
    /\ op' = [op EXCEPT ![c] = o]
    /\ raced' = IF Rivals(c, o.kind, o.dir) # {} THEN raced \cup {o.dir} ELSE raced
    /\ mixed' = mixed \cup {x.dir : x \in Mingled(c, o.kind, n, o.dir)}
                      \cup (IF Mingled(c, o.kind, n, o.dir) # {}
                              \/ (o.withData /\ Shared(n, o.dir))
                            THEN {o.dir} ELSE {})
    /\ Load(c)
    /\ ops' \in 0..MaxOps
    /\ UNCHANGED <<sqlite, rows, files, pidFile, procs, keys>>

LEMMA KnownType ==
    ASSUME TypeInv, NEW c \in Clients
    PROVE  Known(c) \in Entries
<1>1. cache[c] \in {Unloaded} \cup {Loaded(R) : R \in Entries} /\ rows \in Entries
  BY DEF TypeInv, NodeTypeOK
<1>2. NoNodes \in Entries
  BY DEF NoNodes, Entries
<1>3. cache[c].nodes \in Entries
  BY <1>1, <1>2 DEF Unloaded, Loaded
<1>q. QED
  BY <1>1, <1>3 DEF Known

LEMMA BeginFresh ==
    ASSUME TypeInv, NEW c \in Clients, NEW n \in Names, Begins(c, n)
    PROVE  \E o \in Op : Fresh(c, n, o)
<1>1. ASSUME NEW kind \in Kinds, NEW d \in Dirs, NEW at \in {"key", "read", "kill", "patch"},
             NEW left \in Seq(ServiceNames), NEW withData \in BOOLEAN,
             Begin(c, kind, n, d, at, left, withData),
             at = "kill" => left = Backwards(Services),
             kind = "install" => Known(c)[n] = NoDir,
             kind # "install" => d = Known(c)[n],
             withData => kind = "remove",
             at \in ServiceSteps <=> left # <<>>,
             at = "read" => kind = "start",
             at = "kill" => kind \in {"stop", "restart", "remove"},
             at = "key" => kind = "install",
             at = "patch" => kind \in {"update", "edit"}
      PROVE  \E o \in Op : Fresh(c, n, o)
  <2> DEFINE o == [kind |-> kind, name |-> n, dir |-> d, at |-> at, left |-> left,
                   value |-> 0, withData |-> withData]
  <2>1. /\ o \in Op /\ o.kind = kind /\ o.name = n /\ o.dir = d /\ o.at = at
        /\ o.left = left /\ o.value = 0 /\ o.withData = withData
    BY DEF Op, Steps
  <2>2. op' = [op EXCEPT ![c] = o] /\ op[c] = Idle
    BY <1>1 DEF Begin
  <2>3. ops' \in 0..MaxOps
    BY <1>1, NodeAssumption DEF Begin, TypeInv, NodeTypeOK
  <2> HIDE DEF o
  <2>4. Sound(o)
    <3>1. 0 \in 0..MaxKeys /\ 0 \in NodeIds
      BY NodeAssumption DEF NodeIds
    <3>q. QED
      BY <1>1, <2>1, <3>1 DEF Sound
  <2>5. Fresh(c, n, o)
    BY <1>1, <2>1, <2>2, <2>3, <2>4 DEF Fresh, Begin
  <2>q. QED
    BY <2>1, <2>5
<1>2. /\ <<>> \in Seq(ServiceNames)
      /\ "key" \notin ServiceSteps /\ "patch" \notin ServiceSteps
      /\ "read" \in ServiceSteps /\ "kill" \in ServiceSteps
  BY EmptySeq DEF ServiceSteps
<1>a. Registered(c, n) => Known(c)[n] \in Dirs
  BY KnownType DEF Registered, Entries
<1> USE DEF Kinds
<1>3. ASSUME NEW d \in Dirs, BeginInstall(c, n, d)
      PROVE  \E o \in Op : Fresh(c, n, o)
  BY <1>1, <1>2, <1>3 DEF BeginInstall, Registered
<1>4. CASE BeginStart(c, n)
  BY <1>1, <1>2, <1>4, <1>a, BackwardsType DEF BeginStart, BeginOn
<1>5. CASE BeginStop(c, n)
  BY <1>1, <1>2, <1>5, <1>a, BackwardsType DEF BeginStop, BeginOn
<1>6. CASE BeginRestart(c, n)
  BY <1>1, <1>2, <1>6, <1>a, BackwardsType DEF BeginRestart, BeginOn
<1>7. ASSUME NEW withData \in BOOLEAN, BeginRemove(c, n, withData)
      PROVE  \E o \in Op : Fresh(c, n, o)
  BY <1>1, <1>2, <1>7, <1>a, BackwardsType DEF BeginRemove, BeginOn
<1>8. CASE BeginUpdate(c, n)
  BY <1>1, <1>2, <1>8, <1>a DEF BeginUpdate, BeginOn
<1>9. CASE BeginEdit(c, n)
  BY <1>1, <1>2, <1>9, <1>a DEF BeginEdit, BeginOn
<1>q. QED
  BY <1>3, <1>4, <1>5, <1>6, <1>7, <1>8, <1>9 DEF Begins

(* An operation goes on, as w or not at all: it is on the same node, of    *)
(* the same kind, and in the same directory, unless a restart finds the    *)
(* node in another one.                                                    *)
GoesOn(c, w) ==
    /\ op[c] # Idle
    /\ op' = [op EXCEPT ![c] = w]
    /\ \/ w = Idle
       \/ /\ w \in Op /\ Sound(w)
          /\ w.kind = op[c].kind /\ w.name = op[c].name /\ w.withData = op[c].withData
          /\ w.dir = op[c].dir \/ (w.kind = "restart" /\ w.dir \in raced')

LEMMA FinishGoesOn ==
    ASSUME TypeInv, NEW c \in Clients, op[c] # Idle, Finish(c)
    PROVE  GoesOn(c, Idle)
  BY DEF Finish, GoesOn

(* To another step with the same services left, ... *)
LEMMA StepGoesOn ==
    ASSUME TypeInv, NEW c \in Clients, op[c] # Idle, NEW at \in Steps, NEW value \in Int,
           op' = [op EXCEPT ![c].at = at, ![c].value = value],
           Sound([op[c] EXCEPT !.at = at, !.value = value])
    PROVE  GoesOn(c, [op[c] EXCEPT !.at = at, !.value = value])
<1>1. op[c] \in Op
  BY DEF TypeInv, OpOK
<1>2. op' = [op EXCEPT ![c] = [op[c] EXCEPT !.at = at, !.value = value]]
  OBVIOUS
<1>q. QED
  BY <1>1, <1>2 DEF GoesOn, Op

LEMMA GoToGoesOn ==
    ASSUME TypeInv, NEW c \in Clients, op[c] # Idle, NEW at \in Steps, GoTo(c, at),
           Sound([op[c] EXCEPT !.at = at])
    PROVE  GoesOn(c, [op[c] EXCEPT !.at = at])
<1>1. op[c] \in Op
  BY DEF TypeInv, OpOK
<1>2. op' = [op EXCEPT ![c] = [op[c] EXCEPT !.at = at]]
  BY DEF GoTo
<1>q. QED
  BY <1>1, <1>2 DEF GoesOn, Op

(* ... or to the next service. *)
LEMMA AfterServiceGoesOn ==
    ASSUME TypeInv, NEW c \in Clients, op[c] # Idle,
           op[c].at \in {"read", "spawn", "write"}, AfterService(c)
    PROVE  GoesOn(c, IF Tail(op[c].left) = <<>> THEN Idle
                     ELSE [op[c] EXCEPT !.at = "read", !.left = Tail(op[c].left), !.value = 0])
<1>1. op[c] \in Op /\ Sound(op[c])
  BY DEF TypeInv, OpOK
<1>2. op[c].left # <<>> /\ op[c].left \in Seq(ServiceNames)
  BY <1>1 DEF Sound, ServiceSteps, Op
<1>3. Tail(op[c].left) \in Seq(ServiceNames)
  BY <1>2, ServicesLeft
<1> DEFINE w == [op[c] EXCEPT !.at = "read", !.left = Tail(op[c].left), !.value = 0]
<1>0. "read" \in Steps /\ 0 \in Int
  BY DEF Steps
<1>4. /\ w \in Op /\ w.at = "read" /\ w.left = Tail(op[c].left) /\ w.kind = op[c].kind
      /\ w.name = op[c].name /\ w.withData = op[c].withData
      /\ w.dir = op[c].dir
  BY <1>0, <1>1, <1>3 DEF Op
<1>5. op' = [op EXCEPT ![c] = IF Tail(op[c].left) = <<>> THEN Idle ELSE w]
  BY DEF AfterService
<1> HIDE DEF w
<1>6. CASE Tail(op[c].left) = <<>>
  BY <1>5, <1>6 DEF GoesOn, w
<1>7. CASE Tail(op[c].left) # <<>>
  <2>1. Sound(w)
    BY <1>1, <1>4, <1>7 DEF Sound, ServiceSteps
  <2>2. GoesOn(c, w)
    BY <1>4, <1>5, <1>7, <2>1 DEF GoesOn
  <2>q. QED
    BY <1>7, <2>2 DEF w
<1>q. QED
  BY <1>6, <1>7

(* What is left of stopping a node after one service. *)
Stopped(o) ==
    CASE Tail(o.left) # <<>> -> [o EXCEPT !.at = "kill", !.left = Tail(o.left)]
      [] Tail(o.left) = <<>> /\ o.kind = "stop" -> Idle
      [] Tail(o.left) = <<>> /\ o.kind = "restart" -> [o EXCEPT !.at = "pause", !.left = <<>>]
      [] OTHER -> [o EXCEPT !.at = "rm", !.left = <<>>]

LEMMA AfterKillGoesOn ==
    ASSUME TypeInv, NEW c \in Clients, op[c] # Idle, op[c].at \in {"kill", "unlink"},
           AfterKill(c)
    PROVE  GoesOn(c, Stopped(op[c]))
<1>1. op[c] \in Op /\ Sound(op[c])
  BY DEF TypeInv, OpOK
<1>2. op[c].left # <<>> /\ op[c].left \in Seq(ServiceNames)
  BY <1>1 DEF Sound, ServiceSteps, Op
<1>3. Tail(op[c].left) \in Seq(ServiceNames) /\ <<>> \in Seq(ServiceNames)
  BY <1>2, ServicesLeft, EmptySeq
<1>4. op[c].kind \in {"stop", "restart", "remove"}
  BY <1>1 DEF Sound
<1> DEFINE rest == Tail(op[c].left)
<1>5. op' = [op EXCEPT ![c] =
            CASE rest # <<>> -> [op[c] EXCEPT !.at = "kill", !.left = rest]
              [] rest = <<>> /\ op[c].kind = "stop" -> Idle
              [] OTHER -> [op[c] EXCEPT !.at = AfterStop[op[c].kind], !.left = rest]]
  BY DEF AfterKill
<1> HIDE DEF rest
<1>a. AfterStop["restart"] = "pause" /\ AfterStop["remove"] = "rm"
  BY DEF AfterStop
<1>6. CASE rest # <<>>
  <2> DEFINE w == [op[c] EXCEPT !.at = "kill", !.left = rest]
  <2>1. /\ w \in Op /\ w.at = "kill" /\ w.left = rest /\ w.kind = op[c].kind
        /\ w.name = op[c].name /\ w.withData = op[c].withData
        /\ w.dir = op[c].dir
    BY <1>1, <1>3 DEF Op, Steps, rest
  <2> HIDE DEF w
  <2>2. Sound(w)
    BY <1>4, <1>6, <2>1 DEF Sound, ServiceSteps
  <2>3. op' = [op EXCEPT ![c] = w] /\ Stopped(op[c]) = w
    BY <1>5, <1>6 DEF w, Stopped, rest
  <2>q. QED
    BY <2>1, <2>2, <2>3 DEF GoesOn
<1>7. CASE rest = <<>> /\ op[c].kind = "stop"
  <2>1. op' = [op EXCEPT ![c] = Idle] /\ Stopped(op[c]) = Idle
    BY <1>5, <1>7 DEF Stopped, rest
  <2>q. QED
    BY <2>1 DEF GoesOn
<1>8. CASE rest = <<>> /\ op[c].kind = "restart"
  <2> DEFINE w == [op[c] EXCEPT !.at = "pause", !.left = <<>>]
  <2>1. /\ w \in Op /\ w.at = "pause" /\ w.left = <<>> /\ w.kind = op[c].kind
        /\ w.name = op[c].name /\ w.withData = op[c].withData
        /\ w.dir = op[c].dir
    BY <1>1, <1>3 DEF Op, Steps
  <2> HIDE DEF w
  <2>2. Sound(w)
    BY <1>8, <2>1 DEF Sound, ServiceSteps
  <2>3. op' = [op EXCEPT ![c] = [op[c] EXCEPT !.at = AfterStop[op[c].kind], !.left = rest]]
    BY <1>5, <1>8
  <2>4. op' = [op EXCEPT ![c] = w]
    BY <1>8, <1>a, <2>3 DEF w
  <2>5. Stopped(op[c]) = w
    BY <1>8 DEF w, Stopped, rest
  <2>q. QED
    BY <2>1, <2>2, <2>4, <2>5 DEF GoesOn
<1>9. CASE rest = <<>> /\ op[c].kind = "remove"
  <2> DEFINE w == [op[c] EXCEPT !.at = "rm", !.left = <<>>]
  <2>1. /\ w \in Op /\ w.at = "rm" /\ w.left = <<>> /\ w.kind = op[c].kind
        /\ w.name = op[c].name /\ w.withData = op[c].withData
        /\ w.dir = op[c].dir
    BY <1>1, <1>3 DEF Op, Steps
  <2> HIDE DEF w
  <2>2. Sound(w)
    BY <1>9, <2>1 DEF Sound, ServiceSteps
  <2>3. op' = [op EXCEPT ![c] = [op[c] EXCEPT !.at = AfterStop[op[c].kind], !.left = rest]]
    BY <1>5, <1>9
  <2>4. op' = [op EXCEPT ![c] = w]
    BY <1>9, <1>a, <2>3 DEF w
  <2>5. Stopped(op[c]) = w
    BY <1>9 DEF w, Stopped, rest
  <2>q. QED
    BY <2>1, <2>2, <2>4, <2>5 DEF GoesOn
<1>q. QED
  BY <1>4, <1>6, <1>7, <1>8, <1>9

-----------------------------------------------------------------------------
(* Where each step leaves its operation *)

LEMMA WriteKeyGoesOn ==
    ASSUME TypeInv, NEW c \in Clients, WriteKey(c)
    PROVE  /\ op[c] \in Op /\ Sound(op[c]) /\ op[c].at = "key" /\ op[c].kind = "install"
           /\ keys + 1 \in 0..MaxKeys
           /\ GoesOn(c, [op[c] EXCEPT !.at = "config", !.value = keys + 1])
<1>1. op[c] \in Op /\ Sound(op[c]) /\ op[c].at = "key" /\ op[c] # Idle
  BY Busy DEF WriteKey, At
<1>2. keys + 1 \in 0..MaxKeys /\ keys + 1 \in Int
  BY NodeAssumption DEF WriteKey, TypeInv, NodeTypeOK
<1>3. Sound([op[c] EXCEPT !.at = "config", !.value = keys + 1])
  BY <1>1, <1>2 DEF Sound, Op, ServiceSteps
<1>4. "config" \in Steps /\ op[c].kind = "install"
  BY <1>1 DEF Steps, Sound
<1>q. QED
  BY <1>1, <1>2, <1>3, <1>4, StepGoesOn DEF WriteKey, Dir

LEMMA WriteConfigGoesOn ==
    ASSUME TypeInv, NEW c \in Clients, WriteConfig(c)
    PROVE  /\ op[c] \in Op /\ Sound(op[c]) /\ op[c].at = "config" /\ op[c].kind = "install"
           /\ op[c].dir \notin dirs => GoesOn(c, Idle)
           /\ op[c].dir \in dirs => GoesOn(c, [op[c] EXCEPT !.at = "row"])
<1>1. op[c] \in Op /\ Sound(op[c]) /\ op[c].at = "config" /\ op[c] # Idle
  BY Busy DEF WriteConfig, At
<1>2. op[c].kind = "install" /\ "row" \in Steps
  BY <1>1 DEF Sound, Steps
<1>3. Sound([op[c] EXCEPT !.at = "row"])
  BY <1>1, <1>2 DEF Sound, Op, ServiceSteps
<1>q. QED
  BY <1>1, <1>2, <1>3, FinishGoesOn, GoToGoesOn DEF WriteConfig, Dir

LEMMA RegisterGoesOn ==
    ASSUME TypeInv, NEW c \in Clients, Register(c)
    PROVE  /\ op[c] \in Op /\ Sound(op[c]) /\ op[c].at = "row" /\ op[c].kind = "install"
           /\ GoesOn(c, Idle)
  BY Busy, FinishGoesOn DEF Register, At

LEMMA UnregisterGoesOn ==
    ASSUME TypeInv, NEW c \in Clients, Unregister(c)
    PROVE  /\ op[c] \in Op /\ Sound(op[c]) /\ op[c].at = "row" /\ op[c].kind = "remove"
           /\ GoesOn(c, Idle)
  BY Busy, FinishGoesOn DEF Unregister, At

LEMMA CheckRunningGoesOn ==
    ASSUME TypeInv, NEW c \in Clients, CheckRunning(c)
    PROVE  /\ op[c] \in Op /\ Sound(op[c]) /\ op[c].at = "read"
           /\ status(op[c].dir, Service(c)).running =>
                GoesOn(c, IF Tail(op[c].left) = <<>> THEN Idle
                          ELSE [op[c] EXCEPT !.at = "read", !.left = Tail(op[c].left),
                                             !.value = 0])
           /\ ~status(op[c].dir, Service(c)).running =>
                GoesOn(c, [op[c] EXCEPT !.at = "spawn"])
<1>1. op[c] \in Op /\ Sound(op[c]) /\ op[c].at = "read" /\ op[c] # Idle
  BY Busy DEF CheckRunning, At
<1>2. Sound([op[c] EXCEPT !.at = "spawn"]) /\ "spawn" \in Steps
  BY <1>1 DEF Sound, Op, ServiceSteps, Steps
<1>q. QED
  BY <1>1, <1>2, AfterServiceGoesOn, GoToGoesOn DEF CheckRunning, Dir

LEMMA SpawnGoesOn ==
    ASSUME TypeInv, NEW c \in Clients, Spawn(c)
    PROVE  /\ op[c] \in Op /\ Sound(op[c]) /\ op[c].at = "spawn"
           /\ \/ GoesOn(c, Idle) /\ UNCHANGED procs
              \/ \E p \in Pids :
                    /\ op[c].dir \in dirs
                    /\ procs[p] = Dead
                    /\ procs' = [procs EXCEPT ![p] = Process(op[c].dir, Service(c), FALSE)]
                    /\ GoesOn(c, [op[c] EXCEPT !.at = "write", !.value = p])
<1>1. op[c] \in Op /\ Sound(op[c]) /\ op[c].at = "spawn" /\ op[c] # Idle
  BY Busy DEF Spawn, At
<1>2. ASSUME NEW p \in Pids, op' = [op EXCEPT ![c].at = "write", ![c].value = p]
      PROVE  GoesOn(c, [op[c] EXCEPT !.at = "write", !.value = p])
  <2>1. p \in Int /\ "write" \in Steps
    BY NodeAssumption DEF Steps
  <2>2. Sound([op[c] EXCEPT !.at = "write", !.value = p])
    BY <1>1, <2>1 DEF Sound, Op, ServiceSteps
  <2>q. QED
    BY <1>1, <1>2, <2>1, <2>2, StepGoesOn
<1>q. QED
  BY <1>1, <1>2, FinishGoesOn DEF Spawn, Dir

LEMMA WritePidGoesOn ==
    ASSUME TypeInv, NEW c \in Clients, WritePid(c)
    PROVE  /\ op[c] \in Op /\ Sound(op[c]) /\ op[c].at = "write" /\ op[c].value \in Pids
           /\ op[c].dir \notin dirs => GoesOn(c, Idle) /\ UNCHANGED pidFile
           /\ op[c].dir \in dirs =>
                /\ pidFile' = [pidFile EXCEPT ![op[c].dir][Service(c)] = op[c].value]
                /\ GoesOn(c, IF Tail(op[c].left) = <<>> THEN Idle
                             ELSE [op[c] EXCEPT !.at = "read", !.left = Tail(op[c].left),
                                                !.value = 0])
<1>1. op[c] \in Op /\ Sound(op[c]) /\ op[c].at = "write" /\ op[c] # Idle
  BY Busy DEF WritePid, At
<1>2. op[c].value \in Pids
  BY <1>1 DEF Sound
<1>q. QED
  BY <1>1, <1>2, AfterServiceGoesOn, FinishGoesOn DEF WritePid, Dir

LEMMA KillGoesOn ==
    ASSUME TypeInv, NEW c \in Clients, Kill(c)
    PROVE  /\ op[c] \in Op /\ Sound(op[c]) /\ op[c].at = "kill"
           /\ \/ /\ ~isRunning(pidFile[op[c].dir][Service(c)])
                 /\ GoesOn(c, Stopped(op[c])) /\ UNCHANGED procs
              \/ /\ isRunning(pidFile[op[c].dir][Service(c)])
                 /\ procs' = [procs EXCEPT ![pidFile[op[c].dir][Service(c)]] =
                                IF @ = Foreign THEN Dead ELSE [@ EXCEPT !.ending = TRUE]]
                 /\ GoesOn(c, [op[c] EXCEPT !.at = "unlink"])
<1>1. op[c] \in Op /\ Sound(op[c]) /\ op[c].at = "kill" /\ op[c] # Idle
  BY Busy DEF Kill, At
<1>2. Sound([op[c] EXCEPT !.at = "unlink"]) /\ "unlink" \in Steps
  BY <1>1 DEF Sound, Op, ServiceSteps, Steps
<1>q. QED
  BY <1>1, <1>2, AfterKillGoesOn, GoToGoesOn DEF Kill, Dir

LEMMA UnlinkGoesOn ==
    ASSUME TypeInv, NEW c \in Clients, Unlink(c)
    PROVE  /\ op[c] \in Op /\ Sound(op[c]) /\ op[c].at = "unlink"
           /\ GoesOn(c, Stopped(op[c]))
  BY Busy, AfterKillGoesOn DEF Unlink, At

LEMMA StartAgainGoesOn ==
    ASSUME TypeInv, NEW c \in Clients, StartAgain(c)
    PROVE  /\ op[c] \in Op /\ Sound(op[c]) /\ op[c].at = "pause" /\ op[c].kind = "restart"
           /\ raced \subseteq raced' /\ raced' \subseteq Dirs
           /\ \/ GoesOn(c, Idle)
              \/ \E d \in Dirs :
                    /\ Known(c)[op[c].name] = d
                    /\ GoesOn(c, [op[c] EXCEPT !.at = "read", !.left = Services, !.dir = d])
<1>1. op[c] \in Op /\ Sound(op[c]) /\ op[c].at = "pause" /\ op[c] # Idle
  BY Busy DEF StartAgain, At
<1>2. op[c].kind = "restart" /\ op[c].name \in Names
  BY <1>1 DEF Sound, Op
<1> DEFINE d == Known(c)[op[c].name]
<1>3. d \in Dirs \cup {NoDir}
  BY <1>2, KnownType DEF Entries
<1>4. raced' = IF d \in {NoDir, op[c].dir} THEN raced ELSE raced \cup {d}
  BY DEF StartAgain, Dir
<1>5. raced \subseteq raced' /\ raced' \subseteq Dirs
  BY <1>3, <1>4 DEF TypeInv, NodeTypeOK
<1>6. CASE Registered(c, op[c].name)
  <2> DEFINE w == [op[c] EXCEPT !.at = "read", !.left = Services, !.dir = d]
  <2>0. d \in Dirs
    BY <1>3, <1>6 DEF Registered
  <2>1. /\ w \in Op /\ w.at = "read" /\ w.left = Services /\ w.kind = op[c].kind
        /\ w.name = op[c].name /\ w.withData = op[c].withData
        /\ w.dir = d
    BY <1>1, <2>0, BackwardsType DEF Op, Steps
  <2>2. op' = [op EXCEPT ![c] = w]
    BY <1>6 DEF StartAgain
  <2> HIDE DEF w
  <2>3. Sound(w)
    BY <1>2, <2>1, BackwardsType DEF Sound, ServiceSteps
  <2>4. w.dir = op[c].dir \/ w.dir \in raced'
    BY <1>4, <1>6, <2>1 DEF Registered
  <2>5. GoesOn(c, w)
    BY <1>1, <1>2, <2>1, <2>2, <2>3, <2>4 DEF GoesOn
  <2>q. QED
    BY <1>1, <1>2, <1>5, <2>0, <2>5 DEF w
<1>7. CASE ~Registered(c, op[c].name)
  BY <1>1, <1>2, <1>5, <1>7, FinishGoesOn DEF StartAgain
<1>q. QED
  BY <1>6, <1>7

LEMMA RemoveFileGoesOn ==
    ASSUME TypeInv, NEW c \in Clients, RemoveFile(c)
    PROVE  /\ op[c] \in Op /\ Sound(op[c]) /\ op[c].at = "rm" /\ op[c].kind = "remove"
           /\ op' = op /\ GoesOn(c, op[c])
<1>1. op[c] \in Op /\ Sound(op[c]) /\ op[c].at = "rm" /\ op[c] # Idle
  BY Busy DEF RemoveFile, At
<1>2. op' = op /\ op' = [op EXCEPT ![c] = op[c]]
  BY DEF RemoveFile, TypeInv, NodeTypeOK
<1>q. QED
  BY <1>1, <1>2 DEF GoesOn, Sound

LEMMA RemoveDirectoryGoesOn ==
    ASSUME TypeInv, NEW c \in Clients, RemoveDirectory(c)
    PROVE  /\ op[c] \in Op /\ Sound(op[c]) /\ op[c].at = "rm" /\ op[c].kind = "remove"
           /\ GoesOn(c, [op[c] EXCEPT !.at = "row"])
<1>1. op[c] \in Op /\ Sound(op[c]) /\ op[c].at = "rm" /\ op[c] # Idle
  BY Busy DEF RemoveDirectory, At
<1>2. op[c].kind = "remove"
  BY <1>1 DEF Sound
<1>3. Sound([op[c] EXCEPT !.at = "row"]) /\ "row" \in Steps
  BY <1>1, <1>2 DEF Sound, Op, ServiceSteps, Steps
<1>q. QED
  BY <1>1, <1>2, <1>3, GoToGoesOn DEF RemoveDirectory

LEMMA ReadConfigGoesOn ==
    ASSUME TypeInv, NEW c \in Clients, ReadConfig(c)
    PROVE  /\ op[c] \in Op /\ Sound(op[c]) /\ op[c].at = "patch"
           /\ op[c].kind \in {"update", "edit"}
           /\ \/ GoesOn(c, Idle)
              \/ GoesOn(c, [op[c] EXCEPT !.at = "patch", !.value = config[op[c].dir]])
<1>1. op[c] \in Op /\ Sound(op[c]) /\ op[c].at = "patch" /\ op[c] # Idle
  BY Busy DEF ReadConfig, At
<1>2. op[c].kind \in {"update", "edit"} /\ "patch" \in Steps
  BY <1>1 DEF Sound, Steps
<1>3. op[c].dir \in Dirs
  BY <1>1 DEF Op
<1>4. config[op[c].dir] \in NodeIds /\ config[op[c].dir] \in Int
  BY <1>3, NodeAssumption DEF TypeInv, NodeTypeOK, NodeIds, Custom
<1>5. Sound([op[c] EXCEPT !.at = "patch", !.value = config[op[c].dir]])
  BY <1>1, <1>4 DEF Sound, Op, ServiceSteps
<1>6. ASSUME op' = [op EXCEPT ![c].value = config[op[c].dir]]
      PROVE  GoesOn(c, [op[c] EXCEPT !.at = "patch", !.value = config[op[c].dir]])
  <2> DEFINE w == [op[c] EXCEPT !.at = "patch", !.value = config[op[c].dir]]
  <2>1. w = [op[c] EXCEPT !.value = config[op[c].dir]]
    BY <1>1 DEF Op
  <2>2. op' = [op EXCEPT ![c] = w]
    BY <1>6, <2>1
  <2>3. /\ w \in Op /\ w.kind = op[c].kind /\ w.name = op[c].name
        /\ w.withData = op[c].withData /\ w.dir = op[c].dir
    BY <1>1, <1>2, <1>4 DEF Op
  <2> HIDE DEF w
  <2>4. Sound(w)
    BY <1>5 DEF w
  <2>5. GoesOn(c, w)
    BY <1>1, <2>2, <2>3, <2>4 DEF GoesOn
  <2>q. QED
    BY <2>5 DEF w
<1>q. QED
  BY <1>1, <1>2, <1>6, FinishGoesOn DEF ReadConfig, Dir

LEMMA PatchConfigGoesOn ==
    ASSUME TypeInv, NEW c \in Clients, PatchConfig(c)
    PROVE  /\ op[c] \in Op /\ Sound(op[c]) /\ op[c].at = "patch"
           /\ op[c].kind \in {"update", "edit"}
           /\ GoesOn(c, Idle)
<1>1. op[c] \in Op /\ Sound(op[c]) /\ op[c].at = "patch" /\ op[c] # Idle
  BY Busy DEF PatchConfig, At
<1>q. QED
  BY <1>1, FinishGoesOn DEF PatchConfig, Sound

LEMMA ProgressGoesOn ==
    ASSUME TypeInv, NEW c \in Clients, Progress(c)
    PROVE  \E w \in {Idle} \cup Op : GoesOn(c, w)
<1>1. ASSUME NEW w, GoesOn(c, w) PROVE \E v \in {Idle} \cup Op : GoesOn(c, v)
  BY <1>1 DEF GoesOn
<1>2. CASE WriteKey(c) \/ WriteConfig(c) \/ Register(c) \/ Unregister(c)
  BY <1>1, <1>2, WriteKeyGoesOn, WriteConfigGoesOn, RegisterGoesOn, UnregisterGoesOn
<1>3. CASE CheckRunning(c) \/ Spawn(c) \/ WritePid(c)
  BY <1>1, <1>3, CheckRunningGoesOn, SpawnGoesOn, WritePidGoesOn
<1>4. CASE Kill(c) \/ Unlink(c) \/ StartAgain(c)
  BY <1>1, <1>4, KillGoesOn, UnlinkGoesOn, StartAgainGoesOn
<1>5. CASE RemoveFile(c) \/ RemoveDirectory(c)
  BY <1>1, <1>5, RemoveFileGoesOn, RemoveDirectoryGoesOn
<1>6. CASE ReadConfig(c) \/ PatchConfig(c)
  BY <1>1, <1>6, ReadConfigGoesOn, PatchConfigGoesOn
<1>q. QED
  BY <1>2, <1>3, <1>4, <1>5, <1>6 DEF Progress

-----------------------------------------------------------------------------
(* Types *)

LEMMA InitType == NodeInit => TypeInv
<1> SUFFICES ASSUME NodeInit PROVE TypeInv
  OBVIOUS
<1>1. \A c \in Clients : op[c] = Idle
  BY DEF NodeInit
<1>2. 0 \in 0..MaxKeys /\ 0 \in NodeIds /\ 0 \in 0..MaxOps
  BY NodeAssumption DEF NodeIds
<1>3. /\ cache \in [Clients -> {Unloaded} \cup {Loaded(R) : R \in Entries}]
      /\ rows \in Entries
      /\ nodeKey \in [Dirs -> 0..MaxKeys]
      /\ config \in [Dirs -> NodeIds]
      /\ pidFile \in [Dirs -> [ServiceNames -> {0} \cup Pids]]
      /\ op \in [Clients -> {Idle} \cup Op]
  BY <1>2 DEF NodeInit, NoNodes, Entries
<1>4. procs \in [Pids -> {Dead, Foreign} \cup ServiceProcess]
  BY DEF NodeInit
<1>q. QED
  BY <1>1, <1>2, <1>3, <1>4 DEF NodeInit, TypeInv, NodeTypeOK, OpOK

(* The operations keep their type when one goes on. *)
OpType ==
    /\ op \in [Clients -> {Idle} \cup Op]
    /\ \A c \in Clients : OpOK(op[c])
    /\ \A c \in Clients :
        op[c] # Idle => (op[c].at \in ServiceSteps <=> op[c].left # <<>>)

LEMMA OpExceptType ==
    ASSUME TypeInv, NEW c \in Clients, NEW w, op' = [op EXCEPT ![c] = w], OpOK(w)
    PROVE  OpType'
<1>1. \A d \in Clients : OpOK(op'[d])
  BY DEF TypeInv, NodeTypeOK
<1>2. op' \in [Clients -> {Idle} \cup Op]
  BY DEF TypeInv, NodeTypeOK, OpOK
<1>q. QED
  BY <1>1, <1>2 DEF OpType, OpOK, Sound

LEMMA GoesOnType ==
    ASSUME TypeInv, NEW c \in Clients, NEW w, GoesOn(c, w)
    PROVE  OpType'
  BY OpExceptType DEF GoesOn, OpOK

LEMMA LoadType ==
    ASSUME TypeInv, NEW c \in Clients, Load(c)
    PROVE  cache' \in [Clients -> {Unloaded} \cup {Loaded(R) : R \in Entries}]
  BY KnownType DEF Load, loadIfNeeded, TypeInv, NodeTypeOK

LEMMA PersistType ==
    ASSUME TypeInv, NEW c \in Clients, NEW R \in Entries, persist(c, R)
    PROVE  /\ rows' \in Entries
           /\ cache' \in [Clients -> {Unloaded} \cup {Loaded(E) : E \in Entries}]
  BY DEF persist, TypeInv, NodeTypeOK

(* An entry is changed. *)
LEMMA EntryType ==
    ASSUME NEW R \in Entries, NEW n \in Names, NEW d \in Dirs \cup {NoDir}
    PROVE  /\ [R EXCEPT ![n] = d] \in Entries
           /\ [R EXCEPT ![n] = d][n] = d
           /\ \A m \in Names \ {n} : [R EXCEPT ![n] = d][m] = R[m]
  BY DEF Entries

(* The processes are of the types they are, whatever happens to one. *)
ProcsType == procs \in [Pids -> {Dead, Foreign} \cup ServiceProcess]

LEMMA EndingType ==
    ASSUME ProcsType, NEW p \in Pids, procs[p] \notin {Dead, Foreign}
    PROVE  /\ [procs[p] EXCEPT !.ending = TRUE] \in ServiceProcess
           /\ [procs[p] EXCEPT !.ending = TRUE].ending = TRUE
<1>1. procs[p] \in ServiceProcess
  BY DEF ProcsType
<1>q. QED
  BY <1>1 DEF ServiceProcess

LEMMA NodeStepType ==
    ASSUME TypeInv, NEW c \in Clients, Progress(c)
    PROVE  TypeInv'
<1> USE DEF registry, files, Keeps
<1>0. NodeTypeOK
  BY DEF TypeInv
<1>a. ASSUME OpType', UNCHANGED <<registry, procs, keys>>, dirs' \subseteq Dirs,
             nodeKey' \in [Dirs -> 0..MaxKeys], config' \in [Dirs -> NodeIds],
             pidFile' \in [Dirs -> [ServiceNames -> {0} \cup Pids]],
             UNCHANGED <<ops, raced, mixed>>
      PROVE  TypeInv'
  BY <1>0, <1>a DEF TypeInv, NodeTypeOK, OpType
<1>1. CASE WriteKey(c)
  <2>1. /\ op[c] \in Op /\ OpType' /\ keys + 1 \in 0..MaxKeys
    BY <1>1, WriteKeyGoesOn, GoesOnType
  <2>2. op[c].dir \in Dirs
    BY <2>1 DEF Op
  <2>3. nodeKey' \in [Dirs -> 0..MaxKeys] /\ dirs' \subseteq Dirs /\ keys' \in 0..MaxKeys
    BY <1>0, <1>1, <2>1, <2>2 DEF WriteKey, NodeTypeOK, Dir
  <2>4. UNCHANGED <<sqlite, rows, cache, config, pidFile, procs, ops, raced, mixed>>
    BY <1>1 DEF WriteKey
  <2>q. QED
    BY <1>0, <2>1, <2>3, <2>4 DEF TypeInv, NodeTypeOK, OpType
<1>2. CASE WriteConfig(c)
  <2>1. op[c] \in Op /\ OpType' /\ op[c].value \in 0..MaxKeys
    BY <1>2, WriteConfigGoesOn, GoesOnType DEF Sound
  <2>2. config' \in [Dirs -> NodeIds]
    <3>1. config \in [Dirs -> NodeIds] /\ op[c].dir \in Dirs /\ op[c].value \in NodeIds
      BY <1>0, <2>1 DEF NodeTypeOK, Op, NodeIds
    <3>2. config' \in {config, [config EXCEPT ![op[c].dir] = op[c].value]}
      BY <1>2 DEF WriteConfig, Dir
    <3>q. QED
      BY <3>1, <3>2
  <2>q. QED
    BY <1>0, <1>2, <1>a, <2>1, <2>2 DEF WriteConfig, NodeTypeOK
<1>3. CASE Register(c)
  <2>1. op[c] \in Op /\ OpType'
    BY <1>3, RegisterGoesOn, GoesOnType
  <2>2. op[c].name \in Names /\ op[c].dir \in Dirs
    BY <2>1 DEF Op
  <2>e. /\ [Known(c) EXCEPT ![op[c].name] = op[c].dir] \in Entries
        /\ [rows EXCEPT ![op[c].name] = op[c].dir] \in Entries
    BY <1>0, <2>2, KnownType, EntryType DEF NodeTypeOK
  <2>3. /\ rows' \in Entries
        /\ cache' \in [Clients -> {Unloaded} \cup {Loaded(R) : R \in Entries}]
    BY <1>0, <1>3, <2>e, PersistType DEF Register, upsert, NodeTypeOK, Dir
  <2>q. QED
    BY <1>0, <1>3, <2>1, <2>2, <2>3 DEF Register, TypeInv, NodeTypeOK, OpType, Dir
<1>4. CASE CheckRunning(c)
  <2>1. op[c] \in Op /\ OpType'
    BY <1>4, CheckRunningGoesOn, GoesOnType
  <2>2. dirs' \subseteq Dirs
    BY <1>0, <1>4, <2>1 DEF CheckRunning, NodeTypeOK, Op, Dir
  <2>q. QED
    BY <1>0, <1>4, <1>a, <2>1, <2>2 DEF CheckRunning, NodeTypeOK
<1>5. CASE Spawn(c)
  <2>1. op[c] \in Op /\ OpType' /\ op[c].left # <<>>
    BY <1>5, SpawnGoesOn, GoesOnType DEF Sound, ServiceSteps
  <2>2. op[c].dir \in Dirs /\ Service(c) \in ServiceNames
    BY <2>1, ServicesLeft DEF Op, Service
  <2>3. ProcsType'
    <3>1. CASE UNCHANGED procs
      BY <1>0, <3>1 DEF NodeTypeOK, ProcsType
    <3>2. ASSUME NEW p \in Pids,
                 procs' = [procs EXCEPT ![p] = Process(op[c].dir, Service(c), FALSE)]
          PROVE  ProcsType'
      <4>1. Process(op[c].dir, Service(c), FALSE) \in ServiceProcess
        BY <2>2 DEF Process, ServiceProcess
      <4>q. QED
        BY <1>0, <3>2, <4>1 DEF NodeTypeOK, ProcsType
    <3>q. QED
      BY <1>5, <3>1, <3>2, SpawnGoesOn
  <2>q. QED
    BY <1>0, <1>5, <2>1, <2>3 DEF Spawn, TypeInv, NodeTypeOK, OpType, ProcsType
<1>6. CASE WritePid(c)
  <2>1. op[c] \in Op /\ OpType' /\ op[c].left # <<>> /\ op[c].value \in Pids
    BY <1>6, WritePidGoesOn, GoesOnType DEF Sound, ServiceSteps
  <2>2. op[c].dir \in Dirs /\ Service(c) \in ServiceNames
    BY <2>1, ServicesLeft DEF Op, Service
  <2>3. pidFile' \in [Dirs -> [ServiceNames -> {0} \cup Pids]]
    <3>1. CASE op[c].dir \in dirs
      <4>1. pidFile' = [pidFile EXCEPT ![op[c].dir][Service(c)] = op[c].value]
        BY <1>6, <3>1, WritePidGoesOn
      <4>2. pidFile \in [Dirs -> [ServiceNames -> {0} \cup Pids]]
        BY <1>0 DEF NodeTypeOK
      <4>q. QED
        BY <2>1, <2>2, <4>1, <4>2
    <3>2. CASE op[c].dir \notin dirs
      BY <1>0, <1>6, <3>2, WritePidGoesOn DEF NodeTypeOK
    <3>q. QED
      BY <3>1, <3>2
  <2>q. QED
    BY <1>0, <1>6, <1>a, <2>1, <2>3 DEF WritePid, NodeTypeOK
<1>7. CASE Kill(c)
  <2>1. op[c] \in Op /\ OpType' /\ op[c].left # <<>>
    BY <1>7, KillGoesOn, GoesOnType DEF Sound, ServiceSteps
  <2>2. op[c].dir \in Dirs /\ Service(c) \in ServiceNames
    BY <2>1, ServicesLeft DEF Op, Service
  <2> DEFINE pid == pidFile[op[c].dir][Service(c)]
  <2>3. pid \in {0} \cup Pids
    BY <1>0, <2>2 DEF NodeTypeOK
  <2>4. ProcsType'
    <3>1. CASE UNCHANGED procs
      BY <1>0, <3>1 DEF NodeTypeOK, ProcsType
    <3>2. CASE isRunning(pid) /\
               procs' = [procs EXCEPT ![pid] = IF @ = Foreign THEN Dead
                                               ELSE [@ EXCEPT !.ending = TRUE]]
      <4>1. pid \in Pids /\ procs[pid] # Dead /\ ProcsType
        BY <1>0, <2>3, <3>2 DEF isRunning, NodeTypeOK, ProcsType
      <4> HIDE DEF pid
      <4>2. CASE procs[pid] = Foreign
        BY <3>2, <4>1, <4>2 DEF ProcsType
      <4>3. CASE procs[pid] # Foreign
        <5>1. [procs[pid] EXCEPT !.ending = TRUE] \in ServiceProcess
          BY <4>1, <4>3, EndingType
        <5>2. procs' = [procs EXCEPT ![pid] = [procs[pid] EXCEPT !.ending = TRUE]]
          BY <3>2, <4>3
        <5>q. QED
          BY <4>1, <5>1, <5>2 DEF ProcsType
      <4>q. QED
        BY <4>2, <4>3
    <3>q. QED
      BY <1>7, <3>1, <3>2, KillGoesOn
  <2>q. QED
    BY <1>0, <1>7, <2>1, <2>4 DEF Kill, TypeInv, NodeTypeOK, OpType, ProcsType
<1>8. CASE Unlink(c)
  <2>1. op[c] \in Op /\ OpType' /\ op[c].left # <<>>
    BY <1>8, UnlinkGoesOn, GoesOnType DEF Sound, ServiceSteps
  <2>2. op[c].dir \in Dirs /\ Service(c) \in ServiceNames
    BY <2>1, ServicesLeft DEF Op, Service
  <2>3. pidFile' \in [Dirs -> [ServiceNames -> {0} \cup Pids]]
    BY <1>0, <1>8, <2>2 DEF Unlink, NodeTypeOK, Dir
  <2>q. QED
    BY <1>0, <1>8, <1>a, <2>1, <2>3 DEF Unlink, NodeTypeOK
<1>9. CASE StartAgain(c)
  <2>1. OpType' /\ raced' \subseteq Dirs
    BY <1>9, StartAgainGoesOn, GoesOnType
  <2>2. cache' \in [Clients -> {Unloaded} \cup {Loaded(R) : R \in Entries}]
    BY <1>9, LoadType DEF StartAgain
  <2>q. QED
    BY <1>0, <1>9, <2>1, <2>2 DEF StartAgain, TypeInv, NodeTypeOK, OpType
<1>10. CASE RemoveFile(c)
  <2>1. op[c] \in Op /\ OpType'
    BY <1>10, RemoveFileGoesOn, GoesOnType
  <2>2. op[c].dir \in Dirs /\ 0 \in 0..MaxKeys /\ 0 \in NodeIds
    BY <2>1, NodeAssumption DEF Op, NodeIds
  <2>3. nodeKey' \in [Dirs -> 0..MaxKeys] /\ config' \in [Dirs -> NodeIds]
    BY <1>0, <1>10, <2>2 DEF RemoveFile, NodeTypeOK, Dir
  <2>4. pidFile' \in [Dirs -> [ServiceNames -> {0} \cup Pids]]
    <3>1. CASE pidFile' = pidFile
      BY <1>0, <3>1 DEF NodeTypeOK
    <3>2. ASSUME NEW s \in ServiceNames, pidFile' = [pidFile EXCEPT ![op[c].dir][s] = 0]
          PROVE  pidFile' \in [Dirs -> [ServiceNames -> {0} \cup Pids]]
      BY <1>0, <2>2, <3>2 DEF NodeTypeOK
    <3>q. QED
      BY <1>10, <3>1, <3>2 DEF RemoveFile, Dir
  <2>q. QED
    BY <1>0, <1>10, <1>a, <2>1, <2>3, <2>4 DEF RemoveFile, NodeTypeOK
<1>14. CASE RemoveDirectory(c)
  <2>1. OpType'
    BY <1>14, RemoveDirectoryGoesOn, GoesOnType
  <2>2. dirs' \subseteq Dirs
    BY <1>0, <1>14 DEF RemoveDirectory, NodeTypeOK
  <2>q. QED
    BY <1>0, <1>14, <1>a, <2>1, <2>2 DEF RemoveDirectory, NodeTypeOK
<1>11. CASE Unregister(c)
  <2>1. op[c] \in Op /\ OpType'
    BY <1>11, UnregisterGoesOn, GoesOnType
  <2>2. /\ [Known(c) EXCEPT ![op[c].name] = NoDir] \in Entries
        /\ [rows EXCEPT ![op[c].name] = NoDir] \in Entries
    BY <1>0, <2>1, KnownType, EntryType DEF NodeTypeOK, Op
  <2>3. /\ rows' \in Entries
        /\ cache' \in [Clients -> {Unloaded} \cup {Loaded(R) : R \in Entries}]
    <3>1. CASE sqlite
      BY <1>0, <1>11, <2>2, <3>1 DEF Unregister, delete, NodeTypeOK
    <3>2. CASE ~sqlite
      BY <1>0, <1>11, <2>2, <3>2, PersistType DEF Unregister, NodeTypeOK
    <3>q. QED
      BY <3>1, <3>2
  <2>q. QED
    BY <1>0, <1>11, <2>1, <2>3 DEF Unregister, TypeInv, NodeTypeOK, OpType
<1>12. CASE ReadConfig(c)
  <2>1. OpType'
    BY <1>12, ReadConfigGoesOn, GoesOnType
  <2>q. QED
    BY <1>0, <1>12, <1>a, <2>1 DEF ReadConfig, NodeTypeOK
<1>13. CASE PatchConfig(c)
  <2>1. op[c] \in Op /\ OpType' /\ op[c].value \in NodeIds /\ Custom \in NodeIds
    BY <1>13, PatchConfigGoesOn, GoesOnType DEF Sound, NodeIds
  <2>2. config' \in [Dirs -> NodeIds]
    <3>1. PICK nodeId \in {op[c].value, Custom} :
            \/ config' = config
            \/ config' = [config EXCEPT ![IF op[c].kind = "edit" THEN Dir(c)
                                           ELSE Known(c)[op[c].name]] = nodeId]
      BY <1>13 DEF PatchConfig
    <3>2. nodeId \in NodeIds
      BY <2>1
    <3>q. QED
      BY <1>0, <3>1, <3>2 DEF NodeTypeOK
  <2>q. QED
    BY <1>0, <1>13, <1>a, <2>1, <2>2 DEF PatchConfig, NodeTypeOK
<1>q. QED
  BY <1>1, <1>2, <1>3, <1>4, <1>5, <1>6, <1>7, <1>8, <1>9, <1>10, <1>11, <1>12, <1>13,
     <1>14
  DEF Progress

(* Cut off, an operation is over. *)
LEMMA DieFacts ==
    ASSUME TypeInv, NEW c \in Clients, Die(c)
    PROVE  /\ op' = [op EXCEPT ![c] = Idle]
           /\ op[c] # Idle => op[c].dir \in Dirs
           /\ raced \subseteq raced' /\ mixed \subseteq mixed'
           /\ raced' \subseteq Dirs /\ mixed' \subseteq Dirs
           /\ rows' \in {rows, NoNodes} /\ (sqlite => rows' = rows)
           /\ nodeKey' \in [Dirs -> 0..MaxKeys] /\ config' \in [Dirs -> NodeIds]
           /\ \A d \in Dirs \ mixed' : nodeKey'[d] = nodeKey[d] /\ config'[d] = config[d]
           /\ op[c] # Idle /\ op[c].at = "write" => op[c].dir \in raced'
           /\ op[c] # Idle /\ op[c].kind \in OnFiles => op[c].dir \in mixed'
<1>0. NodeTypeOK /\ 0 \in 0..MaxKeys /\ 0 \in NodeIds
  BY NodeAssumption DEF TypeInv, NodeIds
<1>1. CASE op[c] = Idle
  BY <1>0, <1>1 DEF Die, Finish, NodeTypeOK
<1>2. CASE op[c] # Idle
  <2>1. op[c] \in Op /\ Sound(op[c]) /\ op[c].dir \in Dirs
    BY <1>2 DEF TypeInv, OpOK, Op
  <2>2. /\ op' = [op EXCEPT ![c] = Idle]
        /\ rows' \in {rows, NoNodes} /\ (sqlite => rows' = rows)
    BY <1>2 DEF Die, Finish
  <2>3. /\ raced \subseteq raced' /\ mixed \subseteq mixed'
        /\ raced' \subseteq Dirs /\ mixed' \subseteq Dirs
        /\ op[c].at = "write" => op[c].dir \in raced'
        /\ op[c].kind \in OnFiles => op[c].dir \in mixed'
    BY <1>0, <1>2, <2>1 DEF Die, Dir, NodeTypeOK
  <2>4. op[c].at \in {"key", "config", "patch"} => op[c].dir \in mixed'
    BY <2>1, <2>3 DEF Sound, OnFiles
  <2>5. /\ \/ nodeKey' = nodeKey
           \/ op[c].dir \in mixed' /\ nodeKey' = [nodeKey EXCEPT ![op[c].dir] = 0]
        /\ \/ config' = config
           \/ op[c].dir \in mixed' /\ config' = [config EXCEPT ![op[c].dir] = 0]
    BY <1>2, <2>4 DEF Die, Torn, At, Dir
  <2>6. nodeKey' \in [Dirs -> 0..MaxKeys] /\ config' \in [Dirs -> NodeIds]
    BY <1>0, <2>5 DEF NodeTypeOK
  <2>7. \A d \in Dirs \ mixed' : nodeKey'[d] = nodeKey[d] /\ config'[d] = config[d]
    BY <1>0, <2>5 DEF NodeTypeOK
  <2>q. QED
    BY <2>1, <2>2, <2>3, <2>6, <2>7
<1>q. QED
  BY <1>1, <1>2

LEMMA FreshHistory ==
    ASSUME TypeInv, NEW c \in Clients, NEW n \in Names, NEW o \in Op, Fresh(c, n, o)
    PROVE  /\ raced \subseteq raced' /\ mixed \subseteq mixed'
           /\ raced' \subseteq Dirs /\ mixed' \subseteq Dirs
<1>1. o.dir \in Dirs /\ raced \subseteq Dirs /\ mixed \subseteq Dirs
  BY DEF Op, TypeInv, NodeTypeOK
<1>2. \A x \in Mingled(c, o.kind, n, o.dir) : x.dir \in Dirs
  BY DEF Mingled, Others, Op, TypeInv, OpOK
<1>3. raced \subseteq raced' /\ raced' \subseteq Dirs
  BY <1>1 DEF Fresh
<1>4. mixed \subseteq mixed' /\ mixed' \subseteq Dirs
  BY <1>1, <1>2 DEF Fresh
<1>q. QED
  BY <1>3, <1>4

LEMMA MovesType ==
    ASSUME TypeInv, NodeMoves
    PROVE  TypeInv'
<1> USE DEF registry, files
<1>0. NodeTypeOK
  BY DEF TypeInv
<1>1. ASSUME NEW c \in Clients, NEW n \in Names, Begins(c, n) PROVE TypeInv'
  <2>1. PICK o \in Op : Fresh(c, n, o)
    BY <1>1, BeginFresh
  <2>2. OpType'
    BY <2>1, OpExceptType DEF Fresh, OpOK
  <2>3. cache' \in [Clients -> {Unloaded} \cup {Loaded(R) : R \in Entries}]
    BY <2>1, LoadType DEF Fresh
  <2>4. raced' \subseteq Dirs /\ mixed' \subseteq Dirs
    BY <2>1, FreshHistory
  <2>q. QED
    BY <1>0, <2>1, <2>2, <2>3, <2>4 DEF Fresh, TypeInv, NodeTypeOK, OpType
<1>2. ASSUME NEW c \in Clients, Progress(c) PROVE TypeInv'
  BY <1>2, NodeStepType
<1>3. ASSUME NEW c \in Clients, Die(c) PROVE TypeInv'
  <2>1. OpType'
    BY <1>3, DieFacts, OpExceptType DEF OpOK
  <2>2. rows' \in Entries
    BY <1>0, <1>3, DieFacts DEF NodeTypeOK, NoNodes, Entries
  <2>3. /\ raced' \subseteq Dirs /\ mixed' \subseteq Dirs
        /\ nodeKey' \in [Dirs -> 0..MaxKeys] /\ config' \in [Dirs -> NodeIds]
    BY <1>3, DieFacts
  <2>4. cache' \in [Clients -> {Unloaded} \cup {Loaded(R) : R \in Entries}]
    BY <1>0, <1>3 DEF Die, NodeTypeOK
  <2>5. UNCHANGED <<sqlite, dirs, pidFile, procs, keys, ops>>
    BY <1>3 DEF Die
  <2>q. QED
    BY <1>0, <2>1, <2>2, <2>3, <2>4, <2>5 DEF TypeInv, NodeTypeOK, OpType
<1>4. ASSUME NEW c \in Clients, Lists(c) PROVE TypeInv'
  BY <1>0, <1>4, LoadType DEF Lists, TypeInv, NodeTypeOK
<1>5. ASSUME NEW p \in Pids, Exit(p) \/ Reuse(p) PROVE TypeInv'
  <2>1. ProcsType'
    BY <1>0, <1>5 DEF Exit, Reuse, NodeTypeOK, ProcsType
  <2>q. QED
    BY <1>0, <1>5, <2>1 DEF Exit, Reuse, Keeps, TypeInv, NodeTypeOK, ProcsType
<1>6. CASE UNCHANGED nvars
  BY <1>0, <1>6 DEF nvars, TypeInv, NodeTypeOK
<1>q. QED
  BY <1>1, <1>2, <1>3, <1>4, <1>5, <1>6 DEF NodeMoves

-----------------------------------------------------------------------------
(* Processes and their pid files *)

Working(c, d, kinds) == op[c] # Idle /\ op[c].dir = d /\ op[c].kind \in kinds

(* An installation and another operation on files have the name or the     *)
(* directory in common.                                                    *)
Meets(c, e) ==
    /\ op[c] # Idle /\ op[c].kind = "install"
    /\ op[e] # Idle /\ op[e].kind \in OnFiles
    /\ op[c].name = op[e].name \/ op[c].dir = op[e].dir

(* Operations that are not noted as met do not meet, but for stops and     *)
(* removals in one directory, and for changes of files without an          *)
(* installation.                                                           *)
Apart ==
    \A c \in Clients : \A e \in Clients \ {c} :
        /\ \A d \in Dirs \ raced :
            Working(c, d, OnProcesses) /\ Working(e, d, OnProcesses)
                => op[c].kind \in {"stop", "remove"}
        /\ Meets(c, e) => op[c].dir \in mixed /\ op[e].dir \in mixed

(* Process p of service s of node d is spawned, its pid not yet written. *)
Starting(c, d, s, p) ==
    /\ op[c] # Idle
    /\ op[c].dir = d
    /\ op[c].at = "write"
    /\ Service(c) = s
    /\ op[c].value = p

TrackedAt(d) ==
    \A s \in ServiceNames, p \in Pids :
        Alive(p, d, s) => pidFile[d][s] = p \/ \E c \in Clients : Starting(c, d, s, p)

(* What an operation on processes relies on at its step: nothing of the    *)
(* service runs when it is spawned, nothing but what was spawned when its  *)
(* pid is written, nothing that has already been stopped when the data and *)
(* the entry are deleted.                                                  *)
ReliesOn(c) ==
    LET d == op[c].dir IN
    /\ op[c].at \in {"spawn", "unlink"} => \A p \in Pids : ~Alive(p, d, Service(c))
    /\ op[c].at = "write" =>
        d \in dirs /\ \A p \in Pids : Alive(p, d, Service(c)) => p = op[c].value
    /\ op[c].at \in {"kill", "unlink", "rm"} \/ (op[c].at = "row" /\ op[c].kind = "remove") =>
        \A s \in ServiceNames, p \in Pids :
            Alive(p, d, s) => \E i \in DOMAIN op[c].left : op[c].left[i] = s

ProcessInv ==
    /\ \A d \in Dirs \ raced : TrackedAt(d)
    /\ \A c \in Clients : op[c] # Idle /\ op[c].dir \notin raced => ReliesOn(c)

LEMMA ApartKept ==
    ASSUME Apart, raced \subseteq raced', mixed \subseteq mixed',
           \A e \in Clients : op'[e] # Idle =>
                /\ op[e] # Idle /\ op'[e].name = op[e].name /\ op'[e].kind = op[e].kind
                /\ op'[e].dir = op[e].dir \/ (op[e].kind = "restart" /\ op'[e].dir \in raced')
    PROVE  Apart'
<1> SUFFICES ASSUME NEW c \in Clients, NEW e \in Clients \ {c}
             PROVE  /\ \A d \in Dirs \ raced' :
                        Working(c, d, OnProcesses)' /\ Working(e, d, OnProcesses)'
                          => op'[c].kind \in {"stop", "remove"}
                    /\ Meets(c, e)' => op'[c].dir \in mixed' /\ op'[e].dir \in mixed'
  BY DEF Apart
<1>1. ASSUME NEW d \in Dirs \ raced', NEW a \in Clients, Working(a, d, OnProcesses)'
      PROVE  Working(a, d, OnProcesses) /\ op'[a].kind = op[a].kind
  BY <1>1 DEF Working, OnProcesses
<1>2. ASSUME NEW d \in Dirs \ raced',
             Working(c, d, OnProcesses)', Working(e, d, OnProcesses)'
      PROVE  op'[c].kind \in {"stop", "remove"}
  BY <1>1, <1>2 DEF Apart
<1>3. ASSUME Meets(c, e)' PROVE op'[c].dir \in mixed' /\ op'[e].dir \in mixed'
  <2>1. /\ op[c] # Idle /\ op[c].kind = "install" /\ op'[c].name = op[c].name
        /\ op[e] # Idle /\ op[e].kind \in OnFiles /\ op'[e].name = op[e].name
    BY <1>3 DEF Meets, OnFiles
  <2>2. op'[c].dir = op[c].dir /\ op'[e].dir = op[e].dir
    BY <1>3, <2>1 DEF Meets, OnFiles
  <2>3. Meets(c, e)
    BY <1>3, <2>1, <2>2 DEF Meets
  <2>q. QED
    BY <2>2, <2>3 DEF Apart
<1>q. QED
  BY <1>2, <1>3

(* An operation that begins is noted where it meets another one. *)
LEMMA FreshApart ==
    ASSUME TypeInv, Apart, NEW c \in Clients, NEW n \in Names, NEW o \in Op, Fresh(c, n, o)
    PROVE  Apart'
<1>0. /\ op'[c] = o /\ o # Idle /\ o.name = n
      /\ \A e \in Clients \ {c} : op'[e] = op[e]
      /\ op[c] = Idle
      /\ raced \subseteq raced' /\ mixed \subseteq mixed'
  BY IdleIsNoOp, FreshHistory DEF Fresh, TypeInv, NodeTypeOK
<1>1. ASSUME NEW e \in Clients \ {c}, op[e] # Idle PROVE op[e] \in Others(c)
  BY <1>1 DEF Others
<1>2. ASSUME NEW e \in Clients \ {c}, NEW d \in Dirs \ raced', o.dir = d,
             o.kind \in OnProcesses, Working(e, d, OnProcesses)
      PROVE  o.kind \in {"stop", "remove"} /\ op[e].kind \in {"stop", "remove"}
  <2>1. Rivals(c, o.kind, d) = {}
    BY <1>2 DEF Fresh
  <2>2. op[e] \in Others(c) /\ op[e].kind \in OnProcesses /\ op[e].dir = d
    BY <1>1, <1>2 DEF Working
  <2>3. {o.kind, op[e].kind} \cap {"start", "restart"} = {}
    BY <1>2, <2>1, <2>2 DEF Rivals
  <2>q. QED
    BY <1>2, <2>2, <2>3 DEF OnProcesses
<1>3. ASSUME NEW e \in Clients \ {c}, op[e] # Idle, {o.kind, op[e].kind} \subseteq OnFiles,
             "install" \in {o.kind, op[e].kind}, o.name = op[e].name \/ o.dir = op[e].dir
      PROVE  o.dir \in mixed' /\ op[e].dir \in mixed'
  <2>1. op[e] \in Mingled(c, o.kind, n, o.dir)
    BY <1>0, <1>1, <1>3 DEF Mingled
  <2>q. QED
    BY <2>1 DEF Fresh
<1>4. SUFFICES ASSUME NEW a \in Clients, NEW b \in Clients \ {a}
             PROVE  /\ \A d \in Dirs \ raced' :
                        Working(a, d, OnProcesses)' /\ Working(b, d, OnProcesses)'
                          => op'[a].kind \in {"stop", "remove"}
                    /\ Meets(a, b)' => op'[a].dir \in mixed' /\ op'[b].dir \in mixed'
  BY DEF Apart
<1>5. CASE a # c /\ b # c
  BY <1>0, <1>5 DEF Apart, Working, Meets
<1>6. CASE a = c
  <2>1. op'[a] = o /\ op'[b] = op[b]
    BY <1>0, <1>6
  <2>2. \A d \in Dirs \ raced' :
          Working(a, d, OnProcesses)' /\ Working(b, d, OnProcesses)'
            => op'[a].kind \in {"stop", "remove"}
    BY <1>2, <1>6, <2>1 DEF Working
  <2>3. Meets(a, b)' => op'[a].dir \in mixed' /\ op'[b].dir \in mixed'
    BY <1>3, <1>6, <2>1 DEF Meets, OnFiles
  <2>q. QED
    BY <2>2, <2>3
<1>7. CASE b = c
  <2>1. op'[b] = o /\ op'[a] = op[a]
    BY <1>0, <1>7
  <2>2. \A d \in Dirs \ raced' :
          Working(a, d, OnProcesses)' /\ Working(b, d, OnProcesses)'
            => op'[a].kind \in {"stop", "remove"}
    BY <1>2, <1>7, <2>1 DEF Working
  <2>3. Meets(a, b)' => op'[a].dir \in mixed' /\ op'[b].dir \in mixed'
    BY <1>3, <1>7, <2>1 DEF Meets, OnFiles
  <2>q. QED
    BY <2>2, <2>3
<1>q. QED
  BY <1>5, <1>6, <1>7

LEMMA MovesApart ==
    ASSUME TypeInv, Apart, NodeMoves
    PROVE  Apart'
<1>1. ASSUME NEW c \in Clients, NEW n \in Names, Begins(c, n) PROVE Apart'
  BY <1>1, BeginFresh, FreshApart
<1>2. ASSUME NEW c \in Clients, Progress(c) PROVE Apart'
  <2>1. PICK w \in {Idle} \cup Op : GoesOn(c, w)
    BY <1>2, ProgressGoesOn
  <2>2. \A e \in Clients : op'[e] # Idle =>
          /\ op[e] # Idle /\ op'[e].name = op[e].name /\ op'[e].kind = op[e].kind
          /\ op'[e].dir = op[e].dir \/ (op[e].kind = "restart" /\ op'[e].dir \in raced')
    BY <2>1 DEF GoesOn, TypeInv, NodeTypeOK
  <2>3. raced \subseteq raced' /\ mixed \subseteq mixed'
    BY <1>2, StartAgainGoesOn DEF Progress, WriteKey, WriteConfig, Register, CheckRunning, Spawn,
       WritePid, Kill, Unlink, StartAgain, RemoveFile, RemoveDirectory, Unregister, ReadConfig,
       PatchConfig, Keeps
  <2>q. QED
    BY <2>2, <2>3, ApartKept
<1>3. ASSUME NEW c \in Clients, Die(c) PROVE Apart'
  <2>1. \A e \in Clients : op'[e] # Idle => op[e] # Idle /\ op'[e] = op[e]
    BY <1>3, DieFacts DEF TypeInv, NodeTypeOK
  <2>q. QED
    BY <1>3, <2>1, DieFacts, ApartKept
<1>4. CASE UNCHANGED <<op, raced, mixed>>
  BY <1>4, ApartKept
<1>5. ASSUME NEW c \in Clients, Lists(c) PROVE Apart'
  BY <1>4, <1>5 DEF Lists
<1>6. ASSUME NEW p \in Pids, Exit(p) \/ Reuse(p) PROVE Apart'
  BY <1>4, <1>6 DEF Exit, Reuse, Keeps
<1>7. CASE UNCHANGED nvars
  BY <1>4, <1>7 DEF nvars
<1>q. QED
  BY <1>1, <1>2, <1>3, <1>5, <1>6, <1>7 DEF NodeMoves

(* What is left of the services when the first of them is done. *)
LEMMA LeftAfter ==
    ASSUME NEW left \in Seq(ServiceNames), left # <<>>,
           NEW s, s # Head(left), \E i \in DOMAIN left : left[i] = s
    PROVE  \E i \in DOMAIN Tail(left) : Tail(left)[i] = s
<1>1. PICK i \in DOMAIN left : left[i] = s
  OBVIOUS
<1>2. /\ DOMAIN left = 1..Len(left) /\ Len(left) \in Nat
      /\ Tail(left) \in Seq(ServiceNames)
      /\ Len(Tail(left)) = Len(left) - 1
      /\ \A j \in 1..Len(Tail(left)) : Tail(left)[j] = left[j + 1]
  BY HeadTailProperties, LenProperties
<1>3. i # 1
  BY <1>1 DEF Head
<1>4. i - 1 \in 1..Len(Tail(left)) /\ (i - 1) + 1 = i
  BY <1>2, <1>3
<1>5. Tail(left)[i - 1] = s
  BY <1>1, <1>2, <1>4
<1>6. DOMAIN Tail(left) = 1..Len(Tail(left))
  BY <1>2
<1>q. QED
  BY <1>4, <1>5, <1>6

(* Of the other operations on its node, none starts a service while one on *)
(* processes is under way, and none is on processes while one starts one.  *)
LEMMA NoOtherStarter ==
    ASSUME TypeInv, Apart, NEW c \in Clients, op[c] # Idle, op[c].dir \notin raced,
           op[c].kind \in OnProcesses, NEW e \in Clients \ {c}, NEW s, NEW p
    PROVE  ~Starting(e, op[c].dir, s, p)
<1> SUFFICES ASSUME Starting(e, op[c].dir, s, p) PROVE FALSE
  OBVIOUS
<1>1. op[e] # Idle /\ op[e].at = "write" /\ op[e].dir = op[c].dir
  BY DEF Starting
<1>2. op[e].kind \in {"start", "restart"}
  BY <1>1 DEF TypeInv, OpOK, Sound
<1>3. op[c].dir \in Dirs
  BY DEF TypeInv, OpOK, Op
<1>q. QED
  BY <1>1, <1>2, <1>3 DEF Apart, Working, OnProcesses

LEMMA StarterAlone ==
    ASSUME TypeInv, Apart, NEW c \in Clients, op[c] # Idle, op[c].dir \notin raced,
           op[c].kind \in {"start", "restart"}, NEW e \in Clients \ {c},
           op[e] # Idle, op[e].dir = op[c].dir
    PROVE  op[e].kind \notin OnProcesses
<1>1. op[c].dir \in Dirs
  BY DEF TypeInv, OpOK, Op
<1>q. QED
  BY <1>1 DEF Apart, Working, OnProcesses

(* Only operations on processes rely on any. *)
LEMMA OtherwiseRelies ==
    ASSUME NEW c, op[c].at \notin {"spawn", "write", "kill", "unlink", "rm", "row"}
    PROVE  ReliesOn(c)
  BY DEF ReliesOn

LEMMA OnProcessesAt ==
    ASSUME TypeInv, NEW c \in Clients, op[c] # Idle,
           op[c].at \in {"read", "spawn", "write", "kill", "unlink", "rm"}
    PROVE  op[c].kind \in OnProcesses
  BY DEF TypeInv, OpOK, Sound, OnProcesses

(* An operation relies on what it did as long as nothing new runs on its   *)
(* node and its directory stays.                                           *)
LEMMA RelianceKept ==
    ASSUME NEW e, op'[e] = op[e], ReliesOn(e),
           \A p \in Pids : \A s : Alive(p, op[e].dir, s)' => Alive(p, op[e].dir, s),
           op[e].at = "write" => (op[e].dir \in dirs => op[e].dir \in dirs')
    PROVE  ReliesOn(e)'
<1>1. Service(e)' = Service(e)
  BY DEF Service
<1> DEFINE d == op[e].dir
<1>2. d' = d
  OBVIOUS
<1>3. \A p \in Pids : \A s : Alive(p, d, s)' => Alive(p, d, s)
  OBVIOUS
<1> HIDE DEF d
<1>4. op[e].at \in {"spawn", "unlink"} => \A p \in Pids : ~Alive(p, d, Service(e))'
  BY <1>1, <1>2, <1>3 DEF ReliesOn, d, Alive
<1>q. QED
  BY <1>1, <1>2, <1>3, <1>4 DEF ReliesOn, d, Alive

LEMMA TrackedKept ==
    ASSUME NEW d, TrackedAt(d), pidFile'[d] = pidFile[d],
           \A p \in Pids, s \in ServiceNames : Alive(p, d, s)' => Alive(p, d, s),
           \A e \in Clients : op[e].at = "write" /\ op[e] # Idle /\ op[e].dir = d => op'[e] = op[e]
    PROVE  TrackedAt(d)'
<1> SUFFICES ASSUME NEW s \in ServiceNames, NEW p \in Pids, Alive(p, d, s)'
             PROVE  pidFile'[d][s] = p \/ \E c \in Clients : Starting(c, d, s, p)'
  BY DEF TrackedAt
<1>1. Alive(p, d, s)
  OBVIOUS
<1>2. CASE pidFile[d][s] = p
  BY <1>2
<1>3. ASSUME NEW c \in Clients, Starting(c, d, s, p) PROVE Starting(c, d, s, p)'
  BY <1>3 DEF Starting, Service
<1>q. QED
  BY <1>1, <1>2, <1>3 DEF TrackedAt

(* A step that neither spawns nor kills nor touches a pid file, and leaves *)
(* its operation where nothing is relied on.                               *)
LEMMA QuietStep ==
    ASSUME TypeInv, ProcessInv, NEW c \in Clients, NEW w, op' = [op EXCEPT ![c] = w],
           UNCHANGED <<pidFile, procs>>, dirs \subseteq dirs', raced \subseteq raced',
           op[c] # Idle /\ op[c].at = "write" => op[c].dir \in raced',
           w # Idle /\ w.dir \notin raced' => ReliesOn(c)'
    PROVE  ProcessInv'
<1>1. op'[c] = w /\ \A e \in Clients \ {c} : op'[e] = op[e]
  BY DEF TypeInv, NodeTypeOK
<1>2. \A p, d, s : Alive(p, d, s)' => Alive(p, d, s)
  BY DEF Alive
<1>3. ASSUME NEW e \in Clients, op'[e] # Idle, op'[e].dir \notin raced' PROVE ReliesOn(e)'
  <2>1. CASE e = c
    BY <1>1, <1>3, <2>1
  <2>2. CASE e # c
    <3>1. op'[e] = op[e] /\ ReliesOn(e)
      BY <1>1, <1>3, <2>2 DEF ProcessInv
    <3>q. QED
      BY <1>2, <3>1, RelianceKept
  <2>q. QED
    BY <2>1, <2>2
<1>4. ASSUME NEW d \in Dirs \ raced' PROVE TrackedAt(d)'
  <2>1. TrackedAt(d)
    BY DEF ProcessInv
  <2>2. \A e \in Clients : op[e].at = "write" /\ op[e] # Idle /\ op[e].dir = d => op'[e] = op[e]
    BY <1>1
  <2>q. QED
    BY <1>2, <2>1, <2>2, TrackedKept
<1>q. QED
  BY <1>3, <1>4 DEF ProcessInv

(* Whatever kills does not disturb what is relied on. *)
LEMMA ProcsStep ==
    ASSUME TypeInv, ProcessInv, NEW p \in Pids, Exit(p) \/ Reuse(p)
    PROVE  ProcessInv'
<1>1. UNCHANGED <<op, pidFile, dirs, raced>>
  BY DEF Exit, Reuse, Keeps, files
<1>2. \A q \in Pids : procs'[q] = procs[q] \/ procs'[q] \in {Dead, Foreign}
  BY DEF Exit, Reuse, TypeInv, NodeTypeOK
<1>3. \A q \in Pids : \A d, s : Alive(q, d, s)' => Alive(q, d, s)
  BY <1>2 DEF Alive, Process, Dead, Foreign
<1>4. ASSUME NEW e \in Clients, op'[e] # Idle, op'[e].dir \notin raced' PROVE ReliesOn(e)'
  <2>1. ReliesOn(e) /\ op'[e] = op[e]
    BY <1>1, <1>4 DEF ProcessInv
  <2>q. QED
    BY <1>1, <1>3, <2>1, RelianceKept
<1>5. ASSUME NEW d \in Dirs \ raced' PROVE TrackedAt(d)'
  <2>1. TrackedAt(d)
    BY <1>1, <1>5 DEF ProcessInv
  <2>q. QED
    BY <1>1, <1>3, <2>1, TrackedKept
<1>q. QED
  BY <1>4, <1>5 DEF ProcessInv

LEMMA CheckRunningStep ==
    ASSUME TypeInv, Apart, ProcessInv, NEW c \in Clients, CheckRunning(c)
    PROVE  ProcessInv'
<1>1. UNCHANGED <<pidFile, procs, raced>> /\ dirs \subseteq dirs'
  BY DEF CheckRunning, Keeps
<1>2. op[c] \in Op /\ Sound(op[c]) /\ op[c].at = "read" /\ op[c] # Idle
  BY CheckRunningGoesOn DEF GoesOn
<1> DEFINE d == op[c].dir
           s == Service(c)
<1>3. d \in Dirs /\ s \in ServiceNames
  BY <1>2, ServicesLeft DEF Op, Sound, ServiceSteps, Service
<1>4. CASE status(d, s).running
  <2> DEFINE w == IF Tail(op[c].left) = <<>> THEN Idle
                  ELSE [op[c] EXCEPT !.at = "read", !.left = Tail(op[c].left), !.value = 0]
  <2>1. op' = [op EXCEPT ![c] = w]
    BY <1>4, CheckRunningGoesOn DEF GoesOn
  <2>2. w # Idle => w.at = "read"
    BY <1>2 DEF Op
  <2>3. op'[c] = w
    BY <2>1 DEF TypeInv, NodeTypeOK
  <2> HIDE DEF w
  <2>4. w # Idle => ReliesOn(c)'
    BY <2>2, <2>3 DEF ReliesOn
  <2>q. QED
    BY <1>1, <1>2, <2>1, <2>4, QuietStep
<1>5. CASE ~status(d, s).running
  <2> DEFINE w == [op[c] EXCEPT !.at = "spawn"]
  <2>1. op' = [op EXCEPT ![c] = w]
    BY <1>5, CheckRunningGoesOn DEF GoesOn
  <2>2. w.at = "spawn" /\ w.dir = d /\ w.left = op[c].left
    BY <1>2 DEF Op
  <2>3. op'[c] = w
    BY <2>1 DEF TypeInv, NodeTypeOK
  <2> HIDE DEF w
  <2>4. ASSUME d \notin raced, NEW p \in Pids, Alive(p, d, s) PROVE FALSE
    <3>1. pidFile[d][s] = p \/ \E e \in Clients : Starting(e, d, s, p)
      BY <1>3, <2>4 DEF ProcessInv, TrackedAt
    <3>2. ~Starting(c, d, s, p)
      BY <1>2 DEF Starting
    <3>3. \A e \in Clients \ {c} : ~Starting(e, d, s, p)
      BY <1>2, <2>4, NoOtherStarter, OnProcessesAt
    <3>4. pidFile[d][s] = p /\ p # 0
      BY <3>1, <3>2, <3>3, NodeAssumption
    <3>5. procs[p] # Dead
      BY <2>4 DEF Alive, Process, Dead
    <3>q. QED
      BY <1>5, <3>4, <3>5 DEF status, isRunning
  <2>5. w # Idle /\ w.dir \notin raced' => ReliesOn(c)'
    BY <1>1, <2>2, <2>3, <2>4 DEF ReliesOn, Service, Alive
  <2>q. QED
    BY <1>1, <1>2, <2>1, <2>5, QuietStep
<1>q. QED
  BY <1>4, <1>5

LEMMA SpawnStep ==
    ASSUME TypeInv, Apart, ProcessInv, NEW c \in Clients, Spawn(c)
    PROVE  ProcessInv'
<1>1. UNCHANGED <<pidFile, raced, dirs>>
  BY DEF Spawn, Keeps, files
<1>2. op[c] \in Op /\ Sound(op[c]) /\ op[c].at = "spawn" /\ op[c] # Idle
  BY SpawnGoesOn DEF GoesOn
<1> DEFINE d == op[c].dir
           s == Service(c)
<1>3. d \in Dirs /\ s \in ServiceNames /\ op[c].kind \in {"start", "restart"}
  BY <1>2, ServicesLeft DEF Op, Sound, ServiceSteps, Service
<1>4. CASE GoesOn(c, Idle) /\ UNCHANGED procs
  BY <1>1, <1>2, <1>4, QuietStep DEF GoesOn
<1>5. ASSUME NEW q \in Pids, d \in dirs, procs[q] = Dead,
             procs' = [procs EXCEPT ![q] = Process(d, s, FALSE)],
             GoesOn(c, [op[c] EXCEPT !.at = "write", !.value = q])
      PROVE  ProcessInv'
  <2> DEFINE w == [op[c] EXCEPT !.at = "write", !.value = q]
  <2>1. op' = [op EXCEPT ![c] = w]
    BY <1>5 DEF GoesOn
  <2>2. w.at = "write" /\ w.dir = d /\ w.left = op[c].left /\ w.value = q
    BY <1>2 DEF Op
  <2>3. op'[c] = w /\ \A e \in Clients \ {c} : op'[e] = op[e]
    BY <2>1 DEF TypeInv, NodeTypeOK
  <2>w. w # Idle
    BY <1>5, <1>2, <2>2 DEF Idle, GoesOn, Op
  <2> HIDE DEF w
  <2>4. procs'[q] = Process(d, s, FALSE) /\ \A p \in Pids \ {q} : procs'[p] = procs[p]
    BY <1>5 DEF TypeInv, NodeTypeOK
  <2>5. ASSUME NEW p \in Pids, NEW m, NEW t, procs'[p] = Process(m, t, FALSE)
        PROVE  Alive(p, m, t) \/ (p = q /\ m = d /\ t = s)
    BY <2>4, <2>5 DEF Alive, Process
  <2>6. ASSUME NEW m \in Dirs \ raced' PROVE TrackedAt(m)'
    <3>1. TrackedAt(m)
      BY <1>1, <2>6 DEF ProcessInv
    <3>2. SUFFICES ASSUME NEW t \in ServiceNames, NEW p \in Pids, Alive(p, m, t)'
                   PROVE  pidFile'[m][t] = p \/ \E e \in Clients : Starting(e, m, t, p)'
      BY DEF TrackedAt
    <3>3. CASE Alive(p, m, t)
      <4>1. CASE pidFile[m][t] = p
        BY <1>1, <4>1
      <4>2. ASSUME NEW e \in Clients, Starting(e, m, t, p) PROVE Starting(e, m, t, p)'
        <5>1. e # c
          BY <1>2, <4>2 DEF Starting
        <5>q. QED
          BY <2>3, <4>2, <5>1 DEF Starting, Service
      <4>q. QED
        BY <3>1, <3>3, <4>1, <4>2 DEF TrackedAt
    <3>4. CASE p = q /\ m = d /\ t = s
      <4>1. Starting(c, m, t, p)'
        BY <2>2, <2>3, <2>w, <3>4 DEF Starting, Service
      <4>q. QED
        BY <4>1
    <3>5. procs'[p] = Process(m, t, FALSE)
      BY <3>2 DEF Alive
    <3>6. Alive(p, m, t) \/ (p = q /\ m = d /\ t = s)
      BY <2>5, <3>5
    <3>q. QED
      BY <3>3, <3>4, <3>6
  <2>7. ASSUME NEW e \in Clients, op'[e] # Idle, op'[e].dir \notin raced' PROVE ReliesOn(e)'
    <3>1. CASE e = c
      <4>1. \A p \in Pids : ~Alive(p, d, s)
        BY <1>1, <1>2, <2>2, <2>3, <2>7, <3>1 DEF ProcessInv, ReliesOn
      <4>2. \A p \in Pids : procs'[p] = Process(d, s, FALSE) => p = q
        BY <2>5, <4>1
      <4>3. op'[c].at = "write" /\ op'[c].dir = d /\ Service(c)' = s /\ op'[c].value = q
        BY <2>2, <2>3 DEF Service
      <4>q. QED
        BY <1>1, <1>5, <3>1, <4>2, <4>3 DEF ReliesOn, Alive
    <3>2. CASE e # c
      <4>1. op'[e] = op[e] /\ ReliesOn(e) /\ op[e] # Idle
        BY <1>1, <2>3, <2>7, <3>2 DEF ProcessInv
      <4>2. CASE op[e].dir = d
        <5>1. op[e].kind \notin OnProcesses
          BY <1>1, <1>2, <1>3, <2>7, <3>2, <4>1, <4>2, StarterAlone
        <5>2. /\ op[e].at \notin {"spawn", "write", "kill", "unlink", "rm"}
              /\ op[e].kind # "remove"
          BY <4>1, <5>1, OnProcessesAt DEF OnProcesses
        <5>q. QED
          BY <4>1, <5>2 DEF ReliesOn
      <4>3. CASE op[e].dir # d
        <5> DEFINE m == op[e].dir
        <5>1. \A p \in Pids : \A t : procs'[p] = Process(m, t, FALSE) => Alive(p, m, t)
          BY <2>5, <4>3
        <5>q. QED
          BY <1>1, <4>1, <5>1, RelianceKept DEF Alive
      <4>q. QED
        BY <4>2, <4>3
    <3>q. QED
      BY <3>1, <3>2
  <2>q. QED
    BY <2>6, <2>7 DEF ProcessInv
<1>q. QED
  BY <1>4, <1>5, SpawnGoesOn

LEMMA WritePidStep ==
    ASSUME TypeInv, Apart, ProcessInv, NEW c \in Clients, WritePid(c)
    PROVE  ProcessInv'
<1>1. UNCHANGED <<procs, raced, dirs>>
  BY DEF WritePid, Keeps, files
<1>2. op[c] \in Op /\ Sound(op[c]) /\ op[c].at = "write" /\ op[c] # Idle
  BY WritePidGoesOn DEF GoesOn
<1> DEFINE d == op[c].dir
           s == Service(c)
<1>3. d \in Dirs /\ s \in ServiceNames /\ op[c].kind \in {"start", "restart"}
  BY <1>2, ServicesLeft DEF Op, Sound, ServiceSteps, Service
<1>4. d \notin raced => d \in dirs
  BY <1>2 DEF ProcessInv, ReliesOn
<1>5. PICK w : /\ op' = [op EXCEPT ![c] = w]
               /\ w # Idle => w.at = "read"
  <2>1. CASE d \notin dirs
    BY <2>1, WritePidGoesOn DEF GoesOn
  <2>2. CASE d \in dirs
    <3> DEFINE w == IF Tail(op[c].left) = <<>> THEN Idle
                    ELSE [op[c] EXCEPT !.at = "read", !.left = Tail(op[c].left), !.value = 0]
    <3>1. op' = [op EXCEPT ![c] = w]
      BY <2>2, WritePidGoesOn DEF GoesOn
    <3>2. w # Idle => w.at = "read"
      BY <1>2 DEF Op
    <3>q. QED
      BY <3>1, <3>2
  <2>q. QED
    BY <2>1, <2>2
<1>6. op'[c] = w /\ \A e \in Clients \ {c} : op'[e] = op[e]
  BY <1>5 DEF TypeInv, NodeTypeOK
<1>7. /\ \A m \in Dirs : m # d => pidFile'[m] = pidFile[m]
      /\ d \notin raced => /\ pidFile'[d][s] = op[c].value
                          /\ \A t \in ServiceNames \ {s} : pidFile'[d][t] = pidFile[d][t]
  <2>1. CASE d \notin dirs
    BY <1>4, <2>1, WritePidGoesOn
  <2>2. CASE d \in dirs
    <3>1. pidFile' = [pidFile EXCEPT ![d][s] = op[c].value]
      BY <2>2, WritePidGoesOn
    <3>q. QED
      BY <1>3, <3>1 DEF TypeInv, NodeTypeOK
  <2>q. QED
    BY <2>1, <2>2
<1>8. \A p, m, t : Alive(p, m, t)' <=> Alive(p, m, t)
  BY <1>1 DEF Alive
<1>9. ASSUME NEW m \in Dirs \ raced' PROVE TrackedAt(m)'
  <2>1. TrackedAt(m)
    BY <1>1, <1>9 DEF ProcessInv
  <2>2. CASE m # d
    <3>1. \A e \in Clients : op[e].at = "write" /\ op[e] # Idle /\ op[e].dir = m => op'[e] = op[e]
      BY <1>6, <2>2
    <3>q. QED
      BY <1>7, <1>8, <2>1, <2>2, <3>1, TrackedKept
  <2>3. CASE m = d
    <3>1. SUFFICES ASSUME NEW t \in ServiceNames, NEW p \in Pids, Alive(p, m, t)
                   PROVE  pidFile'[m][t] = p \/ \E e \in Clients : Starting(e, m, t, p)'
      BY <1>8, <2>3 DEF TrackedAt
    <3>2. CASE t = s
      <4>1. p = op[c].value
        BY <1>1, <1>2, <1>9, <2>3, <3>1, <3>2 DEF ProcessInv, ReliesOn
      <4>q. QED
        BY <1>1, <1>7, <1>9, <2>3, <3>2, <4>1
    <3>3. CASE t # s
      <4>1. CASE pidFile[d][t] = p
        BY <1>1, <1>7, <1>9, <2>3, <3>3, <4>1
      <4>2. ASSUME NEW e \in Clients, Starting(e, m, t, p) PROVE Starting(e, m, t, p)'
        <5>1. e # c
          BY <2>3, <3>3, <4>2 DEF Starting
        <5>q. QED
          BY <1>6, <4>2, <5>1 DEF Starting, Service
      <4>q. QED
        BY <2>1, <2>3, <3>1, <4>1, <4>2 DEF TrackedAt
    <3>q. QED
      BY <3>2, <3>3
  <2>q. QED
    BY <2>2, <2>3
<1>10. ASSUME NEW e \in Clients, op'[e] # Idle, op'[e].dir \notin raced' PROVE ReliesOn(e)'
  <2>1. CASE e = c
    BY <1>5, <1>6, <1>10, <2>1 DEF ReliesOn
  <2>2. CASE e # c
    <3>1. op'[e] = op[e] /\ ReliesOn(e)
      BY <1>1, <1>6, <1>10, <2>2 DEF ProcessInv
    <3>q. QED
      BY <1>1, <1>8, <3>1, RelianceKept
  <2>q. QED
    BY <2>1, <2>2
<1>q. QED
  BY <1>9, <1>10 DEF ProcessInv

(* When the first service is done with, that is, nothing of it is alive,   *)
(* the next one is next.                                                   *)
LEMMA StoppedRelies ==
    ASSUME TypeInv, NEW c \in Clients, op[c] # Idle, op[c].at \in {"kill", "unlink"},
           ReliesOn(c), op' = [op EXCEPT ![c] = Stopped(op[c])], UNCHANGED procs,
           \A p \in Pids : ~Alive(p, op[c].dir, Service(c))
    PROVE  Stopped(op[c]) # Idle => ReliesOn(c)'
<1>1. op[c] \in Op /\ Sound(op[c])
  BY DEF TypeInv, OpOK
<1>2. op[c].left \in Seq(ServiceNames) /\ op[c].left # <<>>
  BY <1>1 DEF Op, Sound, ServiceSteps
<1> DEFINE d == op[c].dir
           left == op[c].left
<1>3. \A s \in ServiceNames, p \in Pids :
        Alive(p, d, s) => \E i \in DOMAIN Tail(left) : Tail(left)[i] = s
  <2> SUFFICES ASSUME NEW s \in ServiceNames, NEW p \in Pids, Alive(p, d, s)
               PROVE  \E i \in DOMAIN Tail(left) : Tail(left)[i] = s
    OBVIOUS
  <2>1. \E i \in DOMAIN left : left[i] = s
    BY DEF ReliesOn
  <2>2. s # Head(left)
    BY DEF Service
  <2>q. QED
    BY <1>2, <2>1, <2>2, LeftAfter
<1>4. op'[c] = Stopped(op[c])
  BY DEF TypeInv, NodeTypeOK
<1>6. CASE Tail(left) # <<>>
  <2> DEFINE w == [op[c] EXCEPT !.at = "kill", !.left = Tail(left)]
  <2>1. w.at = "kill" /\ w.left = Tail(left) /\ w.dir = d
    BY <1>1 DEF Op
  <2>2. op'[c] = w
    BY <1>4, <1>6 DEF Stopped
  <2> HIDE DEF w
  <2>3. op'[c].at = "kill" /\ op'[c].left = Tail(left) /\ op'[c].dir = d
    BY <2>1, <2>2
  <2>q. QED
    BY <1>3, <2>3 DEF ReliesOn, Alive
<1>7. CASE Tail(left) = <<>>
  <2>1. \A s \in ServiceNames, p \in Pids : ~Alive(p, d, s)
    BY <1>3, <1>7
  <2> DEFINE w == [op[c] EXCEPT !.at = "pause", !.left = <<>>]
             v == [op[c] EXCEPT !.at = "rm", !.left = <<>>]
  <2>2. w.dir = d /\ w.at = "pause" /\ v.dir = d /\ v.at = "rm"
    BY <1>1 DEF Op
  <2>3. op'[c] \in {Idle, w, v}
    BY <1>4, <1>7 DEF Stopped
  <2> HIDE DEF w, v
  <2>4. op'[c] # Idle => op'[c].dir = d /\ op'[c].at \in {"pause", "rm"}
    BY <2>2, <2>3
  <2>q. QED
    BY <1>4, <2>1, <2>4 DEF ReliesOn, Alive
<1>q. QED
  BY <1>6, <1>7

LEMMA KillStep ==
    ASSUME TypeInv, Apart, ProcessInv, NEW c \in Clients, Kill(c)
    PROVE  ProcessInv'
<1>1. UNCHANGED <<pidFile, raced, dirs>>
  BY DEF Kill, Keeps, files
<1>2. op[c] \in Op /\ Sound(op[c]) /\ op[c].at = "kill" /\ op[c] # Idle
  BY KillGoesOn DEF GoesOn
<1> DEFINE d == op[c].dir
           s == Service(c)
           pid == pidFile[d][s]
<1>3. d \in Dirs /\ s \in ServiceNames
  BY <1>2, ServicesLeft DEF Op, Sound, ServiceSteps, Service
<1>4. pid \in {0} \cup Pids
  BY <1>3 DEF TypeInv, NodeTypeOK
<1>5. ASSUME d \notin raced, NEW p \in Pids, Alive(p, d, s) PROVE p = pid /\ isRunning(pid)
  <2>1. pidFile[d][s] = p \/ \E e \in Clients : Starting(e, d, s, p)
    BY <1>3, <1>5 DEF ProcessInv, TrackedAt
  <2>2. ~Starting(c, d, s, p)
    BY <1>2 DEF Starting
  <2>3. \A e \in Clients \ {c} : ~Starting(e, d, s, p)
    BY <1>2, <1>5, NoOtherStarter, OnProcessesAt
  <2>4. pid = p /\ p # 0
    BY <2>1, <2>2, <2>3, NodeAssumption
  <2>5. procs[p] # Dead
    BY <1>5 DEF Alive, Process, Dead
  <2>q. QED
    BY <2>4, <2>5 DEF isRunning
<1>6. CASE ~isRunning(pid)
  <2>0. GoesOn(c, Stopped(op[c])) /\ UNCHANGED procs
    BY <1>6, KillGoesOn
  <2>1. op' = [op EXCEPT ![c] = Stopped(op[c])]
    BY <2>0 DEF GoesOn
  <2>2. d \notin raced /\ Stopped(op[c]) # Idle => ReliesOn(c)'
    <3>1. CASE d \notin raced
      <4>1. \A p \in Pids : ~Alive(p, d, s)
        BY <1>5, <1>6, <3>1
      <4>2. ReliesOn(c)
        BY <1>2, <3>1 DEF ProcessInv
      <4>q. QED
        BY <1>2, <2>0, <2>1, <4>1, <4>2, StoppedRelies
    <3>q. QED
      BY <3>1
  <2>3. Stopped(op[c]) # Idle => Stopped(op[c]).dir = d \/ Stopped(op[c]).dir \in raced'
    BY <2>0 DEF GoesOn
  <2>q. QED
    BY <1>1, <1>2, <2>0, <2>1, <2>2, <2>3, QuietStep
<1>7. CASE isRunning(pid)
  <2> DEFINE w == [op[c] EXCEPT !.at = "unlink"]
  <2>1. /\ GoesOn(c, w)
        /\ procs' = [procs EXCEPT ![pid] = IF @ = Foreign THEN Dead
                                           ELSE [@ EXCEPT !.ending = TRUE]]
    BY <1>7, KillGoesOn
  <2>2. op' = [op EXCEPT ![c] = w]
    BY <2>1 DEF GoesOn
  <2>3. w.at = "unlink" /\ w.dir = d /\ w.left = op[c].left
    BY <1>2 DEF Op
  <2>4. op'[c] = w /\ \A e \in Clients \ {c} : op'[e] = op[e]
    BY <2>2 DEF TypeInv, NodeTypeOK
  <2> HIDE DEF w
  <2>5. pid \in Pids /\ procs[pid] # Dead /\ ProcsType
    BY <1>4, <1>7 DEF isRunning, TypeInv, NodeTypeOK, ProcsType
  <2> HIDE DEF pid
  <2>6. procs'[pid] = Dead \/ procs'[pid].ending = TRUE
    <3>1. CASE procs[pid] = Foreign
      BY <2>1, <2>5, <3>1 DEF ProcsType
    <3>2. CASE procs[pid] # Foreign
      <4>1. procs'[pid] = [procs[pid] EXCEPT !.ending = TRUE]
        BY <2>1, <2>5, <3>2 DEF ProcsType
      <4>q. QED
        BY <2>5, <3>2, <4>1, EndingType
    <3>q. QED
      BY <3>1, <3>2
  <2>7. \A p \in Pids \ {pid} : procs'[p] = procs[p]
    BY <2>1, <2>5 DEF ProcsType
  <2>8. \A p \in Pids : \A m, t : Alive(p, m, t)' => p # pid /\ Alive(p, m, t)
    BY <2>6, <2>7 DEF Alive, Process, Dead
  <2>9. ASSUME NEW m \in Dirs \ raced' PROVE TrackedAt(m)'
    <3>1. TrackedAt(m)
      BY <1>1, <2>9 DEF ProcessInv
    <3>2. \A e \in Clients : op[e].at = "write" /\ op[e] # Idle /\ op[e].dir = m => op'[e] = op[e]
      BY <1>2, <2>4
    <3>q. QED
      BY <1>1, <2>8, <3>1, <3>2, TrackedKept
  <2>10. ASSUME NEW e \in Clients, op'[e] # Idle, op'[e].dir \notin raced' PROVE ReliesOn(e)'
    <3>1. CASE e = c
      <4>1. d \notin raced /\ ReliesOn(c)
        BY <1>1, <1>2, <2>3, <2>4, <2>10, <3>1 DEF ProcessInv
      <4>2. \A p \in Pids : procs'[p] # Process(d, s, FALSE)
        BY <1>5, <2>8, <4>1 DEF Alive
      <4>3. \A p \in Pids : \A t : procs'[p] = Process(d, t, FALSE) => Alive(p, d, t)
        BY <2>8 DEF Alive
      <4>4. \A p \in Pids, t \in ServiceNames :
              procs'[p] = Process(d, t, FALSE) => \E i \in DOMAIN op[c].left : op[c].left[i] = t
        BY <1>2, <4>1, <4>3 DEF ReliesOn
      <4>5. op'[c].at = "unlink" /\ op'[c].dir = d /\ op'[c].left = op[c].left /\ Service(c)' = s
        BY <2>3, <2>4 DEF Service
      <4>q. QED
        BY <3>1, <4>2, <4>4, <4>5 DEF ReliesOn, Alive
    <3>2. CASE e # c
      <4>1. op'[e] = op[e] /\ ReliesOn(e)
        BY <1>1, <2>4, <2>10, <3>2 DEF ProcessInv
      <4>q. QED
        BY <1>1, <2>8, <4>1, RelianceKept
    <3>q. QED
      BY <3>1, <3>2
  <2>q. QED
    BY <2>9, <2>10 DEF ProcessInv
<1>q. QED
  BY <1>6, <1>7

LEMMA UnlinkStep ==
    ASSUME TypeInv, Apart, ProcessInv, NEW c \in Clients, Unlink(c)
    PROVE  ProcessInv'
<1>1. UNCHANGED <<procs, raced, dirs>>
  BY DEF Unlink, Keeps, files
<1>2. op[c] \in Op /\ Sound(op[c]) /\ op[c].at = "unlink" /\ op[c] # Idle
  BY UnlinkGoesOn DEF GoesOn
<1> DEFINE d == op[c].dir
           s == Service(c)
<1>3. d \in Dirs /\ s \in ServiceNames
  BY <1>2, ServicesLeft DEF Op, Sound, ServiceSteps, Service
<1>4. GoesOn(c, Stopped(op[c]))
  BY UnlinkGoesOn
<1>5. op' = [op EXCEPT ![c] = Stopped(op[c])]
  BY <1>4 DEF GoesOn
<1>6. op'[c] = Stopped(op[c]) /\ \A e \in Clients \ {c} : op'[e] = op[e]
  BY <1>5 DEF TypeInv, NodeTypeOK
<1>7. /\ \A m \in Dirs : m # d => pidFile'[m] = pidFile[m]
      /\ \A t \in ServiceNames \ {s} : pidFile'[d][t] = pidFile[d][t]
  BY <1>3 DEF Unlink, Dir, TypeInv, NodeTypeOK
<1>8. \A p, m, t : Alive(p, m, t)' <=> Alive(p, m, t)
  BY <1>1 DEF Alive
<1>9. d \notin raced => ReliesOn(c) /\ \A p \in Pids : ~Alive(p, d, s)
  BY <1>2 DEF ProcessInv, ReliesOn
<1>10. ASSUME NEW m \in Dirs \ raced' PROVE TrackedAt(m)'
  <2>1. TrackedAt(m)
    BY <1>1, <1>10 DEF ProcessInv
  <2>2. \A e \in Clients : op[e].at = "write" /\ op[e] # Idle /\ op[e].dir = m => op'[e] = op[e]
    BY <1>2, <1>6
  <2>3. CASE m # d
    BY <1>7, <1>8, <2>1, <2>2, <2>3, TrackedKept
  <2>4. CASE m = d
    <3>1. SUFFICES ASSUME NEW t \in ServiceNames, NEW p \in Pids, Alive(p, m, t)
                   PROVE  pidFile'[m][t] = p \/ \E e \in Clients : Starting(e, m, t, p)'
      BY <1>8, <2>4 DEF TrackedAt
    <3>2. t # s
      BY <1>1, <1>9, <1>10, <2>4, <3>1
    <3>3. CASE pidFile[m][t] = p
      BY <1>7, <2>4, <3>2, <3>3
    <3>4. ASSUME NEW e \in Clients, Starting(e, m, t, p) PROVE Starting(e, m, t, p)'
      BY <2>2, <3>4 DEF Starting, Service
    <3>q. QED
      BY <2>1, <3>1, <3>3, <3>4 DEF TrackedAt
  <2>q. QED
    BY <2>3, <2>4
<1>11. ASSUME NEW e \in Clients, op'[e] # Idle, op'[e].dir \notin raced' PROVE ReliesOn(e)'
  <2>1. CASE e = c
    <3>1. d \notin raced
      BY <1>1, <1>4, <1>6, <1>11, <2>1 DEF GoesOn
    <3>q. QED
      BY <1>1, <1>2, <1>5, <1>6, <1>9, <1>11, <2>1, <3>1, StoppedRelies
  <2>2. CASE e # c
    <3>1. op'[e] = op[e] /\ ReliesOn(e)
      BY <1>1, <1>6, <1>11, <2>2 DEF ProcessInv
    <3>q. QED
      BY <1>1, <1>8, <3>1, RelianceKept
  <2>q. QED
    BY <2>1, <2>2
<1>q. QED
  BY <1>10, <1>11 DEF ProcessInv

LEMMA RemovalStep ==
    ASSUME TypeInv, Apart, ProcessInv, NEW c \in Clients, RemoveFile(c) \/ RemoveDirectory(c)
    PROVE  ProcessInv'
<1>1. UNCHANGED <<procs, raced>>
  BY DEF RemoveFile, RemoveDirectory, Keeps
<1>2. op[c] \in Op /\ Sound(op[c]) /\ op[c].at = "rm" /\ op[c].kind = "remove" /\ op[c] # Idle
  BY RemoveFileGoesOn, RemoveDirectoryGoesOn DEF GoesOn
<1> DEFINE d == op[c].dir
<1>3. d \in Dirs /\ op[c].left = <<>>
  BY <1>2 DEF Op, Sound, ServiceSteps
<1>4. PICK w : /\ op' = [op EXCEPT ![c] = w]
               /\ w.dir = d /\ w.left = <<>> /\ w.kind = "remove" /\ w.at \in {"rm", "row"}
  <2> DEFINE v == [op[c] EXCEPT !.at = "row"]
  <2>1. v.dir = d /\ v.left = <<>> /\ v.kind = "remove" /\ v.at = "row"
    BY <1>2, <1>3 DEF Op
  <2>q. QED
    BY <1>2, <1>3, <2>1, RemoveFileGoesOn, RemoveDirectoryGoesOn DEF GoesOn
<1>5. op'[c] = w /\ \A e \in Clients \ {c} : op'[e] = op[e]
  BY <1>4 DEF TypeInv, NodeTypeOK
<1>6. /\ \A m \in Dirs : m # d => pidFile'[m] = pidFile[m]
      /\ dirs \ {d} \subseteq dirs'
  <2>1. CASE RemoveFile(c)
    <3>1. pidFile' = pidFile \/ \E s \in ServiceNames : pidFile' = [pidFile EXCEPT ![d][s] = 0]
      BY <2>1 DEF RemoveFile, Dir
    <3>q. QED
      BY <1>3, <2>1, <3>1 DEF RemoveFile, TypeInv, NodeTypeOK
  <2>2. CASE RemoveDirectory(c)
    BY <2>2 DEF RemoveDirectory, Dir
  <2>q. QED
    BY <2>1, <2>2
<1>7. \A p, m, t : Alive(p, m, t)' <=> Alive(p, m, t)
  BY <1>1 DEF Alive
<1>8. d \notin raced => \A t \in ServiceNames, p \in Pids : ~Alive(p, d, t)
  <2>1. DOMAIN op[c].left = {}
    BY <1>3
  <2>q. QED
    BY <1>2, <2>1 DEF ProcessInv, ReliesOn
<1>9. ASSUME NEW m \in Dirs \ raced' PROVE TrackedAt(m)'
  <2>1. TrackedAt(m)
    BY <1>1, <1>9 DEF ProcessInv
  <2>2. \A e \in Clients : op[e].at = "write" /\ op[e] # Idle /\ op[e].dir = m => op'[e] = op[e]
    BY <1>2, <1>5
  <2>3. CASE m # d
    BY <1>6, <1>7, <2>1, <2>2, <2>3, TrackedKept
  <2>4. CASE m = d
    BY <1>1, <1>7, <1>8, <1>9, <2>4 DEF TrackedAt
  <2>q. QED
    BY <2>3, <2>4
<1>10. ASSUME NEW e \in Clients, op'[e] # Idle, op'[e].dir \notin raced' PROVE ReliesOn(e)'
  <2>1. CASE e = c
    BY <1>1, <1>4, <1>5, <1>7, <1>8, <1>10, <2>1 DEF ReliesOn
  <2>2. CASE e # c
    <3>1. op'[e] = op[e] /\ ReliesOn(e) /\ op[e] # Idle /\ op[e].dir \notin raced
      BY <1>1, <1>5, <1>10, <2>2 DEF ProcessInv
    <3>2. op[e].at = "write" => op[e].dir # d
      <4>1. SUFFICES ASSUME op[e].at = "write", op[e].dir = d PROVE FALSE
        OBVIOUS
      <4>2. op[e].kind \in {"start", "restart"}
        BY <3>1, <4>1 DEF TypeInv, OpOK, Sound
      <4>3. op[c].kind \notin OnProcesses
        BY <1>2, <2>2, <3>1, <4>1, <4>2, StarterAlone
      <4>q. QED
        BY <1>2, <4>3 DEF OnProcesses
    <3>3. op[e].at = "write" => (op[e].dir \in dirs => op[e].dir \in dirs')
      BY <1>6, <3>2
    <3>q. QED
      BY <1>7, <3>1, <3>3, RelianceKept
  <2>q. QED
    BY <2>1, <2>2
<1>q. QED
  BY <1>9, <1>10 DEF ProcessInv

(* The steps that have nothing to do with processes. *)
LEMMA OtherSteps ==
    ASSUME TypeInv, ProcessInv, NEW c \in Clients,
           \/ WriteKey(c) \/ WriteConfig(c) \/ Register(c) \/ Unregister(c)
           \/ StartAgain(c) \/ ReadConfig(c) \/ PatchConfig(c)
    PROVE  ProcessInv'
<1>1. UNCHANGED <<pidFile, procs>> /\ dirs \subseteq dirs' /\ raced \subseteq raced'
  BY StartAgainGoesOn DEF WriteKey, WriteConfig, Register, Unregister, StartAgain, ReadConfig,
     PatchConfig, Keeps, files
<1>2. PICK w : /\ GoesOn(c, w) /\ op[c].at # "write"
               /\ w # Idle => w.at \in {"config", "read", "patch"}
                               \/ (w.at = "row" /\ w.kind = "install")
  <2>1. CASE WriteKey(c)
    <3> DEFINE w == [op[c] EXCEPT !.at = "config", !.value = keys + 1]
    <3>1. op[c] \in Op /\ op[c].at = "key" /\ GoesOn(c, w)
      BY <2>1, WriteKeyGoesOn
    <3>2. w.at = "config"
      BY <3>1 DEF Op
    <3>q. QED
      BY <3>1, <3>2
  <2>2. CASE WriteConfig(c)
    <3> DEFINE w == [op[c] EXCEPT !.at = "row"]
    <3>1. /\ op[c] \in Op /\ op[c].at = "config" /\ op[c].kind = "install"
          /\ GoesOn(c, Idle) \/ GoesOn(c, w)
      BY <2>2, WriteConfigGoesOn
    <3>2. w.at = "row" /\ w.kind = "install"
      BY <3>1 DEF Op
    <3>q. QED
      BY <3>1, <3>2
  <2>3. CASE Register(c) \/ Unregister(c) \/ PatchConfig(c)
    BY <2>3, RegisterGoesOn, UnregisterGoesOn, PatchConfigGoesOn
  <2>4. CASE StartAgain(c)
    <3>1. ASSUME NEW d \in Dirs,
                 GoesOn(c, [op[c] EXCEPT !.at = "read", !.left = Services, !.dir = d])
          PROVE  \E w : GoesOn(c, w) /\ w.at = "read"
      <4> DEFINE w == [op[c] EXCEPT !.at = "read", !.left = Services, !.dir = d]
      <4>1. w.at = "read"
        BY <2>4, StartAgainGoesOn DEF Op
      <4>q. QED
        BY <3>1, <4>1
    <3>q. QED
      BY <2>4, <3>1, StartAgainGoesOn
  <2>5. CASE ReadConfig(c)
    <3> DEFINE w == [op[c] EXCEPT !.at = "patch", !.value = config[op[c].dir]]
    <3>1. op[c] \in Op /\ op[c].at = "patch" /\ (GoesOn(c, Idle) \/ GoesOn(c, w))
      BY <2>5, ReadConfigGoesOn
    <3>2. w.at = "patch"
      BY <3>1 DEF Op
    <3>q. QED
      BY <3>1, <3>2
  <2>q. QED
    BY <2>1, <2>2, <2>3, <2>4, <2>5
<1>3. op' = [op EXCEPT ![c] = w] /\ op'[c] = w
  BY <1>2 DEF GoesOn, TypeInv, NodeTypeOK
<1>4. w # Idle => ReliesOn(c)'
  BY <1>2, <1>3 DEF ReliesOn
<1>q. QED
  BY <1>1, <1>2, <1>3, <1>4, QuietStep

LEMMA BeginStep ==
    ASSUME TypeInv, ProcessInv, NEW c \in Clients, NEW n \in Names, NEW o \in Op, Fresh(c, n, o)
    PROVE  ProcessInv'
<1>1. /\ op' = [op EXCEPT ![c] = o] /\ UNCHANGED <<pidFile, procs, dirs>>
      /\ raced \subseteq raced' /\ op[c] = Idle
  BY FreshHistory DEF Fresh, files
<1>2. op'[c] = o
  BY <1>1 DEF TypeInv, NodeTypeOK
<1>3. ReliesOn(c)'
  BY <1>2, BackwardsType DEF ReliesOn, Fresh
<1>q. QED
  BY <1>1, <1>3, QuietStep

LEMMA MovesProcess ==
    ASSUME TypeInv, Apart, ProcessInv, NodeMoves
    PROVE  ProcessInv'
<1>1. ASSUME NEW c \in Clients, NEW n \in Names, Begins(c, n) PROVE ProcessInv'
  BY <1>1, BeginFresh, BeginStep
<1>2. ASSUME NEW c \in Clients, Progress(c) PROVE ProcessInv'
  BY <1>2, RemovalStep, OtherSteps, CheckRunningStep, SpawnStep, WritePidStep, KillStep, UnlinkStep
  DEF Progress
<1>3. ASSUME NEW c \in Clients, Die(c) PROVE ProcessInv'
  <2>1. UNCHANGED <<pidFile, procs, dirs>>
    BY <1>3 DEF Die
  <2>q. QED
    BY <1>3, <2>1, DieFacts, QuietStep
<1>4. CASE UNCHANGED <<op, pidFile, procs, dirs, raced>>
  <2>1. \A p, m, t : Alive(p, m, t)' <=> Alive(p, m, t)
    BY <1>4 DEF Alive
  <2>2. \A e \in Clients : op'[e] # Idle /\ op'[e].dir \notin raced' => ReliesOn(e)'
    BY <1>4, <2>1, RelianceKept DEF ProcessInv
  <2>3. \A d \in Dirs \ raced' : TrackedAt(d)'
    BY <1>4, <2>1, TrackedKept DEF ProcessInv
  <2>q. QED
    BY <2>2, <2>3 DEF ProcessInv
<1>5. ASSUME NEW c \in Clients, Lists(c) PROVE ProcessInv'
  BY <1>4, <1>5 DEF Lists, files
<1>6. ASSUME NEW p \in Pids, Exit(p) \/ Reuse(p) PROVE ProcessInv'
  BY <1>6, ProcsStep
<1>7. CASE UNCHANGED nvars
  BY <1>4, <1>7 DEF nvars, files
<1>q. QED
  BY <1>1, <1>2, <1>3, <1>5, <1>6, <1>7 DEF NodeMoves

-----------------------------------------------------------------------------
(* The registry *)

HasRow(d) == \E n \in Names : rows[n] = d

(* A service of the directory runs or is being started. *)
InUse(d) ==
    \/ \E p \in Pids, s \in ServiceNames : Alive(p, d, s)
    \/ Doing(d, {"read", "spawn", "write"})

(* The entry that an operation works on is the one it found, or is gone,   *)
(* or an installation put another one there.                               *)
EntryOf(c) ==
    LET d == Known(c)[op[c].name] IN
    /\ sqlite \/ cache[c].loaded
    /\ op[c].kind = "install" /\ sqlite => d \in {NoDir} \cup mixed
    /\ op[c].kind \in {"update", "remove"} => d \in {NoDir, op[c].dir} \cup mixed

(* Reading nodes.json shows a program what it sees already. *)
LEMMA LoadKnown ==
    ASSUME TypeInv, NEW c \in Clients, Load(c), UNCHANGED <<sqlite, rows>>
    PROVE  /\ Known(c)' = Known(c)
           /\ sqlite \/ cache'[c].loaded
           /\ \A e \in Clients \ {c} : cache'[e] = cache[e]
<1>1. CASE sqlite
  BY <1>1 DEF Load, Known
<1>2. CASE ~sqlite
  <2>1. cache' = [cache EXCEPT ![c] = Loaded(Known(c))]
    BY <1>2 DEF Load, loadIfNeeded
  <2>2. cache'[c] = Loaded(Known(c)) /\ \A e \in Clients \ {c} : cache'[e] = cache[e]
    BY <2>1 DEF TypeInv, NodeTypeOK
  <2>3. cache'[c].loaded /\ cache'[c].nodes = Known(c)
    BY <2>2 DEF Loaded
  <2>q. QED
    BY <1>2, <2>2, <2>3 DEF Known
<1>q. QED
  BY <1>1, <1>2

LEMMA KnownKept ==
    ASSUME NEW e \in Clients, UNCHANGED sqlite, sqlite \/ cache[e].loaded,
           sqlite => rows' = rows, ~sqlite => cache'[e] = cache[e]
    PROVE  Known(e)' = Known(e)
  BY DEF Known

LEMMA EntryKept ==
    ASSUME NEW e \in Clients, op[e] # Idle, op'[e] # Idle, EntryOf(e),
           op'[e].name = op[e].name, op'[e].kind = op[e].kind,
           op'[e].dir = op[e].dir \/ op[e].kind = "restart",
           UNCHANGED sqlite, mixed \subseteq mixed', sqlite \/ cache'[e].loaded,
           op[e].kind \in OnFiles =>
                Known(e)'[op[e].name] \in {Known(e)[op[e].name], NoDir} \cup mixed'
    PROVE  EntryOf(e)'
<1> DEFINE d == Known(e)[op[e].name]
           x == Known(e)'[op[e].name]
<1>1. x = Known(e)'[op'[e].name]
  OBVIOUS
<1>2. op[e].kind = "install" /\ sqlite => x \in {NoDir} \cup mixed'
  BY DEF EntryOf, OnFiles
<1>3. op[e].kind \in {"update", "remove"} => x \in {NoDir, op'[e].dir} \cup mixed'
  BY DEF EntryOf, OnFiles
<1> HIDE DEF x
<1>q. QED
  BY <1>1, <1>2, <1>3 DEF EntryOf

(* What a step may do to the registry. *)
LEMMA RegistryStep ==
    ASSUME TypeInv, NEW c \in Clients, Progress(c)
    PROVE  /\ UNCHANGED <<sqlite, mixed>>
           /\ \A e \in Clients \ {c} : cache'[e] = cache[e]
           /\ \/ /\ rows' = rows /\ Known(c)' = Known(c)
                 /\ sqlite \/ cache[c].loaded => sqlite \/ cache'[c].loaded
              \/ Register(c)
              \/ Unregister(c)
<1>1. CASE UNCHANGED <<sqlite, rows, cache, mixed>>
  BY <1>1 DEF Known
<1>2. CASE StartAgain(c)
  BY <1>2, LoadKnown DEF StartAgain
<1>3. CASE Register(c)
  BY <1>3 DEF Register, upsert, persist, Keeps, TypeInv, NodeTypeOK
<1>4. CASE Unregister(c)
  BY <1>4 DEF Unregister, delete, persist, Keeps, TypeInv, NodeTypeOK
<1>q. QED
  BY <1>1, <1>2, <1>3, <1>4 DEF Progress, WriteKey, WriteConfig, CheckRunning, Spawn, WritePid,
     Kill, Unlink, RemoveFile, RemoveDirectory, ReadConfig, PatchConfig, Keeps, registry

(* The table after an installation and after a removal. *)
LEMMA TableAfter ==
    ASSUME TypeInv, NEW c \in Clients, sqlite, Register(c) \/ Unregister(c)
    PROVE  /\ op[c] # Idle /\ op[c].name \in Names /\ op[c].dir \in Dirs
           /\ Register(c) => op[c].kind = "install" /\ rows'[op[c].name] = op[c].dir
           /\ Unregister(c) => op[c].kind = "remove" /\ rows'[op[c].name] = NoDir
           /\ \A m \in Names : m # op[c].name => rows'[m] = rows[m]
           /\ op' = [op EXCEPT ![c] = Idle]
<1>1. op[c] # Idle /\ op[c].name \in Names /\ op[c].dir \in Dirs /\ rows \in Entries
  BY RegisterGoesOn, UnregisterGoesOn DEF GoesOn, Op, TypeInv, NodeTypeOK
<1>2. CASE Register(c)
  <2>1. rows' = [rows EXCEPT ![op[c].name] = op[c].dir] /\ op[c].kind = "install"
    BY <1>2 DEF Register, upsert, Dir
  <2>2. op' = [op EXCEPT ![c] = Idle]
    BY <1>2 DEF Register, Finish
  <2>3. ~Unregister(c)
    BY <1>2 DEF Register, Unregister
  <2>q. QED
    BY <1>1, <2>1, <2>2, <2>3, EntryType
<1>3. CASE Unregister(c)
  <2>1. rows' = [rows EXCEPT ![op[c].name] = NoDir] /\ op[c].kind = "remove"
    BY <1>3 DEF Unregister, delete
  <2>2. op' = [op EXCEPT ![c] = Idle]
    BY <1>3 DEF Unregister, Finish
  <2>3. ~Register(c)
    BY <1>3 DEF Register, Unregister
  <2>q. QED
    BY <1>1, <2>1, <2>2, <2>3, EntryType
<1>q. QED
  BY <1>2, <1>3

EntriesOK == \A c \in Clients : op[c] # Idle => EntryOf(c)

LEMMA StepEntries ==
    ASSUME TypeInv, Apart, EntriesOK, NEW c \in Clients, Progress(c)
    PROVE  EntriesOK'
<1>1. PICK w \in {Idle} \cup Op : GoesOn(c, w)
  BY ProgressGoesOn
<1>2. op'[c] = w /\ op[c] # Idle /\ \A e \in Clients \ {c} : op'[e] = op[e]
  BY <1>1 DEF GoesOn, TypeInv, NodeTypeOK
<1>3. ASSUME w # Idle PROVE EntryOf(c)'
  <2>1. ~Register(c) /\ ~Unregister(c)
    BY <1>2, <1>3, RegisterGoesOn, UnregisterGoesOn DEF GoesOn, TypeInv, NodeTypeOK
  <2>2. EntryOf(c) /\ (sqlite \/ cache[c].loaded)
    BY <1>2 DEF EntriesOK, EntryOf
  <2>3. UNCHANGED <<sqlite, mixed>> /\ Known(c)' = Known(c) /\ (sqlite \/ cache'[c].loaded)
    BY <2>1, <2>2, RegistryStep
  <2>4. /\ op'[c].name = op[c].name /\ op'[c].kind = op[c].kind
        /\ op'[c].dir = op[c].dir \/ op[c].kind = "restart"
    BY <1>1, <1>2, <1>3 DEF GoesOn
  <2>q. QED
    BY <1>2, <1>3, <2>2, <2>3, <2>4, EntryKept
<1>4. ASSUME NEW e \in Clients \ {c}, op[e] # Idle PROVE EntryOf(e)'
  <2>1. EntryOf(e) /\ (sqlite \/ cache[e].loaded)
    BY <1>4 DEF EntriesOK, EntryOf
  <2>2. UNCHANGED <<sqlite, mixed>> /\ cache'[e] = cache[e]
    BY RegistryStep
  <2>3. ASSUME op[e].kind \in OnFiles
        PROVE  Known(e)'[op[e].name] \in {Known(e)[op[e].name], NoDir} \cup mixed'
    <3>1. CASE ~sqlite
      BY <2>1, <2>2, <3>1, KnownKept
    <3>2. CASE sqlite
      <4>1. Known(e) = rows /\ Known(e)' = rows' /\ op[e].name \in Names
        BY <1>4, <2>2, <3>2 DEF Known, TypeInv, OpOK, Op
      <4>2. CASE rows' = rows
        BY <4>1, <4>2
      <4>3. CASE Register(c)
        <5>1. op[c].name = op[e].name => op[c].dir \in mixed
          BY <1>4, <2>3, <3>2, <4>3, TableAfter DEF Apart, Meets
        <5>q. QED
          BY <2>2, <3>2, <4>1, <4>3, <5>1, TableAfter
      <4>4. CASE Unregister(c)
        BY <3>2, <4>1, <4>4, TableAfter
      <4>q. QED
        BY <4>2, <4>3, <4>4, RegistryStep
    <3>q. QED
      BY <3>1, <3>2
  <2>q. QED
    BY <1>2, <1>4, <2>1, <2>2, <2>3, EntryKept
<1>q. QED
  BY <1>2, <1>3, <1>4 DEF EntriesOK

LEMMA MovesEntries ==
    ASSUME TypeInv, Apart, EntriesOK, NodeMoves
    PROVE  EntriesOK'
<1>0. ASSUME NEW e \in Clients, op[e] # Idle, op'[e] = op[e], UNCHANGED sqlite,
             mixed \subseteq mixed', sqlite => rows' = rows, ~sqlite => cache'[e] = cache[e]
      PROVE  EntryOf(e)'
  <2>1. EntryOf(e) /\ (sqlite \/ cache[e].loaded)
    BY <1>0 DEF EntriesOK, EntryOf
  <2>2. Known(e)' = Known(e)
    BY <1>0, <2>1, KnownKept
  <2>q. QED
    BY <1>0, <2>1, <2>2, EntryKept
<1>1. ASSUME NEW c \in Clients, NEW n \in Names, Begins(c, n) PROVE EntriesOK'
  <2>1. PICK o \in Op : Fresh(c, n, o)
    BY <1>1, BeginFresh
  <2>2. /\ op'[c] = o /\ \A e \in Clients \ {c} : op'[e] = op[e]
        /\ UNCHANGED <<sqlite, rows>> /\ mixed \subseteq mixed'
    BY <2>1, FreshHistory DEF Fresh, TypeInv, NodeTypeOK
  <2>3. /\ Known(c)' = Known(c)
        /\ sqlite \/ cache'[c].loaded
        /\ \A e \in Clients \ {c} : cache'[e] = cache[e]
    BY <2>1, <2>2, LoadKnown DEF Fresh
  <2>4. EntryOf(c)'
    <3>1. o.name = n /\ Known(c)'[n] = Known(c)[n]
      BY <2>1, <2>3 DEF Fresh
    <3>2. o.kind = "install" => Known(c)[n] = NoDir
      BY <2>1 DEF Fresh
    <3>3. o.kind \in {"update", "remove"} => Known(c)[n] = o.dir
      BY <2>1 DEF Fresh
    <3>q. QED
      BY <2>2, <2>3, <3>1, <3>2, <3>3 DEF EntryOf
  <2>q. QED
    BY <1>0, <2>2, <2>3, <2>4 DEF EntriesOK
<1>2. ASSUME NEW c \in Clients, Progress(c) PROVE EntriesOK'
  BY <1>2, StepEntries
<1>3. ASSUME NEW c \in Clients, Die(c) PROVE EntriesOK'
  <2>1. /\ op'[c] = Idle /\ \A e \in Clients \ {c} : op'[e] = op[e] /\ cache'[e] = cache[e]
        /\ UNCHANGED sqlite /\ mixed \subseteq mixed' /\ (sqlite => rows' = rows)
    BY <1>3, DieFacts DEF Die, TypeInv, NodeTypeOK
  <2>q. QED
    BY <1>0, <2>1 DEF EntriesOK
<1>4. ASSUME NEW c \in Clients, Lists(c) PROVE EntriesOK'
  <2>1. /\ Known(c)' = Known(c)
        /\ sqlite \/ cache'[c].loaded
        /\ \A e \in Clients \ {c} : cache'[e] = cache[e]
        /\ UNCHANGED <<op, sqlite, rows, mixed>>
    BY <1>4, LoadKnown DEF Lists
  <2>2. op[c] # Idle => EntryOf(c)'
    BY <2>1, EntryKept DEF EntriesOK
  <2>q. QED
    BY <1>0, <2>1, <2>2 DEF EntriesOK
<1>5. CASE UNCHANGED <<op, registry, mixed>>
  BY <1>0, <1>5 DEF EntriesOK, registry
<1>6. ASSUME NEW p \in Pids, Exit(p) \/ Reuse(p) PROVE EntriesOK'
  BY <1>5, <1>6 DEF Exit, Reuse, Keeps
<1>7. CASE UNCHANGED nvars
  BY <1>5, <1>7 DEF nvars
<1>q. QED
  BY <1>1, <1>2, <1>3, <1>4, <1>6, <1>7 DEF NodeMoves

(* A directory in use has a row in the table. *)
UsedHaveRow == sqlite => \A d \in Dirs \ (raced \cup mixed) : InUse(d) => HasRow(d)

Starts == {"read", "spawn", "write"}

LEMMA DoingKept ==
    ASSUME TypeInv, NEW c \in Clients, NEW w, op' = [op EXCEPT ![c] = w], NEW d,
           w # Idle /\ w.at \in Starts => op[c] # Idle /\ op[c].at \in Starts /\ w.dir = op[c].dir,
           Doing(d, Starts)'
    PROVE  Doing(d, Starts)
<1>1. PICK e \in Clients : op'[e] # Idle /\ op'[e].dir = d /\ op'[e].at \in Starts
  BY DEF Doing, Dir
<1>2. op'[c] = w /\ (e # c => op'[e] = op[e])
  BY DEF TypeInv, NodeTypeOK
<1>3. op[e] # Idle /\ op[e].dir = d /\ op[e].at \in Starts
  BY <1>1, <1>2
<1>q. QED
  BY <1>3 DEF Doing, Dir

(* Which steps may put a directory to use. *)
LEMMA InUseKept ==
    ASSUME TypeInv, NEW c \in Clients, Progress(c), ~StartAgain(c), NEW d \in Dirs, InUse(d)'
    PROVE  InUse(d)
<1>1. PICK w \in {Idle} \cup Op :
        /\ GoesOn(c, w)
        /\ w # Idle /\ w.at \in Starts => op[c].at \in Starts /\ w.dir = op[c].dir
  <2>1. CASE WriteKey(c) \/ WriteConfig(c) \/ Register(c) \/ Unregister(c)
             \/ RemoveFile(c) \/ RemoveDirectory(c) \/ ReadConfig(c) \/ PatchConfig(c)
             \/ Kill(c) \/ Unlink(c)
    <3>1. PICK w \in {Idle} \cup Op : GoesOn(c, w)
      BY ProgressGoesOn
    <3>2. op[c].kind \in {"install", "update", "edit", "remove"}
          \/ op[c].at \in {"kill", "unlink"}
      BY <2>1, WriteKeyGoesOn, WriteConfigGoesOn, RegisterGoesOn, UnregisterGoesOn,
         RemoveFileGoesOn, RemoveDirectoryGoesOn, ReadConfigGoesOn, PatchConfigGoesOn,
         KillGoesOn, UnlinkGoesOn
    <3>3. CASE op[c].kind \in {"install", "update", "edit", "remove"}
      <4>1. w # Idle => w.at \notin Starts
        BY <3>1, <3>3 DEF GoesOn, Sound, Starts
      <4>q. QED
        BY <3>1, <4>1
    <3>4. CASE Kill(c) \/ Unlink(c)
      <4>1. op[c] \in Op /\ (GoesOn(c, Stopped(op[c])) \/ GoesOn(c, [op[c] EXCEPT !.at = "unlink"]))
        BY <3>4, KillGoesOn, UnlinkGoesOn
      <4>2. [op[c] EXCEPT !.at = "unlink"].at = "unlink"
        BY <4>1 DEF Op
      <4>3. \/ Stopped(op[c]) = Idle
            \/ Stopped(op[c]).at \in {"kill", "pause", "rm"}
        BY <4>1 DEF Stopped, Op
      <4>4. \A v : GoesOn(c, v) => v \in {Idle} \cup Op
        BY DEF GoesOn
      <4>q. QED
        BY <4>1, <4>2, <4>3, <4>4 DEF Starts
    <3>q. QED
      BY <2>1, <3>2, <3>3, <3>4, WriteKeyGoesOn, WriteConfigGoesOn, RegisterGoesOn,
         UnregisterGoesOn, RemoveFileGoesOn, RemoveDirectoryGoesOn, ReadConfigGoesOn,
         PatchConfigGoesOn
  <2>2. CASE CheckRunning(c) \/ Spawn(c) \/ WritePid(c)
    <3>1. PICK w \in {Idle} \cup Op : GoesOn(c, w)
      BY ProgressGoesOn
    <3>2. op[c].at \in Starts
      BY <2>2, CheckRunningGoesOn, SpawnGoesOn, WritePidGoesOn DEF Starts
    <3>3. op'[c] = w
      BY <3>1 DEF GoesOn, TypeInv, NodeTypeOK
    <3>4. w # Idle => w.dir = op[c].dir
      <4>1. op[c] \in Op
        BY <2>2, CheckRunningGoesOn, SpawnGoesOn, WritePidGoesOn
      <4> DEFINE next == [op[c] EXCEPT !.at = "read", !.left = Tail(op[c].left), !.value = 0]
                 spawn == [op[c] EXCEPT !.at = "spawn"]
      <4>2. next.dir = op[c].dir /\ spawn.dir = op[c].dir
        BY <4>1 DEF Op
      <4>3. \A p \in Pids : [op[c] EXCEPT !.at = "write", !.value = p].dir = op[c].dir
        BY <4>1 DEF Op
      <4>4. w \in {Idle, next, spawn}
            \/ \E p \in Pids : w = [op[c] EXCEPT !.at = "write", !.value = p]
        <5>1. \A v : GoesOn(c, v) => v = w
          BY <3>3 DEF GoesOn, TypeInv, NodeTypeOK
        <5>q. QED
          BY <2>2, <5>1, CheckRunningGoesOn, SpawnGoesOn, WritePidGoesOn
      <4>q. QED
        BY <4>2, <4>3, <4>4
    <3>q. QED
      BY <3>1, <3>2, <3>4
  <2>q. QED
    BY <2>1, <2>2 DEF Progress
<1>2. op[c] # Idle /\ op' = [op EXCEPT ![c] = w]
  BY <1>1 DEF GoesOn
<1>3. CASE Doing(d, Starts)'
  <2>1. Doing(d, Starts)
    BY <1>1, <1>2, <1>3, DoingKept
  <2>q. QED
    BY <2>1 DEF InUse, Starts
<1>4. ASSUME NEW p \in Pids, NEW s \in ServiceNames, Alive(p, d, s)'
      PROVE  InUse(d)
  <2>1. CASE Spawn(c)
    <3>1. /\ op[c] \in Op /\ op[c].at = "spawn"
          /\ procs' = procs
             \/ \E q \in Pids : procs' = [procs EXCEPT ![q] = Process(op[c].dir, Service(c), FALSE)]
      BY <2>1, SpawnGoesOn
    <3>2. CASE op[c].dir = d
      BY <1>2, <3>1, <3>2 DEF InUse, Doing, Dir
    <3>3. CASE op[c].dir # d
      <4>1. procs'[p] = procs[p] \/ procs'[p] = Process(op[c].dir, Service(c), FALSE)
        BY <3>1 DEF TypeInv, NodeTypeOK
      <4>2. procs'[p] # Process(op[c].dir, Service(c), FALSE)
        BY <1>4, <3>3 DEF Alive, Process
      <4>3. Alive(p, d, s)
        BY <1>4, <4>1, <4>2 DEF Alive
      <4>q. QED
        BY <4>3 DEF InUse
    <3>q. QED
      BY <3>2, <3>3
  <2>2. CASE Kill(c)
    <3> DEFINE pid == pidFile[op[c].dir][Service(c)]
    <3>1. procs' = procs
          \/ procs' = [procs EXCEPT ![pid] = IF @ = Foreign THEN Dead ELSE [@ EXCEPT !.ending = TRUE]]
      BY <2>2, KillGoesOn
    <3> HIDE DEF pid
    <3>2. \/ procs'[p] = procs[p] \/ procs'[p] = Dead
          \/ procs[p] # Foreign /\ procs'[p] = [procs[p] EXCEPT !.ending = TRUE]
      BY <3>1 DEF TypeInv, NodeTypeOK
    <3>3. procs'[p] # Dead
      BY <1>4 DEF Alive, Process, Dead
    <3>4. CASE procs[p] # Foreign /\ procs'[p] = [procs[p] EXCEPT !.ending = TRUE]
      <4>1. CASE procs[p] = Dead
        BY <1>4, <3>4, <4>1 DEF Alive, Process, Dead
      <4>2. CASE procs[p] # Dead
        <5>1. procs'[p].ending = TRUE
          BY <3>4, <4>2, EndingType DEF TypeInv, NodeTypeOK, ProcsType
        <5>q. QED
          BY <1>4, <5>1 DEF Alive, Process
      <4>q. QED
        BY <4>1, <4>2
    <3>q. QED
      BY <1>4, <3>2, <3>3, <3>4 DEF Alive, InUse
  <2>3. CASE procs' = procs
    BY <1>4, <2>3 DEF Alive, InUse
  <2>q. QED
    BY <2>1, <2>2, <2>3 DEF Progress, WriteKey, WriteConfig, Register, CheckRunning, WritePid,
       Unlink, RemoveFile, RemoveDirectory, Unregister, ReadConfig, PatchConfig
<1>q. QED
  BY <1>3, <1>4 DEF InUse, Starts

(* When the entry of a node is deleted, its directory is not in use.       *)
LEMMA RemovedNotInUse ==
    ASSUME TypeInv, Apart, ProcessInv, NEW c \in Clients, Unregister(c), op[c].dir \notin raced
    PROVE  ~InUse(op[c].dir)
<1> DEFINE d == op[c].dir
<1>1. /\ op[c] \in Op /\ Sound(op[c]) /\ op[c].at = "row" /\ op[c].kind = "remove" /\ op[c] # Idle
  BY UnregisterGoesOn DEF GoesOn
<1>2. d \in Dirs /\ op[c].left = <<>>
  BY <1>1 DEF Op, Sound, ServiceSteps
<1>3. \A s \in ServiceNames, p \in Pids : ~Alive(p, d, s)
  <2>1. DOMAIN op[c].left = {}
    BY <1>2
  <2>q. QED
    BY <1>1, <2>1 DEF ProcessInv, ReliesOn
<1>4. ~Doing(d, {"read", "spawn", "write"})
  <2> SUFFICES ASSUME NEW e \in Clients, op[e] # Idle, op[e].dir = d,
                      op[e].at \in {"read", "spawn", "write"}
               PROVE  FALSE
    BY DEF Doing, Dir
  <2>1. op[e].kind \in {"start", "restart"} /\ e # c
    BY <1>1 DEF TypeInv, OpOK, Sound
  <2>q. QED
    BY <1>1, <1>2, <2>1 DEF Apart, Working, OnProcesses
<1>q. QED
  BY <1>3, <1>4 DEF InUse

LEMMA MovesRows ==
    ASSUME TypeInv, Apart, ProcessInv, EntriesOK, UsedHaveRow, NodeMoves
    PROVE  UsedHaveRow'
<1>0. ASSUME UNCHANGED <<sqlite, rows>>, raced \subseteq raced', mixed \subseteq mixed',
             \A d \in Dirs \ (raced' \cup mixed') : InUse(d)' => InUse(d) \/ HasRow(d)
      PROVE  UsedHaveRow'
  BY <1>0 DEF UsedHaveRow, HasRow
<1>j. ASSUME ~sqlite, UNCHANGED sqlite PROVE UsedHaveRow'
  BY <1>j DEF UsedHaveRow
<1>1. ASSUME NEW c \in Clients, NEW n \in Names, Begins(c, n) PROVE UsedHaveRow'
  <2>1. PICK o \in Op : Fresh(c, n, o)
    BY <1>1, BeginFresh
  <2>2. /\ op'[c] = o /\ \A e \in Clients \ {c} : op'[e] = op[e]
        /\ UNCHANGED <<sqlite, rows, procs>> /\ raced \subseteq raced' /\ mixed \subseteq mixed'
    BY <2>1, FreshHistory DEF Fresh, TypeInv, NodeTypeOK
  <2>3. ASSUME sqlite, NEW d \in Dirs, InUse(d)' PROVE InUse(d) \/ HasRow(d)
    <3>1. CASE o.dir = d /\ o.at \in Starts
      <4>1. rows[n] = d
        BY <2>1, <2>3, <3>1 DEF Fresh, Known, Sound, Starts
      <4>q. QED
        BY <4>1 DEF HasRow
    <3>2. CASE ~(o.dir = d /\ o.at \in Starts)
      <4>1. Doing(d, Starts)' => Doing(d, Starts)
        BY <2>2, <3>2 DEF Doing, Dir
      <4>q. QED
        BY <2>2, <2>3, <4>1 DEF InUse, Alive, Starts
    <3>q. QED
      BY <3>1, <3>2
  <2>q. QED
    BY <1>0, <1>j, <2>2, <2>3
<1>2. ASSUME NEW c \in Clients, Progress(c) PROVE UsedHaveRow'
  <2>0. UNCHANGED <<sqlite, mixed>> /\ raced \subseteq raced'
    BY <1>2, StartAgainGoesOn, RegistryStep DEF Progress, WriteKey, WriteConfig, Register,
       CheckRunning, Spawn, WritePid, Kill, Unlink, RemoveFile, RemoveDirectory, Unregister,
       ReadConfig, PatchConfig, Keeps
  <2>1. CASE StartAgain(c)
    <3>0. /\ op[c] \in Op /\ raced \subseteq raced'
          /\ \/ GoesOn(c, Idle)
             \/ \E d \in Dirs :
                    /\ Known(c)[op[c].name] = d
                    /\ GoesOn(c, [op[c] EXCEPT !.at = "read", !.left = Services, !.dir = d])
      BY <2>1, StartAgainGoesOn
    <3>1. UNCHANGED <<sqlite, rows, procs, mixed>>
      BY <2>1 DEF StartAgain
    <3>2. ASSUME sqlite, NEW d \in Dirs, InUse(d)' PROVE InUse(d) \/ HasRow(d)
      <4>1. CASE rows[op[c].name] = d
        BY <3>0, <4>1 DEF HasRow, Op
      <4>2. CASE rows[op[c].name] # d
        <5>1. op'[c] # Idle => op'[c].dir # d
          <6>1. ASSUME NEW x \in Dirs, Known(c)[op[c].name] = x,
                       GoesOn(c, [op[c] EXCEPT !.at = "read", !.left = Services, !.dir = x])
                PROVE  op'[c].dir # d
            <7>1. op'[c] = [op[c] EXCEPT !.at = "read", !.left = Services, !.dir = x]
              BY <6>1 DEF GoesOn, TypeInv, NodeTypeOK
            <7>2. op'[c].dir = x
              BY <3>0, <7>1 DEF Op
            <7>q. QED
              BY <3>2, <4>2, <6>1, <7>2 DEF Known
          <6>q. QED
            BY <3>0, <6>1 DEF GoesOn, TypeInv, NodeTypeOK
        <5>2. \A e \in Clients \ {c} : op'[e] = op[e]
          BY <3>0 DEF GoesOn, TypeInv, NodeTypeOK
        <5>3. Doing(d, Starts)' => Doing(d, Starts)
          BY <5>1, <5>2 DEF Doing, Dir
        <5>q. QED
          BY <3>1, <3>2, <5>3 DEF InUse, Alive, Starts
      <4>q. QED
        BY <4>1, <4>2
    <3>q. QED
      BY <1>0, <1>j, <3>0, <3>1, <3>2
  <2>2. CASE ~StartAgain(c) /\ sqlite
    <3>1. \A d \in Dirs : InUse(d)' => InUse(d)
      BY <1>2, <2>2, InUseKept
    <3>2. CASE rows' = rows
      BY <1>0, <2>0, <3>1, <3>2
    <3>3. CASE Register(c) \/ Unregister(c)
      <4> SUFFICES ASSUME NEW d \in Dirs \ (raced' \cup mixed'), InUse(d)' PROVE HasRow(d)'
        BY DEF UsedHaveRow
      <4>1. PICK m \in Names : rows[m] = d
        BY <2>0, <2>2, <3>1 DEF UsedHaveRow, HasRow
      <4>2. CASE m # op[c].name
        BY <2>2, <3>3, <4>1, <4>2, TableAfter DEF HasRow
      <4>3. CASE m = op[c].name
        <5>1. EntryOf(c) /\ Known(c)[op[c].name] = d /\ d # NoDir /\ d \notin mixed
          BY <2>0, <2>2, <3>3, <4>1, <4>3, TableAfter, NodeAssumption DEF EntriesOK, Known
        <5>2. ~Register(c)
          BY <2>2, <3>3, <5>1, TableAfter DEF EntryOf
        <5>3. Unregister(c) /\ d = op[c].dir
          BY <2>2, <3>3, <5>1, <5>2, TableAfter DEF EntryOf
        <5>q. QED
          BY <2>0, <3>1, <5>3, RemovedNotInUse
      <4>q. QED
        BY <4>2, <4>3
    <3>q. QED
      BY <1>2, <3>2, <3>3, RegistryStep
  <2>q. QED
    BY <1>j, <2>0, <2>1, <2>2
<1>3. ASSUME NEW c \in Clients, Die(c) PROVE UsedHaveRow'
  <2>1. /\ op' = [op EXCEPT ![c] = Idle] /\ UNCHANGED <<sqlite, procs>>
        /\ raced \subseteq raced' /\ mixed \subseteq mixed' /\ (sqlite => rows' = rows)
    BY <1>3, DieFacts DEF Die
  <2>2. \A d \in Dirs : InUse(d)' => InUse(d)
    BY <2>1, DoingKept DEF InUse, Alive, Starts
  <2>q. QED
    BY <1>0, <1>j, <2>1, <2>2
<1>4. ASSUME UNCHANGED <<op, sqlite, rows, raced, mixed>>,
             \A p \in Pids : \A d, s : Alive(p, d, s)' => Alive(p, d, s)
      PROVE  UsedHaveRow'
  <2>1. \A d \in Dirs : InUse(d)' => InUse(d)
    BY <1>4 DEF InUse, Doing, Dir
  <2>q. QED
    BY <1>0, <1>4, <2>1
<1>5. ASSUME NEW c \in Clients, Lists(c) PROVE UsedHaveRow'
  BY <1>4, <1>5 DEF Lists, Alive
<1>6. ASSUME NEW p \in Pids, Exit(p) \/ Reuse(p) PROVE UsedHaveRow'
  <2>1. \A q \in Pids : procs'[q] = procs[q] \/ procs'[q] \in {Dead, Foreign}
    BY <1>6 DEF Exit, Reuse, TypeInv, NodeTypeOK
  <2>2. \A q \in Pids : \A d, s : Alive(q, d, s)' => Alive(q, d, s)
    BY <2>1 DEF Alive, Process, Dead, Foreign
  <2>q. QED
    BY <1>4, <1>6, <2>2 DEF Exit, Reuse, Keeps, registry
<1>7. CASE UNCHANGED nvars
  BY <1>4, <1>7 DEF nvars, registry, Alive
<1>q. QED
  BY <1>1, <1>2, <1>3, <1>5, <1>6, <1>7 DEF NodeMoves

(* What is tracked is shown. *)
LEMMA TrackedIsShown ==
    ASSUME TypeInv, ProcessInv, UsedHaveRow
    PROVE  LiveIsTracked
<1> SUFFICES ASSUME NEW d \in Dirs \ raced, NEW s \in ServiceNames, NEW p \in Pids,
                    Alive(p, d, s), ~Doing(d, {"write"})
             PROVE  /\ \A c \in Clients, n \in Names :
                         Known(c)[n] = d => getNodeStatus(c, n)[s] = [pid |-> p, running |-> TRUE]
                    /\ sqlite /\ d \notin mixed => \E n \in Names : rows[n] = d
  BY DEF LiveIsTracked
<1>1. pidFile[d][s] = p \/ \E c \in Clients : Starting(c, d, s, p)
  BY DEF ProcessInv, TrackedAt
<1>2. pidFile[d][s] = p
  BY <1>1 DEF Starting, Doing, Dir
<1>3. p # 0 /\ procs[p] # Dead
  BY NodeAssumption DEF Alive, Process, Dead
<1>4. status(d, s) = [pid |-> p, running |-> TRUE]
  BY <1>2, <1>3 DEF status, isRunning
<1>5. sqlite /\ d \notin mixed => \E n \in Names : rows[n] = d
  BY DEF UsedHaveRow, InUse, HasRow
<1>q. QED
  BY <1>4, <1>5 DEF getNodeStatus

-----------------------------------------------------------------------------
(* Keys and configurations *)

(* The files of a directory fit each other, and those of a node are there. *)
Paired(d) ==
    /\ 0 \notin {nodeKey[d], config[d]} => config[d] \in {nodeKey[d], Custom}
    /\ \A n \in Names :
        sqlite /\ rows[n] = d /\ 0 \in {nodeKey[d], config[d]} => Removing(n)

(* What an operation on files relies on at its step: an installation on    *)
(* what it has written, an update on what it has read, a removal of the    *)
(* data on being of the only node there.                                   *)
FilesOf(c) ==
    LET d == op[c].dir IN
    /\ op[c].at = "config" => op[c].value = nodeKey[d] /\ nodeKey[d] # 0 /\ d \in dirs
    /\ op[c].at = "row" /\ op[c].kind = "install" => config[d] = nodeKey[d] /\ nodeKey[d] # 0
    /\ op[c].at = "patch" /\ op[c].value # 0 =>
        op[c].value \in {nodeKey[d], Custom} \/ nodeKey[d] = 0
    /\ op[c].kind = "remove" /\ op[c].withData /\ sqlite =>
        \A m \in Names : rows[m] = d => m = op[c].name

PairedOrInstalling == \A d \in Dirs \ mixed : Installing(d) \/ Paired(d)
FilesRelied == \A c \in Clients : op[c] # Idle /\ op[c].dir \notin mixed => FilesOf(c)

FileInv == PairedOrInstalling /\ FilesRelied

LEMMA InstallAlone ==
    ASSUME Apart, NEW c \in Clients, op[c] # Idle, op[c].kind \in OnFiles, op[c].dir \notin mixed,
           NEW e \in Clients \ {c}, op[e] # Idle, op[e].dir = op[c].dir
    PROVE  /\ op[e].kind # "install"
           /\ op[c].kind = "install" => op[e].kind \notin OnFiles
<1>1. op[e].kind = "install" => Meets(e, c)
  BY DEF Meets
<1>2. op[c].kind = "install" /\ op[e].kind \in OnFiles => Meets(c, e)
  BY DEF Meets
<1>q. QED
  BY <1>1, <1>2 DEF Apart

(* What a step of another leaves an operation on files. *)
Spared(e) ==
    LET d == op[e].dir IN
    /\ op[e].kind = "install" =>
        config'[d] = config[d] /\ nodeKey'[d] = nodeKey[d] /\ (d \in dirs => d \in dirs')
    /\ op[e].kind \in {"update", "edit"} => nodeKey'[d] \in {nodeKey[d], 0}
    /\ op[e].kind = "remove" /\ sqlite => \A m \in Names : rows'[m] = d => rows[m] = d

LEMMA FilesKept ==
    ASSUME TypeInv, NEW e \in Clients, op[e] # Idle, op'[e] = op[e], FilesOf(e), Spared(e),
           UNCHANGED sqlite
    PROVE  FilesOf(e)'
<1>1. Sound(op[e])
  BY DEF TypeInv, OpOK
<1> DEFINE d == op[e].dir
<1>2. op[e].at = "config" => op[e].value = nodeKey'[d] /\ nodeKey'[d] # 0 /\ d \in dirs'
  BY <1>1 DEF FilesOf, Spared, Sound
<1>3. op[e].at = "row" /\ op[e].kind = "install" => config'[d] = nodeKey'[d] /\ nodeKey'[d] # 0
  BY DEF FilesOf, Spared
<1>4. op[e].at = "patch" /\ op[e].value # 0 =>
        op[e].value \in {nodeKey'[d], Custom} \/ nodeKey'[d] = 0
  BY <1>1 DEF FilesOf, Spared, Sound
<1>5. op[e].kind = "remove" /\ op[e].withData /\ sqlite =>
        \A m \in Names : rows'[m] = d => m = op[e].name
  BY DEF FilesOf, Spared
<1>q. QED
  BY <1>2, <1>3, <1>4, <1>5 DEF FilesOf

LEMMA InstallingKept ==
    ASSUME TypeInv, NEW c \in Clients, NEW w, op' = [op EXCEPT ![c] = w], NEW d, Installing(d),
           op[c] # Idle /\ op[c].kind = "install" /\ op[c].dir = d =>
                w # Idle /\ w.kind = "install" /\ w.dir = d
    PROVE  Installing(d)'
<1>1. PICK e \in Clients : op[e] # Idle /\ op[e].kind = "install" /\ op[e].dir = d
  BY DEF Installing, Dir
<1>2. op'[c] = w /\ (e # c => op'[e] = op[e])
  BY DEF TypeInv, NodeTypeOK
<1>3. op'[e] # Idle /\ op'[e].kind = "install" /\ op'[e].dir = d
  BY <1>1, <1>2
<1>q. QED
  BY <1>3 DEF Installing, Dir

LEMMA RemovingKept ==
    ASSUME TypeInv, NEW c \in Clients, NEW w, op' = [op EXCEPT ![c] = w], NEW n, Removing(n),
           op[c] # Idle /\ op[c].kind = "remove" /\ op[c].at \in {"rm", "row"} /\ op[c].name = n =>
                w # Idle /\ w.kind = "remove" /\ w.at \in {"rm", "row"} /\ w.name = n
    PROVE  Removing(n)'
<1>1. PICK e \in Clients :
        op[e] # Idle /\ op[e].kind = "remove" /\ op[e].at \in {"rm", "row"} /\ op[e].name = n
  BY DEF Removing
<1>2. op'[c] = w /\ (e # c => op'[e] = op[e])
  BY DEF TypeInv, NodeTypeOK
<1>3. op'[e] # Idle /\ op'[e].kind = "remove" /\ op'[e].at \in {"rm", "row"} /\ op'[e].name = n
  BY <1>1, <1>2
<1>q. QED
  BY <1>3 DEF Removing

LEMMA PairedKept ==
    ASSUME NEW d, Paired(d), UNCHANGED sqlite,
           nodeKey'[d] = nodeKey[d], config'[d] = config[d],
           \A n \in Names : sqlite /\ rows'[n] = d => rows[n] = d /\ (Removing(n) => Removing(n)')
    PROVE  Paired(d)'
<1>1. ASSUME NEW n \in Names, sqlite, rows'[n] = d, 0 \in {nodeKey[d], config[d]}
      PROVE  Removing(n)'
  BY <1>1 DEF Paired
<1>q. QED
  BY <1>1 DEF Paired

LEMMA RelianceOnFiles ==
    ASSUME TypeInv, FilesRelied, NEW c \in Clients, NEW w, op' = [op EXCEPT ![c] = w],
           UNCHANGED sqlite, mixed \subseteq mixed',
           w # Idle /\ w.dir \notin mixed' => FilesOf(c)',
           \A e \in Clients \ {c} : op[e] # Idle /\ op[e].dir \notin mixed' => Spared(e)
    PROVE  FilesRelied'
<1>1. op'[c] = w /\ \A e \in Clients \ {c} : op'[e] = op[e]
  BY DEF TypeInv, NodeTypeOK
<1>2. ASSUME NEW e \in Clients \ {c}, op[e] # Idle, op[e].dir \notin mixed' PROVE FilesOf(e)'
  <2>1. FilesOf(e) /\ op'[e] = op[e]
    BY <1>1, <1>2 DEF FilesRelied
  <2>q. QED
    BY <1>2, <2>1, FilesKept
<1>3. \A e \in Clients : op'[e] # Idle /\ op'[e].dir \notin mixed' => FilesOf(e)'
  BY <1>1, <1>2
<1>q. QED
  BY <1>3 DEF FilesRelied

(* A step that leaves files and rows as they are. *)
LEMMA QuietFiles ==
    ASSUME TypeInv, FileInv, NEW c \in Clients, NEW w, op' = [op EXCEPT ![c] = w],
           UNCHANGED <<sqlite, rows, config, nodeKey>>, mixed \subseteq mixed',
           dirs \subseteq dirs',
           op[c] # Idle => op[c].kind # "install" /\ ~(op[c].kind = "remove" /\ op[c].at = "row"),
           op[c] # Idle /\ op[c].at = "rm" =>
                w # Idle /\ w.kind = "remove" /\ w.at \in {"rm", "row"} /\ w.name = op[c].name,
           w # Idle /\ w.dir \notin mixed' => FilesOf(c)'
    PROVE  FileInv'
<1>1. ASSUME NEW d \in Dirs \ mixed' PROVE Installing(d)' \/ Paired(d)'
  <2>1. Installing(d) => Installing(d)'
    BY InstallingKept
  <2>2. \A n \in Names : Removing(n) => Removing(n)'
    BY RemovingKept
  <2>3. Installing(d) \/ Paired(d)
    BY DEF FileInv, PairedOrInstalling
  <2>q. QED
    BY <2>1, <2>2, <2>3, PairedKept
<1>2. \A e \in Clients \ {c} : op[e] # Idle /\ op[e].dir \notin mixed' => Spared(e)
  BY DEF Spared
<1>3. FilesRelied'
  BY <1>2, RelianceOnFiles DEF FileInv
<1>q. QED
  BY <1>1, <1>3 DEF FileInv, PairedOrInstalling

LEMMA WriteKeyFiles ==
    ASSUME TypeInv, Apart, FileInv, NEW c \in Clients, WriteKey(c)
    PROVE  FileInv'
<1> DEFINE d == op[c].dir
           w == [op[c] EXCEPT !.at = "config", !.value = keys + 1]
<1>1. /\ op[c] \in Op /\ op[c].kind = "install" /\ op[c] # Idle /\ op[c].at = "key"
      /\ op' = [op EXCEPT ![c] = w]
  BY WriteKeyGoesOn DEF GoesOn
<1>2. d \in Dirs /\ w.at = "config" /\ w.value = keys + 1 /\ w.kind = "install" /\ w.dir = d
  BY <1>1 DEF Op
<1> HIDE DEF w
<1>3. op'[c] = w /\ w # Idle
  BY <1>1, <1>2 DEF TypeInv, NodeTypeOK, Idle
<1>4. /\ nodeKey' = [nodeKey EXCEPT ![d] = keys + 1] /\ dirs' = dirs \cup {d}
      /\ UNCHANGED <<sqlite, rows, cache, config, mixed>>
  BY DEF WriteKey, Keeps, Dir, registry
<1>5. /\ nodeKey'[d] = keys + 1 /\ keys + 1 # 0
      /\ \A x \in Dirs : x # d => nodeKey'[x] = nodeKey[x]
  BY <1>2, <1>4, NodeAssumption DEF TypeInv, NodeTypeOK
<1>6. ASSUME NEW x \in Dirs \ mixed' PROVE Installing(x)' \/ Paired(x)'
  <2>1. CASE x = d
    BY <1>2, <1>3, <2>1 DEF Installing, Dir
  <2>2. CASE x # d
    <3>1. Installing(x) => Installing(x)'
      BY <1>1, <2>2, InstallingKept
    <3>2. \A n \in Names : Removing(n) => Removing(n)'
      BY <1>1, RemovingKept
    <3>3. Installing(x) \/ Paired(x)
      BY <1>4, <1>6 DEF FileInv, PairedOrInstalling
    <3>q. QED
      BY <1>4, <1>5, <2>2, <3>1, <3>2, <3>3, PairedKept
  <2>q. QED
    BY <2>1, <2>2
<1>7. FilesOf(c)'
  BY <1>2, <1>3, <1>4, <1>5 DEF FilesOf
<1>8. ASSUME NEW e \in Clients \ {c}, op[e] # Idle, op[e].dir \notin mixed' PROVE Spared(e)
  <2>1. op[e].dir \in Dirs
    BY <1>8 DEF TypeInv, OpOK, Op
  <2>2. CASE op[e].dir = d
    <3>1. op[e].kind \notin OnFiles
      BY <1>1, <1>4, <1>8, <2>2, InstallAlone DEF OnFiles
    <3>q. QED
      BY <3>1 DEF Spared, OnFiles
  <2>3. CASE op[e].dir # d
    BY <1>4, <1>5, <2>1, <2>3 DEF Spared
  <2>q. QED
    BY <2>2, <2>3
<1>9. FilesRelied'
  BY <1>1, <1>4, <1>7, <1>8, RelianceOnFiles DEF FileInv
<1>q. QED
  BY <1>6, <1>9 DEF FileInv, PairedOrInstalling

LEMMA WriteConfigFiles ==
    ASSUME TypeInv, Apart, FileInv, NEW c \in Clients, WriteConfig(c)
    PROVE  FileInv'
<1> DEFINE d == op[c].dir
           w == [op[c] EXCEPT !.at = "row"]
<1>1. /\ op[c] \in Op /\ op[c].kind = "install" /\ op[c] # Idle /\ op[c].at = "config"
      /\ d \notin dirs => op' = [op EXCEPT ![c] = Idle]
      /\ d \in dirs => op' = [op EXCEPT ![c] = w]
  BY WriteConfigGoesOn DEF GoesOn, WriteConfig, At
<1>2. d \in Dirs /\ w.at = "row" /\ w.kind = "install" /\ w.dir = d /\ w # Idle
  BY <1>1 DEF Op, Idle
<1> HIDE DEF w
<1>3. PICK v \in {Idle, w} : op' = [op EXCEPT ![c] = v] /\ (d \in dirs => v = w)
  BY <1>1
<1>4. op'[c] = v
  BY <1>3 DEF TypeInv, NodeTypeOK
<1>5. /\ UNCHANGED <<sqlite, rows, nodeKey, dirs, mixed>>
      /\ d \in dirs => config' = [config EXCEPT ![d] = op[c].value]
      /\ d \notin dirs => config' = config
  BY DEF WriteConfig, Keeps, Dir, registry
<1>6. /\ \A x \in Dirs : x # d => config'[x] = config[x]
      /\ d \in dirs => config'[d] = op[c].value
  BY <1>2, <1>5 DEF TypeInv, NodeTypeOK
<1>7. d \notin mixed => /\ v = w /\ config'[d] = nodeKey'[d] /\ nodeKey'[d] # 0
  BY <1>1, <1>3, <1>5, <1>6 DEF FileInv, FilesRelied, FilesOf
<1>8. ASSUME NEW x \in Dirs \ mixed' PROVE Installing(x)' \/ Paired(x)'
  <2>1. CASE x = d
    BY <1>2, <1>4, <1>5, <1>7, <1>8, <2>1 DEF Installing, Dir
  <2>2. CASE x # d
    <3>1. Installing(x) => Installing(x)'
      BY <1>3, <2>2, InstallingKept
    <3>2. \A n \in Names : Removing(n) => Removing(n)'
      BY <1>1, <1>3, RemovingKept
    <3>3. Installing(x) \/ Paired(x)
      BY <1>5, <1>8 DEF FileInv, PairedOrInstalling
    <3>q. QED
      BY <1>5, <1>6, <2>2, <3>1, <3>2, <3>3, PairedKept
  <2>q. QED
    BY <2>1, <2>2
<1>9. ASSUME v # Idle, v.dir \notin mixed' PROVE FilesOf(c)'
  BY <1>2, <1>3, <1>4, <1>5, <1>7, <1>9 DEF FilesOf
<1>10. ASSUME NEW e \in Clients \ {c}, op[e] # Idle, op[e].dir \notin mixed' PROVE Spared(e)
  <2>1. op[e].dir \in Dirs
    BY <1>10 DEF TypeInv, OpOK, Op
  <2>2. CASE op[e].dir = d
    <3>1. op[e].kind \notin OnFiles
      BY <1>1, <1>5, <1>10, <2>2, InstallAlone DEF OnFiles
    <3>q. QED
      BY <3>1 DEF Spared, OnFiles
  <2>3. CASE op[e].dir # d
    BY <1>5, <1>6, <2>1, <2>3 DEF Spared
  <2>q. QED
    BY <2>2, <2>3
<1>11. FilesRelied'
  BY <1>3, <1>5, <1>9, <1>10, RelianceOnFiles DEF FileInv
<1>q. QED
  BY <1>8, <1>11 DEF FileInv, PairedOrInstalling

(* An operation goes on that changes files in its own directory only, or   *)
(* where operations met, and rows in the table of that directory only.     *)
FilesChange(c, w, D) ==
    /\ op[c] # Idle /\ D = op[c].dir
    /\ op' = [op EXCEPT ![c] = w] /\ UNCHANGED sqlite /\ mixed \subseteq mixed'
    /\ \A x \in Dirs \ mixed' : x # D =>
        nodeKey'[x] = nodeKey[x] /\ config'[x] = config[x] /\ (x \in dirs => x \in dirs')
    /\ \A n \in Names : sqlite => rows'[n] \in {rows[n], D, NoDir}
    /\ \A n \in Names : sqlite /\ Removing(n) /\ rows'[n] # NoDir =>
        Removing(n)' \/ rows'[n] \in {D} \cup mixed'

LEMMA FilesStep ==
    ASSUME TypeInv, FileInv, NEW c \in Clients, NEW w, NEW D, FilesChange(c, w, D),
           D \in mixed' \/ Installing(D)' \/ Paired(D)',
           w # Idle /\ w.dir \notin mixed' => FilesOf(c)',
           \A e \in Clients \ {c} :
                op[e] # Idle /\ op[e].dir = D /\ D \notin mixed' => Spared(e)
    PROVE  FileInv'
<1> USE DEF FilesChange
<1>1. ASSUME NEW x \in Dirs \ mixed', x # D PROVE Installing(x)' \/ Paired(x)'
  <2>1. Installing(x) => Installing(x)'
    BY <1>1, InstallingKept
  <2>2. \A n \in Names :
            sqlite /\ rows'[n] = x => rows[n] = x /\ (Removing(n) => Removing(n)')
    BY <1>1, NodeAssumption
  <2>3. Installing(x) \/ Paired(x)
    BY <1>1 DEF FileInv, PairedOrInstalling
  <2>q. QED
    BY <1>1, <2>1, <2>2, <2>3, PairedKept
<1>2. PairedOrInstalling'
  BY <1>1 DEF PairedOrInstalling
<1>3. ASSUME NEW e \in Clients \ {c}, op[e] # Idle, op[e].dir \notin mixed' PROVE Spared(e)
  <2>1. op[e].dir \in Dirs
    BY <1>3 DEF TypeInv, OpOK, Op
  <2>2. CASE op[e].dir = D
    BY <1>3, <2>2
  <2>3. CASE op[e].dir # D
    BY <1>3, <2>1, <2>3, NodeAssumption DEF Spared
  <2>q. QED
    BY <2>2, <2>3
<1>4. FilesRelied'
  BY <1>3, RelianceOnFiles DEF FileInv
<1>q. QED
  BY <1>2, <1>4 DEF FileInv

LEMMA RegisterFiles ==
    ASSUME TypeInv, Apart, FileInv, NEW c \in Clients, Register(c)
    PROVE  FileInv'
<1>0. PICK d : d = op[c].dir
  OBVIOUS
<1>1. /\ op[c] \in Op /\ op[c].at = "row" /\ op[c].kind = "install" /\ op[c] # Idle
      /\ op' = [op EXCEPT ![c] = Idle]
  BY <1>0, RegisterGoesOn DEF GoesOn
<1>2. UNCHANGED <<sqlite, nodeKey, config, mixed>> /\ dirs' = dirs \cup {d}
  BY <1>0 DEF Register, Keeps, Dir
<1>3. ASSUME sqlite
      PROVE  \A n \in Names : rows'[n] \in {rows[n], d, NoDir}
  BY <1>0, <1>3, TableAfter
<1>4. d \in mixed \/ (config[d] = nodeKey[d] /\ nodeKey[d] # 0)
  BY <1>0, <1>1 DEF FileInv, FilesRelied, FilesOf
<1>5. d \in mixed' \/ Paired(d)'
  BY <1>0, <1>2, <1>4 DEF Paired
<1>6. \A n \in Names : Removing(n) => Removing(n)'
  BY <1>0, <1>1, RemovingKept
<1>7. ASSUME NEW e \in Clients \ {c}, op[e] # Idle, op[e].dir = d, d \notin mixed' PROVE Spared(e)
  <2>1. op[e].kind \notin OnFiles
    BY <1>0, <1>1, <1>2, <1>7, InstallAlone DEF OnFiles
  <2>q. QED
    BY <1>0, <2>1 DEF Spared, OnFiles
<1>h. FilesChange(c, Idle, d)
  BY <1>0, <1>1, <1>2, <1>3, <1>5, <1>6, <1>7 DEF FilesChange
<1>q. QED
  BY <1>h, <1>0, <1>1, <1>2, <1>3, <1>5, <1>6, <1>7, FilesStep

LEMMA UnregisterFiles ==
    ASSUME TypeInv, Apart, FileInv, NEW c \in Clients, Unregister(c)
    PROVE  FileInv'
<1>0. PICK d : d = op[c].dir
  OBVIOUS
<1>1. /\ op[c] \in Op /\ op[c].at = "row" /\ op[c].kind = "remove" /\ op[c] # Idle
      /\ op' = [op EXCEPT ![c] = Idle]
  BY <1>0, UnregisterGoesOn DEF GoesOn
<1>2. UNCHANGED <<sqlite, nodeKey, config, dirs, mixed>>
  BY <1>0 DEF Unregister, Keeps, files
<1>3. ASSUME sqlite, NEW n \in Names
      PROVE  /\ rows'[n] \in {rows[n], NoDir}
             /\ Removing(n) /\ rows'[n] # NoDir => Removing(n)'
  <2>1. rows'[op[c].name] = NoDir /\ \A m \in Names : m # op[c].name => rows'[m] = rows[m]
    BY <1>0, <1>3, TableAfter
  <2>2. CASE n = op[c].name
    BY <1>0, <2>1, <2>2
  <2>3. CASE n # op[c].name
    BY <1>0, <1>1, <2>1, <2>3, RemovingKept
  <2>q. QED
    BY <1>0, <2>2, <2>3
<1>4. d \in Dirs
  BY <1>0, <1>1 DEF Op
<1>5. ASSUME d \notin mixed' PROVE Installing(d)' \/ Paired(d)'
  <2>1. Installing(d) \/ Paired(d)
    BY <1>0, <1>2, <1>4, <1>5 DEF FileInv, PairedOrInstalling
  <2>2. Installing(d) => Installing(d)'
    BY <1>0, <1>1, InstallingKept
  <2>3. \A n \in Names :
            sqlite /\ rows'[n] = d => rows[n] = d /\ (Removing(n) => Removing(n)')
    BY <1>0, <1>3, <1>4, NodeAssumption
  <2>q. QED
    BY <1>0, <1>2, <2>1, <2>2, <2>3, PairedKept
<1>6. ASSUME NEW e \in Clients \ {c}, op[e].dir = d PROVE Spared(e)
  BY <1>0, <1>2, <1>3, <1>4, <1>6, NodeAssumption DEF Spared
<1>a. UNCHANGED sqlite /\ mixed \subseteq mixed' /\ op[c] # Idle /\ op' = [op EXCEPT ![c] = Idle]
  BY <1>0, <1>1, <1>2, <1>3, <1>5, <1>6
<1>b. \A x \in Dirs \ mixed' : x # d =>
        nodeKey'[x] = nodeKey[x] /\ config'[x] = config[x] /\ (x \in dirs => x \in dirs')
  BY <1>0, <1>1, <1>2, <1>3, <1>5, <1>6
<1>c. \A n \in Names : sqlite => rows'[n] \in {rows[n], d, NoDir}
  BY <1>0, <1>1, <1>2, <1>3, <1>5, <1>6
<1>d. \A n \in Names : sqlite /\ Removing(n) /\ rows'[n] # NoDir =>
        Removing(n)' \/ rows'[n] \in {d} \cup mixed'
  BY <1>0, <1>1, <1>2, <1>3, <1>5, <1>6
<1>e. d \in mixed' \/ Installing(d)' \/ Paired(d)'
  BY <1>0, <1>1, <1>2, <1>3, <1>5, <1>6
<1>g. \A e \in Clients \ {c} :
        op[e] # Idle /\ op[e].dir = d /\ d \notin mixed' => Spared(e)
  BY <1>0, <1>1, <1>2, <1>3, <1>5, <1>6
<1>h. FilesChange(c, Idle, d)
  BY <1>0, <1>a, <1>b, <1>c, <1>d DEF FilesChange
<1>q. QED
  BY <1>h, <1>e, <1>g, FilesStep

(* A removal takes a file in a directory that is that of its node only.    *)
LEMMA RemoveFileFiles ==
    ASSUME TypeInv, Apart, FileInv, NEW c \in Clients, RemoveFile(c)
    PROVE  FileInv'
<1>0. PICK d : d = op[c].dir
  OBVIOUS
<1>1. /\ op[c] \in Op /\ op[c].at = "rm" /\ op[c].kind = "remove" /\ op[c] # Idle
      /\ op' = op /\ op' = [op EXCEPT ![c] = op[c]]
  BY <1>0, RemoveFileGoesOn DEF GoesOn
<1>2. d \in Dirs
  BY <1>0, <1>1 DEF Op
<1>3. /\ op[c].withData /\ UNCHANGED <<sqlite, rows, dirs, mixed>>
      /\ \/ nodeKey' = [nodeKey EXCEPT ![d] = 0] /\ config' = config
         \/ config' = [config EXCEPT ![d] = 0] /\ nodeKey' = nodeKey
         \/ UNCHANGED <<nodeKey, config>>
  BY <1>0 DEF RemoveFile, Keeps, Dir, registry
<1>4. /\ \A x \in Dirs : x # d => nodeKey'[x] = nodeKey[x] /\ config'[x] = config[x]
      /\ \/ nodeKey'[d] = 0 /\ config'[d] = config[d]
         \/ config'[d] = 0 /\ nodeKey'[d] = nodeKey[d]
         \/ nodeKey'[d] = nodeKey[d] /\ config'[d] = config[d]
  BY <1>0, <1>2, <1>3 DEF TypeInv, NodeTypeOK
<1>5. ASSUME d \notin mixed' PROVE Paired(d)'
  <2>1. \A e \in Clients \ {c} : op[e] # Idle /\ op[e].dir = d => op[e].kind # "install"
    BY <1>0, <1>1, <1>3, <1>5, InstallAlone DEF OnFiles
  <2>2. ~Installing(d)
    BY <1>0, <1>1, <2>1 DEF Installing, Dir
  <2>3. Paired(d)
    BY <1>0, <1>2, <1>3, <1>5, <2>2 DEF FileInv, PairedOrInstalling
  <2>4. 0 \notin {nodeKey'[d], config'[d]} => config'[d] \in {nodeKey'[d], Custom}
    BY <1>0, <1>4, <2>3 DEF Paired
  <2>5. FilesOf(c)
    BY <1>0, <1>1, <1>3, <1>5 DEF FileInv, FilesRelied
  <2>6. ASSUME sqlite, NEW n \in Names, rows[n] = d PROVE Removing(n)'
    <3>1. n = op[c].name
      BY <1>0, <1>1, <1>3, <2>5, <2>6 DEF FilesOf
    <3>q. QED
      BY <1>0, <1>1, <3>1 DEF Removing
  <2>q. QED
    BY <1>0, <1>3, <2>4, <2>6 DEF Paired
<1>6. \A n \in Names : Removing(n) => Removing(n)'
  BY <1>0, <1>1, RemovingKept
<1>7. ASSUME d \notin mixed' PROVE FilesOf(c)'
  BY <1>0, <1>1, <1>3, <1>7 DEF FileInv, FilesRelied, FilesOf
<1>8. ASSUME NEW e \in Clients \ {c}, op[e] # Idle, op[e].dir = d, d \notin mixed' PROVE Spared(e)
  <2>1. op[e].kind # "install"
    BY <1>0, <1>1, <1>3, <1>8, InstallAlone DEF OnFiles
  <2>q. QED
    BY <1>0, <1>3, <1>4, <1>8, <2>1 DEF Spared
<1>a. UNCHANGED sqlite /\ mixed \subseteq mixed' /\ op[c] # Idle /\ op' = [op EXCEPT ![c] = op[c]]
  BY <1>0, <1>1, <1>3, <1>4, <1>5, <1>6, <1>7, <1>8
<1>b. \A x \in Dirs \ mixed' : x # d =>
        nodeKey'[x] = nodeKey[x] /\ config'[x] = config[x] /\ (x \in dirs => x \in dirs')
  BY <1>0, <1>1, <1>3, <1>4, <1>5, <1>6, <1>7, <1>8
<1>c. \A n \in Names : sqlite => rows'[n] \in {rows[n], d, NoDir}
  BY <1>0, <1>1, <1>3, <1>4, <1>5, <1>6, <1>7, <1>8
<1>d. \A n \in Names : sqlite /\ Removing(n) /\ rows'[n] # NoDir =>
        Removing(n)' \/ rows'[n] \in {d} \cup mixed'
  BY <1>0, <1>1, <1>3, <1>4, <1>5, <1>6, <1>7, <1>8
<1>e. d \in mixed' \/ Installing(d)' \/ Paired(d)'
  BY <1>0, <1>1, <1>3, <1>4, <1>5, <1>6, <1>7, <1>8
<1>f. op[c] # Idle /\ op[c].dir \notin mixed' => FilesOf(c)'
  BY <1>0, <1>1, <1>3, <1>4, <1>5, <1>6, <1>7, <1>8
<1>g. \A e \in Clients \ {c} :
        op[e] # Idle /\ op[e].dir = d /\ d \notin mixed' => Spared(e)
  BY <1>0, <1>1, <1>3, <1>4, <1>5, <1>6, <1>7, <1>8
<1>h. FilesChange(c, op[c], d)
  BY <1>0, <1>a, <1>b, <1>c, <1>d DEF FilesChange
<1>q. QED
  BY <1>h, <1>e, <1>f, <1>g, FilesStep

LEMMA RemoveDirectoryFiles ==
    ASSUME TypeInv, Apart, FileInv, NEW c \in Clients, RemoveDirectory(c)
    PROVE  FileInv'
<1>0. PICK d : d = op[c].dir
  OBVIOUS
<1> DEFINE w == [op[c] EXCEPT !.at = "row"]
<1>1. /\ op[c] \in Op /\ op[c].at = "rm" /\ op[c].kind = "remove" /\ op[c] # Idle
      /\ op' = [op EXCEPT ![c] = w]
  BY <1>0, RemoveDirectoryGoesOn DEF GoesOn
<1>2. /\ d \in Dirs /\ w.at = "row" /\ w.kind = "remove" /\ w.dir = d /\ w.name = op[c].name
      /\ w.withData = op[c].withData /\ w # Idle
  BY <1>0, <1>1 DEF Op, Idle
<1> HIDE DEF w
<1>3. op'[c] = w
  BY <1>0, <1>1 DEF TypeInv, NodeTypeOK
<1>4. UNCHANGED <<sqlite, rows, nodeKey, config, mixed>> /\ \A x \in dirs : x # d => x \in dirs'
  BY <1>0 DEF RemoveDirectory, Keeps, Dir, registry
<1>5. \A n \in Names : Removing(n) => Removing(n)'
  BY <1>0, <1>1, <1>2, RemovingKept
<1>6. ASSUME d \notin mixed' PROVE Installing(d)' \/ Paired(d)'
  <2>1. Installing(d) \/ Paired(d)
    BY <1>0, <1>2, <1>4, <1>6 DEF FileInv, PairedOrInstalling
  <2>2. Installing(d) => Installing(d)'
    BY <1>0, <1>1, InstallingKept
  <2>q. QED
    BY <1>0, <1>4, <1>5, <2>1, <2>2, PairedKept
<1>7. ASSUME d \notin mixed' PROVE FilesOf(c)'
  <2>1. FilesOf(c)
    BY <1>0, <1>1, <1>4, <1>7 DEF FileInv, FilesRelied
  <2>q. QED
    BY <1>0, <1>1, <1>2, <1>3, <1>4, <2>1 DEF FilesOf
<1>8. ASSUME NEW e \in Clients \ {c}, op[e] # Idle, op[e].dir = d, d \notin mixed' PROVE Spared(e)
  <2>1. op[e].kind # "install"
    BY <1>0, <1>1, <1>4, <1>8, InstallAlone DEF OnFiles
  <2>q. QED
    BY <1>0, <1>4, <1>8, <2>1 DEF Spared
<1>a. UNCHANGED sqlite /\ mixed \subseteq mixed' /\ op[c] # Idle /\ op' = [op EXCEPT ![c] = w]
  BY <1>0, <1>1, <1>2, <1>4, <1>5, <1>6, <1>7, <1>8
<1>b. \A x \in Dirs \ mixed' : x # d =>
        nodeKey'[x] = nodeKey[x] /\ config'[x] = config[x] /\ (x \in dirs => x \in dirs')
  BY <1>0, <1>1, <1>2, <1>4, <1>5, <1>6, <1>7, <1>8
<1>c. \A n \in Names : sqlite => rows'[n] \in {rows[n], d, NoDir}
  BY <1>0, <1>1, <1>2, <1>4, <1>5, <1>6, <1>7, <1>8
<1>d. \A n \in Names : sqlite /\ Removing(n) /\ rows'[n] # NoDir =>
        Removing(n)' \/ rows'[n] \in {d} \cup mixed'
  BY <1>0, <1>1, <1>2, <1>4, <1>5, <1>6, <1>7, <1>8
<1>e. d \in mixed' \/ Installing(d)' \/ Paired(d)'
  BY <1>0, <1>1, <1>2, <1>4, <1>5, <1>6, <1>7, <1>8
<1>f. w # Idle /\ w.dir \notin mixed' => FilesOf(c)'
  BY <1>0, <1>1, <1>2, <1>4, <1>5, <1>6, <1>7, <1>8
<1>g. \A e \in Clients \ {c} :
        op[e] # Idle /\ op[e].dir = d /\ d \notin mixed' => Spared(e)
  BY <1>0, <1>1, <1>2, <1>4, <1>5, <1>6, <1>7, <1>8
<1>h. FilesChange(c, w, d)
  BY <1>0, <1>a, <1>b, <1>c, <1>d DEF FilesChange
<1>q. QED
  BY <1>h, <1>e, <1>f, <1>g, FilesStep

(* The steps of starting and stopping leave keys and configurations alone. *)
LEMMA ProcessFiles ==
    ASSUME TypeInv, FileInv, NEW c \in Clients,
           \/ CheckRunning(c) \/ Spawn(c) \/ WritePid(c) \/ Kill(c) \/ Unlink(c) \/ StartAgain(c)
    PROVE  FileInv'
<1>1. PICK w \in {Idle} \cup Op : GoesOn(c, w)
  BY ProgressGoesOn DEF Progress
<1>2. op[c] # Idle /\ op' = [op EXCEPT ![c] = w] /\ op'[c] = w
  BY <1>1 DEF GoesOn, TypeInv, NodeTypeOK
<1>3. op[c].at \in {"read", "spawn", "write", "kill", "unlink", "pause"}
  BY DEF CheckRunning, Spawn, WritePid, Kill, Unlink, StartAgain, At
<1>4. op[c] \in Op /\ op[c].kind \in {"start", "stop", "restart", "remove"}
  BY <1>2, <1>3 DEF TypeInv, OpOK, Sound
<1>5. UNCHANGED <<sqlite, rows, config, nodeKey, mixed>> /\ dirs \subseteq dirs'
  BY DEF CheckRunning, Spawn, WritePid, Kill, Unlink, StartAgain, Keeps, registry, files
<1>6. ASSUME w # Idle, w.dir \notin mixed' PROVE FilesOf(c)'
  <2>1. /\ Sound(w) /\ w.kind = op[c].kind /\ w.name = op[c].name /\ w.withData = op[c].withData
        /\ w.dir = op[c].dir \/ w.kind = "restart"
    BY <1>1, <1>6 DEF GoesOn
  <2>2. w.at \notin {"config", "patch"} /\ w.kind # "install"
    BY <1>4, <2>1 DEF Sound
  <2>3. w.kind = "remove" => w.dir = op[c].dir /\ FilesOf(c)
    BY <1>2, <1>5, <1>6, <2>1 DEF FileInv, FilesRelied
  <2>q. QED
    BY <1>2, <1>5, <2>1, <2>2, <2>3 DEF FilesOf
<1>q. QED
  BY <1>2, <1>3, <1>4, <1>5, <1>6, QuietFiles

LEMMA ReadConfigFiles ==
    ASSUME TypeInv, Apart, FileInv, NEW c \in Clients, ReadConfig(c)
    PROVE  FileInv'
<1>0. PICK d : d = op[c].dir
  OBVIOUS
<1> DEFINE r == [op[c] EXCEPT !.at = "patch", !.value = config[d]]
<1>1. /\ op[c] \in Op /\ op[c].at = "patch" /\ op[c].kind \in {"update", "edit"} /\ op[c] # Idle
  BY <1>0, ReadConfigGoesOn DEF GoesOn
<1>2. d \in Dirs /\ r.at = "patch" /\ r.value = config[d] /\ r.kind = op[c].kind /\ r.dir = d
  BY <1>0, <1>1 DEF Op, TypeInv, NodeTypeOK
<1>3. PICK w \in {Idle, r} : op' = [op EXCEPT ![c] = w]
  BY <1>0, ReadConfigGoesOn DEF GoesOn
<1> HIDE DEF r
<1>4. op'[c] = w
  BY <1>0, <1>3 DEF TypeInv, NodeTypeOK
<1>5. UNCHANGED <<sqlite, rows, config, nodeKey, mixed, dirs>>
  BY <1>0 DEF ReadConfig, Keeps, registry, files
<1>6. ASSUME w # Idle, w.dir \notin mixed' PROVE FilesOf(c)'
  <2>1. w = r /\ d \notin mixed
    BY <1>0, <1>2, <1>3, <1>5, <1>6
  <2>2. \A e \in Clients \ {c} : op[e] # Idle /\ op[e].dir = d => op[e].kind # "install"
    BY <1>0, <1>1, <2>1, InstallAlone DEF OnFiles
  <2>3. ~Installing(d)
    BY <1>0, <1>1, <2>2 DEF Installing, Dir
  <2>4. Paired(d)
    BY <1>0, <1>2, <2>1, <2>3 DEF FileInv, PairedOrInstalling
  <2>q. QED
    BY <1>0, <1>1, <1>2, <1>4, <1>5, <2>1, <2>4 DEF FilesOf, Paired
<1>q. QED
  BY <1>0, <1>1, <1>3, <1>5, <1>6, QuietFiles

(* A patch is written to the directory that it was read from, unless the   *)
(* node was installed anew in between.                                     *)
LEMMA PatchTarget ==
    ASSUME TypeInv, EntriesOK, NEW c \in Clients, PatchConfig(c)
    PROVE  /\ op[c] # Idle /\ op[c] \in Op /\ op[c].value # 0 /\ op[c].at = "patch"
           /\ op[c].kind \in {"update", "edit"}
           /\ \A x \in Dirs \ mixed :
                \/ config'[x] = config[x]
                \/ x = op[c].dir /\ config'[x] \in {op[c].value, Custom}
<1> DEFINE target == IF op[c].kind = "edit" THEN Dir(c) ELSE Known(c)[op[c].name]
<1>1. /\ op[c] \in Op /\ op[c].at = "patch" /\ op[c].kind \in {"update", "edit"} /\ op[c] # Idle
  BY PatchConfigGoesOn DEF GoesOn
<1>2. op[c].value # 0 /\ \E nodeId \in {op[c].value, Custom} :
        config' = IF target \in dirs THEN [config EXCEPT ![target] = nodeId] ELSE config
  BY DEF PatchConfig
<1>3. target \in {NoDir, op[c].dir} \cup mixed
  BY <1>1 DEF EntriesOK, EntryOf, Dir
<1> HIDE DEF target
<1>4. ASSUME NEW x \in Dirs \ mixed
      PROVE  config'[x] = config[x] \/ (x = op[c].dir /\ config'[x] \in {op[c].value, Custom})
  <2>1. PICK nodeId \in {op[c].value, Custom} :
          config' = IF target \in dirs THEN [config EXCEPT ![target] = nodeId] ELSE config
    BY <1>2
  <2>2. CASE x = target
    <3>1. x = op[c].dir
      BY <1>3, <1>4, <2>2, NodeAssumption
    <3>q. QED
      BY <2>1, <2>2, <3>1 DEF TypeInv, NodeTypeOK
  <2>3. CASE x # target
    BY <2>1, <2>3 DEF TypeInv, NodeTypeOK
  <2>q. QED
    BY <2>2, <2>3
<1>q. QED
  BY <1>1, <1>2, <1>4

LEMMA PatchConfigFiles ==
    ASSUME TypeInv, Apart, EntriesOK, FileInv, NEW c \in Clients, PatchConfig(c)
    PROVE  FileInv'
<1>0. PICK d : d = op[c].dir
  OBVIOUS
<1>1. /\ op[c] # Idle /\ op[c] \in Op /\ op[c].value # 0 /\ op[c].at = "patch"
      /\ op[c].kind \in {"update", "edit"}
      /\ op' = [op EXCEPT ![c] = Idle]
  BY <1>0, PatchTarget, PatchConfigGoesOn DEF GoesOn
<1>2. UNCHANGED <<sqlite, rows, nodeKey, mixed, dirs>>
  BY <1>0 DEF PatchConfig, Keeps, registry
<1>3. /\ \A x \in Dirs \ mixed : x # d => config'[x] = config[x]
      /\ d \notin mixed => config'[d] = config[d] \/ config'[d] \in {op[c].value, Custom}
  BY <1>0, <1>1, PatchTarget DEF Op
<1>4. \A n \in Names : Removing(n) => Removing(n)'
  BY <1>0, <1>1, RemovingKept
<1>5. ASSUME d \notin mixed' PROVE Paired(d)'
  <2>1. \A e \in Clients \ {c} : op[e] # Idle /\ op[e].dir = d => op[e].kind # "install"
    BY <1>0, <1>1, <1>2, <1>5, InstallAlone DEF OnFiles
  <2>2. ~Installing(d)
    BY <1>0, <1>1, <2>1 DEF Installing, Dir
  <2>3. Paired(d)
    BY <1>0, <1>1, <1>2, <1>5, <2>2 DEF FileInv, PairedOrInstalling, Op
  <2>4. CASE config'[d] = config[d]
    BY <1>0, <1>2, <1>4, <2>3, <2>4, PairedKept
  <2>5. CASE config'[d] \in {op[c].value, Custom}
    <3>1. op[c].value \in {nodeKey[d], Custom} \/ nodeKey[d] = 0
      BY <1>0, <1>1, <1>2, <1>5 DEF FileInv, FilesRelied, FilesOf
    <3>2. config'[d] # 0
      BY <1>0, <1>1, <2>5 DEF Custom
    <3>3. 0 \notin {nodeKey'[d], config'[d]} => config'[d] \in {nodeKey'[d], Custom}
      BY <1>0, <1>2, <2>5, <3>1
    <3>4. ASSUME NEW n \in Names, sqlite, rows[n] = d, 0 \in {nodeKey[d], config'[d]}
          PROVE  Removing(n)'
      BY <1>0, <1>4, <2>3, <3>2, <3>4 DEF Paired
    <3>q. QED
      BY <1>0, <1>2, <3>3, <3>4 DEF Paired
  <2>q. QED
    BY <1>0, <1>2, <1>3, <1>5, <2>4, <2>5
<1>6. ASSUME NEW e \in Clients \ {c}, op[e] # Idle, op[e].dir = d, d \notin mixed' PROVE Spared(e)
  <2>1. op[e].kind # "install"
    BY <1>0, <1>1, <1>2, <1>6, InstallAlone DEF OnFiles
  <2>q. QED
    BY <1>0, <1>2, <1>6, <2>1 DEF Spared
<1>a. UNCHANGED sqlite /\ mixed \subseteq mixed' /\ op[c] # Idle /\ op' = [op EXCEPT ![c] = Idle]
  BY <1>0, <1>1, <1>2, <1>3, <1>4, <1>5, <1>6
<1>b. \A x \in Dirs \ mixed' : x # d =>
        nodeKey'[x] = nodeKey[x] /\ config'[x] = config[x] /\ (x \in dirs => x \in dirs')
  BY <1>0, <1>1, <1>2, <1>3, <1>4, <1>5, <1>6
<1>c. \A n \in Names : sqlite => rows'[n] \in {rows[n], d, NoDir}
  BY <1>0, <1>1, <1>2, <1>3, <1>4, <1>5, <1>6
<1>d. \A n \in Names : sqlite /\ Removing(n) /\ rows'[n] # NoDir =>
        Removing(n)' \/ rows'[n] \in {d} \cup mixed'
  BY <1>0, <1>1, <1>2, <1>3, <1>4, <1>5, <1>6
<1>e. d \in mixed' \/ Installing(d)' \/ Paired(d)'
  BY <1>0, <1>1, <1>2, <1>3, <1>4, <1>5, <1>6
<1>g. \A e \in Clients \ {c} :
        op[e] # Idle /\ op[e].dir = d /\ d \notin mixed' => Spared(e)
  BY <1>0, <1>1, <1>2, <1>3, <1>4, <1>5, <1>6
<1>h. FilesChange(c, Idle, d)
  BY <1>0, <1>a, <1>b, <1>c, <1>d DEF FilesChange
<1>q. QED
  BY <1>h, <1>e, <1>g, FilesStep

LEMMA DieFiles ==
    ASSUME TypeInv, EntriesOK, FileInv, NEW c \in Clients, Die(c)
    PROVE  FileInv'
<1>0. PICK d : d = op[c].dir
  OBVIOUS
<1>1. /\ op' = [op EXCEPT ![c] = Idle] /\ UNCHANGED <<sqlite, dirs>>
      /\ mixed \subseteq mixed' /\ (sqlite => rows' = rows)
      /\ \A x \in Dirs \ mixed' : nodeKey'[x] = nodeKey[x] /\ config'[x] = config[x]
      /\ op[c] # Idle => d \in Dirs /\ (op[c].kind \in OnFiles => d \in mixed')
  BY <1>0, DieFacts DEF Die
<1>2. CASE op[c] = Idle
  <2>1. UNCHANGED <<rows, nodeKey, config>>
    BY <1>0, <1>2 DEF Die
  <2>q. QED
    BY <1>0, <1>1, <1>2, <2>1, QuietFiles
<1>3. CASE op[c] # Idle
  <2>1. ASSUME sqlite, NEW n \in Names, Removing(n), rows'[n] # NoDir
        PROVE  Removing(n)' \/ rows'[n] \in {d} \cup mixed'
    <3>1. CASE op[c].kind = "remove" /\ op[c].name = n
      BY <1>0, <1>1, <1>3, <2>1, <3>1 DEF EntriesOK, EntryOf, Known
    <3>2. CASE ~(op[c].kind = "remove" /\ op[c].name = n)
      BY <1>0, <1>1, <1>3, <2>1, <3>2, RemovingKept
    <3>q. QED
      BY <1>0, <3>1, <3>2
  <2>2. ASSUME d \notin mixed' PROVE Installing(d)' \/ Paired(d)'
    <3>1. op[c].kind \notin OnFiles
      BY <1>0, <1>1, <1>3, <2>2
    <3>2. Installing(d) => Installing(d)'
      BY <1>0, <1>1, <3>1, InstallingKept DEF OnFiles
    <3>3. \A n \in Names : Removing(n) => Removing(n)'
      BY <1>0, <1>1, <3>1, RemovingKept DEF OnFiles
    <3>4. Installing(d) \/ Paired(d)
      BY <1>0, <1>1, <1>3, <2>2 DEF FileInv, PairedOrInstalling
    <3>5. nodeKey'[d] = nodeKey[d] /\ config'[d] = config[d]
      BY <1>0, <1>1, <1>3, <2>2
    <3>6. \A n \in Names : sqlite /\ rows'[n] = d => rows[n] = d
      BY <1>0, <1>1
    <3>q. QED
      BY <1>0, <1>1, <3>2, <3>3, <3>4, <3>5, <3>6, PairedKept
  <2>3. ASSUME NEW e \in Clients \ {c}, op[e] # Idle, op[e].dir = d, d \notin mixed' PROVE Spared(e)
    BY <1>0, <1>1, <1>3, <2>3 DEF Spared
  <2>4. \A n \in Names : sqlite => rows'[n] \in {rows[n], d, NoDir}
    BY <1>0, <1>1
  <2>a. UNCHANGED sqlite /\ mixed \subseteq mixed' /\ op[c] # Idle /\ op' = [op EXCEPT ![c] = Idle]
    BY <1>0, <1>1, <1>3, <2>1, <2>2, <2>3, <2>4
  <2>b. \A x \in Dirs \ mixed' : x # d =>
          nodeKey'[x] = nodeKey[x] /\ config'[x] = config[x] /\ (x \in dirs => x \in dirs')
    BY <1>0, <1>1, <1>3, <2>1, <2>2, <2>3, <2>4
  <2>c. \A n \in Names : sqlite => rows'[n] \in {rows[n], d, NoDir}
    BY <1>0, <1>1, <1>3, <2>1, <2>2, <2>3, <2>4
  <2>d. \A n \in Names : sqlite /\ Removing(n) /\ rows'[n] # NoDir =>
          Removing(n)' \/ rows'[n] \in {d} \cup mixed'
    BY <1>0, <1>1, <1>3, <2>1, <2>2, <2>3, <2>4
  <2>e. d \in mixed' \/ Installing(d)' \/ Paired(d)'
    BY <1>0, <1>1, <1>3, <2>1, <2>2, <2>3, <2>4
  <2>g. \A e \in Clients \ {c} :
          op[e] # Idle /\ op[e].dir = d /\ d \notin mixed' => Spared(e)
    BY <1>0, <1>1, <1>3, <2>1, <2>2, <2>3, <2>4
  <2>h. FilesChange(c, Idle, d)
    BY <1>0, <2>a, <2>b, <2>c, <2>d DEF FilesChange
  <2>q. QED
    BY <2>h, <2>e, <2>g, FilesStep
<1>q. QED
  BY <1>0, <1>2, <1>3

LEMMA FreshFiles ==
    ASSUME TypeInv, FileInv, NEW c \in Clients, NEW n \in Names, NEW o \in Op, Fresh(c, n, o)
    PROVE  FileInv'
<1>1. /\ op[c] = Idle /\ op' = [op EXCEPT ![c] = o] /\ op'[c] = o
      /\ UNCHANGED <<sqlite, rows, config, nodeKey, dirs>>
      /\ o.name = n /\ o.value = 0 /\ o.at \in {"key", "read", "kill", "patch"}
  BY DEF Fresh, TypeInv, NodeTypeOK, files
<1>2. mixed \subseteq mixed'
  BY FreshHistory
<1>3. o.withData /\ Shared(n, o.dir) => o.dir \in mixed'
  BY DEF Fresh
<1>4. o.withData /\ o.dir \notin mixed' => \A m \in Names : rows[m] = o.dir => m = n
  BY <1>3 DEF Shared
<1>5. o # Idle /\ o.dir \notin mixed' => FilesOf(c)'
  BY <1>1, <1>4 DEF FilesOf
<1>q. QED
  BY <1>1, <1>2, <1>5, QuietFiles

LEMMA StillFiles ==
    ASSUME FileInv, UNCHANGED <<sqlite, rows, files, op, mixed>>
    PROVE  FileInv'
<1>1. UNCHANGED <<dirs, nodeKey, config>>
  BY DEF files
<1>2. \A d \in Dirs : (Installing(d) => Installing(d)') /\ (Paired(d) => Paired(d)')
  BY <1>1 DEF Installing, Paired, Removing, Dir
<1>3. \A c \in Clients : FilesOf(c) => FilesOf(c)'
  BY <1>1 DEF FilesOf
<1>q. QED
  BY <1>2, <1>3 DEF FileInv, PairedOrInstalling, FilesRelied

LEMMA MovesFile ==
    ASSUME TypeInv, Apart, EntriesOK, FileInv, NodeMoves
    PROVE  FileInv'
<1>1. ASSUME NEW c \in Clients, NEW n \in Names, Begins(c, n) PROVE FileInv'
  BY <1>1, BeginFresh, FreshFiles
<1>2. ASSUME NEW c \in Clients, Progress(c) PROVE FileInv'
  BY <1>2, WriteKeyFiles, WriteConfigFiles, RegisterFiles, UnregisterFiles, RemoveFileFiles,
     RemoveDirectoryFiles, ProcessFiles, ReadConfigFiles, PatchConfigFiles DEF Progress
<1>3. ASSUME NEW c \in Clients, Die(c) PROVE FileInv'
  BY <1>3, DieFiles
<1>4. ASSUME NEW c \in Clients, Lists(c) PROVE FileInv'
  BY <1>4, StillFiles DEF Lists
<1>5. ASSUME NEW p \in Pids, Exit(p) \/ Reuse(p) PROVE FileInv'
  BY <1>5, StillFiles DEF Exit, Reuse, Keeps, registry
<1>6. CASE UNCHANGED nvars
  BY <1>6, StillFiles DEF nvars, registry
<1>q. QED
  BY <1>1, <1>2, <1>3, <1>4, <1>5, <1>6 DEF NodeMoves

(* The key in the directory of a node changes by a removal or by the       *)
(* installation of another node there.                                     *)
LEMMA MovesKeepKeys ==
    ASSUME TypeInv, EntriesOK, NodeMoves, NEW n \in Names, NEW d \in Dirs \ mixed',
           sqlite, rows[n] = d, nodeKey'[d] # nodeKey[d]
    PROVE  \E c \in Clients :
                \/ At(c, "rm") /\ op[c].withData /\ Dir(c) = d
                \/ At(c, "key") /\ op[c].name # n /\ Dir(c) = d
<1>1. ASSUME NEW c \in Clients, NEW m \in Names, Begins(c, m) PROVE nodeKey' = nodeKey
  BY <1>1, BeginFresh DEF Fresh, files
<1>2. ASSUME NEW c \in Clients, Die(c) PROVE FALSE
  BY <1>2, DieFacts
<1>3. PICK c \in Clients : Progress(c)
  BY <1>1, <1>2 DEF NodeMoves, Lists, Exit, Reuse, nvars, files
<1>4. WriteKey(c) \/ RemoveFile(c)
  BY <1>3 DEF Progress, WriteConfig, Register, CheckRunning, Spawn, WritePid, Kill, Unlink,
     StartAgain, RemoveDirectory, Unregister, ReadConfig, PatchConfig, files
<1>5. CASE WriteKey(c)
  <2>1. At(c, "key") /\ op[c].kind = "install" /\ op[c] # Idle /\ UNCHANGED mixed
    BY <1>5, WriteKeyGoesOn DEF WriteKey, At, Keeps
  <2>2. Dir(c) = d
    BY <1>5 DEF WriteKey, TypeInv, NodeTypeOK
  <2>3. Known(c)[op[c].name] \in {NoDir} \cup mixed
    BY <2>1 DEF EntriesOK, EntryOf
  <2>4. op[c].name # n
    BY <2>1, <2>3, NodeAssumption DEF Known
  <2>q. QED
    BY <2>1, <2>2, <2>4
<1>6. CASE RemoveFile(c)
  <2>1. At(c, "rm") /\ op[c].withData
    BY <1>6 DEF RemoveFile
  <2>2. Dir(c) = d
    BY <1>6 DEF RemoveFile, TypeInv, NodeTypeOK
  <2>q. QED
    BY <2>1, <2>2
<1>q. QED
  BY <1>4, <1>5, <1>6

-----------------------------------------------------------------------------
(* All together *)

NodeInv == TypeInv /\ Apart /\ ProcessInv /\ EntriesOK /\ UsedHaveRow /\ FileInv

LEMMA InitNodeInv == NodeInit => NodeInv
<1> SUFFICES ASSUME NodeInit PROVE NodeInv
  OBVIOUS
<1>1. TypeInv
  <2>1. 0 \in 0..MaxKeys /\ 0 \in 0..MaxOps /\ 0 \in NodeIds
    BY NodeAssumption DEF NodeIds
  <2>2. NoNodes \in Entries
    BY DEF NoNodes, Entries
  <2>q. QED
    BY <2>1, <2>2 DEF NodeInit, TypeInv, NodeTypeOK, OpOK
<1>2. \A c \in Clients : op[c] = Idle
  BY DEF NodeInit
<1>3. Apart
  BY <1>2 DEF Apart, Working, Meets
<1>4. \A p \in Pids : \A d, s : ~Alive(p, d, s)
  BY DEF NodeInit, Alive, Process, Dead
<1>5. ProcessInv
  BY <1>2, <1>4 DEF ProcessInv, TrackedAt
<1>6. EntriesOK
  BY <1>2 DEF EntriesOK
<1>7. UsedHaveRow
  BY <1>2, <1>4 DEF UsedHaveRow, InUse, Doing
<1>8. \A d \in Dirs : Paired(d)
  BY NodeAssumption DEF NodeInit, Paired, NoNodes
<1>9. FileInv
  BY <1>2, <1>8 DEF FileInv, PairedOrInstalling, FilesRelied
<1>q. QED
  BY <1>1, <1>3, <1>5, <1>6, <1>7, <1>9 DEF NodeInv

LEMMA MovesNodeInv ==
    ASSUME NodeInv, NodeMoves
    PROVE  NodeInv'
  BY MovesType, MovesApart, MovesProcess, MovesEntries, MovesRows, MovesFile DEF NodeInv

LEMMA NodeInvShows ==
    ASSUME NodeInv
    PROVE  NodeTypeOK /\ LiveIsTracked /\ ConfigNamesKey
<1>1. LiveIsTracked
  BY TrackedIsShown DEF NodeInv
<1>2. ConfigNamesKey
  BY DEF NodeInv, FileInv, PairedOrInstalling, Paired, ConfigNamesKey
<1>q. QED
  BY <1>1, <1>2 DEF NodeInv, TypeInv

(* For any number of names, programs, pids and operations: what runs is    *)
(* shown to whoever looks for it, and the files of a node fit each other.  *)
THEOREM NodesTracked == NodeSpec => [](LiveIsTracked /\ ConfigNamesKey)
<1>1. NodeInv /\ [NodeNext]_nvars => NodeInv'
  BY NextMoves, MovesNodeInv
<1>2. NodeInv => LiveIsTracked /\ ConfigNamesKey
  BY NodeInvShows
<1>q. QED
  BY InitNodeInv, <1>1, <1>2, PTL DEF NodeSpec

=============================================================================
