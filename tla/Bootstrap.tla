------------------------------ MODULE Bootstrap ------------------------------
(***************************************************************************)
(* BootstrapManager: "bootstrap dev" brings up a hardhat chain, generates  *)
(* and funds an operator key, deploys contracts, and installs and starts a *)
(* node through the NodeManager of NodeLifecycle; "bootstrap teardown"     *)
(* takes it down.  Both may fail half way, and be run again.               *)
(*                                                                         *)
(* A hardhat process is the chain it serves: it keeps nothing on disk.  A  *)
(* contract address is the chain that the contract was deployed on, 0 if   *)
(* none is known.                                                          *)
(***************************************************************************)
EXTENDS NodeLifecycle

CONSTANTS
    DevNode,          \* the name of the node, "dev-1" by default
    Contracts,        \* keys of contract addresses in the artifact store
    Ports,            \* ports a run may be told to give hardhat
    MaxChains,        \* bound: hardhat processes spawned
    MaxOperatorKeys   \* bound: operator keys generated

ASSUME BootstrapAssumption ==
    /\ DevNode \in Names
    /\ {"soul_registry", "did_registry"} \subseteq Contracts
    /\ Ports \subseteq Nat \ {0}
    /\ MaxChains \in Nat
    /\ MaxOperatorKeys \in Nat

VARIABLES
    chains,       \* chains[h]: state of hardhat process h
    ports,        \* ports[h]: the port it was told to serve, 0 if unused
    hardhatPid,   \* content of hardhat.pid, 0 if absent
    artifacts,    \* addresses in coc_artifacts of network local
    operatorKey,  \* content of keys/operator.key, 0 if absent
    backupKey,    \* backup.privateKey in config.json, 0 if absent
    funded,       \* accounts funded: pairs of a chain and a key
    boot,         \* boot[c]: what bootstrap command program c runs, and where
    untracked,    \* history: chains whose pid a crash kept from being written
    bypassed,     \* history: chains that a later run did not notice, because
                  \* they were not listening yet, or not on its port
    overlapped    \* history: whether two runs went on at the same time

bvars == <<chains, ports, hardhatPid, artifacts, operatorKey, backupKey, funded, boot,
           untracked, bypassed, overlapped>>
vars == <<nvars, bvars>>

Chains == 1..MaxChains
NoArtifacts == [k \in Contracts |-> 0]
NotRunning == [at |-> "none"]

DevSteps == {"ports", "spawn", "pid", "l1", "key", "fund", "deploy",
             "install", "installing", "start", "starting", "persist", "backup"}
TearSteps == {"stop", "hardhat", "unlinkHardhat", "forget"}

TypeOK ==
    /\ NodeTypeOK
    /\ chains \in [Chains -> {"unused", "starting", "listening", "dead"}]
    /\ ports \in [Chains -> {0} \cup Ports]
    /\ hardhatPid \in {0} \cup Chains
    /\ artifacts \in [Contracts -> {0} \cup Chains]
    /\ operatorKey \in 0..MaxOperatorKeys
    /\ backupKey \in 0..MaxOperatorKeys
    /\ funded \subseteq Chains \X (1..MaxOperatorKeys)
    /\ boot \in [Clients -> {NotRunning} \cup
                    [at : DevSteps \cup TearSteps, port : {0} \cup Ports,
                     chain : {0} \cup Chains, key : 0..MaxOperatorKeys,
                     configured : BOOLEAN, left : SUBSET Names]]
    /\ untracked \subseteq Chains
    /\ bypassed \subseteq Chains
    /\ overlapped \in BOOLEAN

Init ==
    /\ NodeInit
    /\ chains = [h \in Chains |-> "unused"]
    /\ ports = [h \in Chains |-> 0]
    /\ hardhatPid = 0
    /\ artifacts = NoArtifacts
    /\ operatorKey = 0
    /\ backupKey = 0
    /\ funded = {}
    /\ boot = [c \in Clients |-> NotRunning]
    /\ untracked = {}
    /\ bypassed = {}
    /\ overlapped = FALSE

Live(h) == chains[h] \in {"starting", "listening"}
Listening == {h \in Chains : chains[h] = "listening"}
ListeningOn(port) == {h \in Listening : ports[h] = port}

On(c, at) == boot[c] # NotRunning /\ boot[c].at = at
Proceed(c, at) == boot' = [boot EXCEPT ![c].at = at]
End(c) == boot' = [boot EXCEPT ![c] = NotRunning]

(***************************************************************************)
(* bootstrap dev.                                                          *)
(***************************************************************************)

(* runDev() begins; the configuration was read when the program started.   *)
(* Only claw-mem, which keeps its nodes in the table, has these commands.  *)
(* The port of hardhat is the configured one or an option of the command.  *)
RunDev(c) ==
    /\ sqlite
    /\ boot[c] = NotRunning
    /\ op[c] = Idle
    /\ \E h \in Chains : chains[h] = "unused"
    /\ \E port \in Ports :
        boot' = [boot EXCEPT ![c] = [at |-> "ports", port |-> port, chain |-> 0, key |-> 0,
                                     configured |-> backupKey # 0, left |-> {}]]
    /\ overlapped' = (overlapped \/ \E d \in Clients : boot[d] # NotRunning)
    /\ UNCHANGED <<nvars, chains, ports, hardhatPid, artifacts, operatorKey, backupKey,
                   funded, untracked, bypassed>>

(* Mutant: only the port of the node is looked at. *)
PortsInUseByNode(port) == \E p \in Pids : procs[p] \notin {Dead, Foreign}

(* Step 4: something answers on the port that this run will use.           *)
PortsInUse(port) == ListeningOn(port) # {}

(* Chains that the check of a run for this port does not notice. *)
Unnoticed(port) ==
    {h \in Chains : Live(h) /\ ~(chains[h] = "listening" /\ ports[h] = port)}

(* Mutant: the ports are not checked. *)
CheckNoPorts(c) ==
    /\ On(c, "ports")
    /\ Proceed(c, "spawn")
    /\ bypassed' = bypassed \cup Unnoticed(boot[c].port)
    /\ UNCHANGED <<nvars, chains, ports, hardhatPid, artifacts, operatorKey, backupKey,
                   funded, untracked, overlapped>>

(* The ports of the node are looked at too, and whoever has one ends the   *)
(* run.  What is found in step 5 changes nothing.                          *)
CheckPorts(c) ==
    /\ On(c, "ports")
    /\ \/ End(c) /\ UNCHANGED bypassed
       \/ /\ ~PortsInUse(boot[c].port)
          /\ Proceed(c, "spawn")
          /\ bypassed' = bypassed \cup Unnoticed(boot[c].port)
    /\ UNCHANGED <<nvars, chains, ports, hardhatPid, artifacts, operatorKey, backupKey,
                   funded, untracked, overlapped>>

(* Step 6: spawnHardhat(), ... *)
SpawnHardhat(c) ==
    /\ On(c, "spawn")
    /\ \E h \in Chains :
        /\ chains[h] = "unused"
        /\ \A g \in 1..(h - 1) : chains[g] # "unused"
        /\ chains' = [chains EXCEPT ![h] = "starting"]
        /\ ports' = [ports EXCEPT ![h] = boot[c].port]
        /\ boot' = [boot EXCEPT ![c].at = "pid", ![c].chain = h]
    /\ UNCHANGED <<nvars, hardhatPid, artifacts, operatorKey, backupKey, funded,
                   untracked, bypassed, overlapped>>

(* ... which writes hardhat.pid.  The rows of the pid here and of the key   *)
(* in step 8 are only shown by "bootstrap status".                         *)
WriteHardhatPid(c) ==
    /\ On(c, "pid")
    /\ hardhatPid' = boot[c].chain
    /\ Proceed(c, "l1")
    /\ UNCHANGED <<nvars, chains, ports, artifacts, operatorKey, backupKey, funded,
                   untracked, bypassed, overlapped>>

(* Step 7: whoever answers on the port, within 40 seconds. *)
WaitForL1Ready(c) ==
    /\ On(c, "l1")
    /\ \/ ListeningOn(boot[c].port) # {} /\ Proceed(c, "key")
       \/ ListeningOn(boot[c].port) = {} /\ End(c)
    /\ UNCHANGED <<nvars, chains, ports, hardhatPid, artifacts, operatorKey, backupKey,
                   funded, untracked, bypassed, overlapped>>

(* Step 8: every run has a new key. *)
GenerateKey(c) ==
    /\ On(c, "key")
    /\ operatorKey < MaxOperatorKeys
    /\ operatorKey' = operatorKey + 1
    /\ boot' = [boot EXCEPT ![c].at = "fund", ![c].key = operatorKey + 1]
    /\ UNCHANGED <<nvars, chains, ports, hardhatPid, artifacts, backupKey, funded, untracked,
                   bypassed, overlapped>>

(* Step 9. *)
FundOperator(c) ==
    /\ On(c, "fund")
    /\ IF ListeningOn(boot[c].port) = {} THEN End(c) /\ UNCHANGED funded
       ELSE /\ funded' = funded \cup {<<h, boot[c].key>> : h \in ListeningOn(boot[c].port)}
            /\ Proceed(c, "deploy")
    /\ UNCHANGED <<nvars, chains, ports, hardhatPid, artifacts, operatorKey, backupKey,
                   untracked, bypassed, overlapped>>

(* ArtifactStore.set(): one address per key, whatever the network. *)
set(D, h) == artifacts' = [k \in Contracts |-> IF k \in D THEN h ELSE artifacts[k]]

(* deployContract() fails for each by itself: its artifact is missing, or  *)
(* the node does not answer.                                               *)
Deployable(port) == IF ListeningOn(port) = {} THEN {{}} ELSE SUBSET Contracts

(* Step 10: none if they are skipped or do not compile; DIDRegistry needs  *)
(* the SoulRegistry of this run.                                           *)
DeployContracts(c) ==
    /\ On(c, "deploy")
    /\ \E D \in Deployable(boot[c].port) :
        /\ "did_registry" \in D => "soul_registry" \in D
        /\ IF D = {} THEN UNCHANGED artifacts ELSE \E h \in ListeningOn(boot[c].port) : set(D, h)
        /\ Proceed(c, "install")
    /\ UNCHANGED <<nvars, chains, ports, hardhatPid, operatorKey, backupKey, funded,
                   untracked, bypassed, overlapped>>

(* Steps 11 and 12: an installed node is used as it is. *)
InstallNode(c) ==
    /\ On(c, "install")
    /\ op[c] = Idle
    /\ \/ Registered(c, DevNode) /\ Proceed(c, "start") /\ UNCHANGED nvars
       \/ BeginInstall(c, DevNode, DevNode) /\ Proceed(c, "installing")
       \/ ~Registered(c, DevNode) /\ End(c) /\ UNCHANGED nvars
    /\ UNCHANGED <<chains, ports, hardhatPid, artifacts, operatorKey, backupKey, funded,
                   untracked, bypassed, overlapped>>

Returned(c, at, next) ==
    /\ On(c, at)
    /\ op[c] = Idle
    /\ Proceed(c, next)
    /\ UNCHANGED <<nvars, chains, ports, hardhatPid, artifacts, operatorKey, backupKey,
                   funded, untracked, bypassed, overlapped>>

(* Step 13: a failure is a warning.  Steps 14 and 15 wait and warn. *)
StartNode(c) ==
    /\ On(c, "start")
    /\ op[c] = Idle
    /\ \/ BeginStart(c, DevNode) /\ Proceed(c, "starting")
       \/ Proceed(c, "persist") /\ UNCHANGED nvars
    /\ UNCHANGED <<chains, ports, hardhatPid, artifacts, operatorKey, backupKey, funded,
                   untracked, bypassed, overlapped>>

(* Step 16: "if missing" in what the program read when it started.         *)
PersistKey(c, written) ==
    /\ On(c, "persist")
    /\ backupKey' = IF written /\ ~boot[c].configured THEN boot[c].key ELSE backupKey
    /\ Proceed(c, "backup")
    /\ UNCHANGED <<nvars, chains, ports, hardhatPid, artifacts, operatorKey, funded,
                   untracked, bypassed, overlapped>>

(* Step 17: a first backup, of which only a warning is left if it fails.   *)
FirstBackup(c) ==
    /\ On(c, "backup")
    /\ End(c)
    /\ UNCHANGED <<nvars, chains, ports, hardhatPid, artifacts, operatorKey, backupKey,
                   funded, untracked, bypassed, overlapped>>

(***************************************************************************)
(* bootstrap teardown.                                                     *)
(***************************************************************************)

(* stopNode() of every registered node, one after the other; a failure is  *)
(* a warning, ...                                                          *)
Teardown(c) ==
    /\ sqlite
    /\ boot[c] = NotRunning
    /\ op[c] = Idle
    /\ Load(c)
    /\ boot' = [boot EXCEPT ![c] = [at |-> "stop", port |-> 0, chain |-> 0, key |-> 0,
                                    configured |-> FALSE,
                                    left |-> {n \in Names : Registered(c, n)}]]
    /\ overlapped' = (overlapped \/ \E d \in Clients : boot[d] # NotRunning)
    /\ UNCHANGED <<sqlite, rows, files, pidFile, procs, op, keys, ops, raced, mixed,
                   chains, ports, hardhatPid, artifacts, operatorKey, backupKey, funded,
                   untracked, bypassed>>

StopNextNode(c) ==
    /\ On(c, "stop")
    /\ op[c] = Idle
    /\ IF boot[c].left = {} THEN Proceed(c, "hardhat") /\ UNCHANGED nvars
       ELSE \E n \in boot[c].left :
            /\ boot' = [boot EXCEPT ![c].left = @ \ {n}]
            /\ \/ BeginStop(c, n)
               \/ ~Registered(c, n) /\ UNCHANGED nvars
    /\ UNCHANGED <<chains, ports, hardhatPid, artifacts, operatorKey, backupKey, funded,
                   untracked, bypassed, overlapped>>

(* ... stopHardhat(), which leaves the file of a process that is gone, ... *)
StopHardhat(c) ==
    /\ On(c, "hardhat")
    /\ IF hardhatPid = 0 \/ ~Live(hardhatPid)
       THEN Proceed(c, "forget") /\ UNCHANGED chains
       ELSE /\ chains' = [chains EXCEPT ![hardhatPid] = "dead"]
            /\ Proceed(c, "unlinkHardhat")
    /\ UNCHANGED <<nvars, ports, hardhatPid, artifacts, operatorKey, backupKey, funded,
                   untracked, bypassed, overlapped>>

UnlinkHardhat(c) ==
    /\ On(c, "unlinkHardhat")
    /\ hardhatPid' = 0
    /\ Proceed(c, "forget")
    /\ UNCHANGED <<nvars, chains, ports, artifacts, operatorKey, backupKey, funded,
                   untracked, bypassed, overlapped>>

(* ... and the artifacts; keys stay. *)
ForgetArtifacts(c) ==
    /\ On(c, "forget")
    /\ artifacts' = NoArtifacts
    /\ End(c)
    /\ UNCHANGED <<nvars, chains, ports, hardhatPid, operatorKey, backupKey, funded,
                   untracked, bypassed, overlapped>>

(***************************************************************************)
(* What else happens.                                                      *)
(***************************************************************************)

(* hardhat binds its port, or ends if another one has it. *)
Listen(h) ==
    /\ chains[h] = "starting"
    /\ chains' = [chains EXCEPT ![h] = IF ListeningOn(ports[h]) = {} THEN "listening" ELSE "dead"]
    /\ UNCHANGED <<nvars, ports, hardhatPid, artifacts, operatorKey, backupKey, funded, boot,
                   untracked, bypassed, overlapped>>

HardhatEnds(h) ==
    /\ Live(h)
    /\ chains' = [chains EXCEPT ![h] = "dead"]
    /\ UNCHANGED <<nvars, ports, hardhatPid, artifacts, operatorKey, backupKey, funded, boot,
                   untracked, bypassed, overlapped>>

(* The program that runs the command ends, in the command or in a node     *)
(* operation that the command made.                                        *)
ProgramEnds(c) ==
    /\ boot[c] # NotRunning
    /\ IF op[c] = Idle THEN UNCHANGED nvars ELSE Die(c)
    /\ untracked' = IF On(c, "pid") THEN untracked \cup {boot[c].chain} ELSE untracked
    /\ End(c)
    /\ UNCHANGED <<chains, ports, hardhatPid, artifacts, operatorKey, backupKey, funded,
                   bypassed, overlapped>>

BootStep(c) ==
    \/ RunDev(c)
    \/ CheckPorts(c)
    \/ SpawnHardhat(c)
    \/ WriteHardhatPid(c)
    \/ WaitForL1Ready(c)
    \/ GenerateKey(c)
    \/ FundOperator(c)
    \/ DeployContracts(c)
    \/ InstallNode(c)
    \/ Returned(c, "installing", "start")
    \/ StartNode(c)
    \/ Returned(c, "starting", "persist")
    \/ \E written \in BOOLEAN : PersistKey(c, written)
    \/ FirstBackup(c)
    \/ Teardown(c)
    \/ StopNextNode(c)
    \/ StopHardhat(c)
    \/ UnlinkHardhat(c)
    \/ ForgetArtifacts(c)
    \/ ProgramEnds(c)

(* A program takes no other command while it runs one; claw-mem has tools  *)
(* of its own.                                                             *)
NodeCommand(c) == boot[c] = NotRunning /\ Command(c) /\ UNCHANGED bvars
NodeTool(c) == boot[c] = NotRunning /\ Tool(c) /\ UNCHANGED bvars

NodeStep(c) ==
    /\ Progress(c) \/ (boot[c] = NotRunning /\ Die(c))
    /\ UNCHANGED bvars

Next ==
    \/ \E c \in Clients : BootStep(c) \/ NodeCommand(c) \/ NodeTool(c) \/ NodeStep(c)
    \/ (\E p \in Pids : Exit(p) \/ Reuse(p)) /\ UNCHANGED bvars
    \/ \E h \in Chains : Listen(h) \/ HardhatEnds(h)

Spec == Init /\ [][Next]_vars

(***************************************************************************)
(* Properties.                                                             *)
(***************************************************************************)

(* Teardown finds every hardhat that runs: hardhat.pid names it, unless it *)
(* is being written, two commands overlapped, the program died before it   *)
(* wrote the file, or a later run did not notice it: one with another      *)
(* --hardhat-port, or one that began before it had bound its port, writes  *)
(* its own pid over that of the chain that runs.                           *)
HardhatIsTracked ==
    \A h \in Chains \ (untracked \cup bypassed) :
        Live(h) /\ ~overlapped =>
            hardhatPid = h \/ \E c \in Clients : On(c, "pid") /\ boot[c].chain = h

(* The funded key of a chain that still runs is not lost, though each run  *)
(* writes a new one over it: it is in operator.key or in the configuration *)
(* as long as commands do not overlap and no later run failed to notice    *)
(* the chain (another --hardhat-port loses the key of the first).          *)
OperatorKeyIsKept ==
    ~overlapped => \A h \in Listening \ bypassed :
        \A k \in 1..MaxOperatorKeys :
            <<h, k>> \in funded => k \in {operatorKey, backupKey}
=============================================================================
