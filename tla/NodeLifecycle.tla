---------------------------- MODULE NodeLifecycle ----------------------------
(***************************************************************************)
(* NodeManager and ProcessManager: installed nodes, their key and config   *)
(* files, the pid files of their services and the processes themselves.    *)
(* Several programs (the gateway's plugin, the coc-node CLI) work on the   *)
(* same base directory, each doing one operation at a time; an operation   *)
(* lets the others in at every await.  Services are spawned detached and   *)
(* outlive the program that spawned them.                                  *)
(*                                                                         *)
(* Registered nodes are rows of a SQLite table or entries of nodes.json,   *)
(* which a program reads once and writes as a whole.  An entry names the   *)
(* data directory of its node; two entries may name the same one, since    *)
(* the caller of install() may choose it.                                  *)
(***************************************************************************)
EXTENDS Integers, Sequences, FiniteSets

CONSTANTS
    Names,      \* names of nodes
    Dirs,       \* data directories; that of a node by default is named like it
    NoDir,      \* of a name that no entry has
    Clients,    \* programs
    Services,   \* sequence: the services of a node, in the order of starting
    Pids,       \* process ids
    MaxKeys,    \* bound: node keys generated
    MaxOps      \* bound: operations begun

ServiceNames == {Services[i] : i \in DOMAIN Services}

(* Every preset has at least the service "node". *)
ASSUME NodeAssumption ==
    /\ Names \subseteq Dirs
    /\ NoDir \notin Dirs
    /\ Services \in Seq(ServiceNames) \ {<<>>}
    /\ Pids \subseteq Nat \ {0}
    /\ MaxKeys \in Nat
    /\ MaxOps \in Nat

VARIABLES
    sqlite,    \* whether the registry is NodeStore, or else JsonNodeRegistry
    rows,      \* rows[n]: data directory of n in the table or in nodes.json
    cache,     \* cache[c]: what program c holds of nodes.json, or Unloaded
    nodeKey,   \* nodeKey[d]: content of node-key in d, 0 if absent
    config,    \* config[d]: the key whose address nodeId in node-config.json
               \* is, Custom if it is of no key, 0 if the file is absent
    dirs,      \* data directories that exist
    pidFile,   \* pidFile[d][s]: content of coc-<s>.pid in d, 0 if absent
    procs,     \* procs[p]: Dead, Foreign, or a service process
    op,        \* op[c]: what program c is doing
    keys,      \* node keys generated so far
    ops,       \* operations begun so far
    raced,     \* history: directories in which a start overlapped another
               \* operation on processes, or was cut off
    mixed      \* history: directories in which an installation overlapped
               \* another operation on files, an operation on files was cut
               \* off, or the data of one node were deleted under another

registry == <<sqlite, rows, cache>>
files == <<dirs, nodeKey, config>>
nvars == <<registry, files, pidFile, procs, op, keys, ops, raced, mixed>>

Entries == [Names -> Dirs \cup {NoDir}]
NoNodes == [n \in Names |-> NoDir]
Unloaded == [loaded |-> FALSE, nodes |-> NoNodes]
Loaded(nodes) == [loaded |-> TRUE, nodes |-> nodes]
Dead == [is |-> "dead"]
Foreign == [is |-> "foreign"]
Process(d, s, ending) == [is |-> "service", dir |-> d, service |-> s, ending |-> ending]
ServiceProcess == [is : {"service"}, dir : Dirs, service : ServiceNames, ending : BOOLEAN]
Idle == [kind |-> "none"]
Custom == -1
NodeIds == {Custom} \cup 0..MaxKeys

Kinds == {"install", "start", "stop", "restart", "remove", "update", "edit"}
Steps == {"key", "config", "row", "read", "spawn", "write", "kill", "unlink", "rm",
          "pause", "patch"}
ServiceSteps == {"read", "spawn", "write", "kill", "unlink"}
Op == [kind : Kinds, name : Names, dir : Dirs, at : Steps, left : Seq(ServiceNames),
       value : Int, withData : BOOLEAN]

NodeTypeOK ==
    /\ sqlite \in BOOLEAN
    /\ rows \in Entries
    /\ cache \in [Clients -> {Unloaded} \cup {Loaded(R) : R \in Entries}]
    /\ dirs \subseteq Dirs
    /\ nodeKey \in [Dirs -> 0..MaxKeys]
    /\ config \in [Dirs -> NodeIds]
    /\ pidFile \in [Dirs -> [ServiceNames -> {0} \cup Pids]]
    /\ procs \in [Pids -> {Dead, Foreign} \cup ServiceProcess]
    /\ op \in [Clients -> {Idle} \cup Op]
    /\ \A c \in Clients :
        op[c] # Idle => (op[c].at \in ServiceSteps <=> op[c].left # <<>>)
    /\ keys \in 0..MaxKeys
    /\ ops \in 0..MaxOps
    /\ raced \subseteq Dirs
    /\ mixed \subseteq Dirs

NodeInit ==
    /\ sqlite \in BOOLEAN
    /\ rows = NoNodes
    /\ cache = [c \in Clients |-> Unloaded]
    /\ dirs = {}
    /\ nodeKey = [d \in Dirs |-> 0]
    /\ config = [d \in Dirs |-> 0]
    /\ pidFile = [d \in Dirs |-> [s \in ServiceNames |-> 0]]
    /\ procs = [p \in Pids |-> Dead]
    /\ op = [c \in Clients |-> Idle]
    /\ keys = 0
    /\ ops = 0
    /\ raced = {}
    /\ mixed = {}

(***************************************************************************)
(* The registry.                                                           *)
(***************************************************************************)

(* What program c sees: the table, or what it has read of the file. *)
Known(c) == IF sqlite \/ ~cache[c].loaded THEN rows ELSE cache[c].nodes

(* JsonNodeRegistry reads the file before its first use ... *)
loadIfNeeded(c) == cache' = [cache EXCEPT ![c] = Loaded(Known(c))]

Load(c) == IF sqlite THEN UNCHANGED cache ELSE loadIfNeeded(c)

(* ... and writes it as a whole: what c sees, with its change. *)
persist(c, nodes) == rows' = nodes /\ cache' = [cache EXCEPT ![c] = Loaded(nodes)]

(* NodeStore changes one row of the table. *)
upsert(n, d) == rows' = [rows EXCEPT ![n] = d] /\ UNCHANGED cache
delete(n) == rows' = [rows EXCEPT ![n] = NoDir] /\ UNCHANGED cache

(* get() finds an entry: the check of requireNode(). *)
Registered(c, n) == Known(c)[n] # NoDir

(***************************************************************************)
(* Beginning an operation.  requireNode(), or the check of install(), is   *)
(* made at once, and the entry found is the one that is worked with.       *)
(***************************************************************************)

OnProcesses == {"start", "stop", "restart", "remove"}
OnFiles == {"install", "update", "edit", "remove"}

Others(c) == {op[e] : e \in Clients \ {c}} \ {Idle}

(* Operations of others that one on the processes in d, of this kind, may  *)
(* race with, ...                                                          *)
Rivals(c, kind, d) ==
    {o \in Others(c) :
        /\ {kind, o.kind} \subseteq OnProcesses
        /\ {kind, o.kind} \cap {"start", "restart"} # {}
        /\ o.dir = d}

(* ... and those that one on the files of n in d may.  One name may be     *)
(* installed in two directories, two in one.                               *)
Mingled(c, kind, n, d) ==
    {o \in Others(c) :
        /\ {kind, o.kind} \subseteq OnFiles
        /\ "install" \in {kind, o.kind}
        /\ o.name = n \/ o.dir = d}

Shared(n, d) == \E m \in Names \ {n} : rows[m] = d

Begin(c, kind, n, d, at, left, withData) ==
    /\ op[c] = Idle
    /\ ops < MaxOps
    /\ ops' = ops + 1
    /\ op' = [op EXCEPT ![c] = [kind |-> kind, name |-> n, dir |-> d, at |-> at,
                                left |-> left, value |-> 0, withData |-> withData]]
    /\ Load(c)
    /\ raced' = IF Rivals(c, kind, d) # {} THEN raced \cup {d} ELSE raced
    /\ mixed' = mixed \cup {o.dir : o \in Mingled(c, kind, n, d)}
                      \cup (IF Mingled(c, kind, n, d) # {} \/ (withData /\ Shared(n, d))
                            THEN {d} ELSE {})
    /\ UNCHANGED <<sqlite, rows, files, pidFile, procs, keys>>

Backwards(s) == [i \in DOMAIN s |-> s[Len(s) + 1 - i]]

(* Mutant: the name is not checked. *)
BeginInstallAnyway(c, n, d) == Begin(c, "install", n, d, "key", <<>>, FALSE)

(* A name that is not taken, within the quota, in any directory. *)
BeginInstall(c, n, d) ==
    ~Registered(c, n) /\ Begin(c, "install", n, d, "key", <<>>, FALSE)

(* An operation on a registered node. *)
BeginOn(c, kind, n, at, left, withData) ==
    Registered(c, n) /\ Begin(c, kind, n, Known(c)[n], at, left, withData)

BeginStart(c, n) == BeginOn(c, "start", n, "read", Services, FALSE)
BeginStop(c, n) == BeginOn(c, "stop", n, "kill", Backwards(Services), FALSE)
BeginRestart(c, n) == BeginOn(c, "restart", n, "kill", Backwards(Services), FALSE)
BeginRemove(c, n, deleteData) ==
    BeginOn(c, "remove", n, "kill", Backwards(Services), deleteData)

(* getNodeConfig() reads the file, if it is there; "config edit" opens it. *)
BeginUpdate(c, n) == BeginOn(c, "update", n, "patch", <<>>, FALSE)
BeginEdit(c, n) == BeginOn(c, "edit", n, "patch", <<>>, FALSE)

(***************************************************************************)
(* Steps, one between two awaits.                                          *)
(***************************************************************************)

At(c, at) == op[c] # Idle /\ op[c].at = at
GoTo(c, at) == op' = [op EXCEPT ![c].at = at]
Dir(c) == op[c].dir
Finish(c) == op' = [op EXCEPT ![c] = Idle]
Keeps == UNCHANGED <<ops, raced, mixed>>

(* install(): a new key, ... *)
WriteKey(c) ==
    /\ At(c, "key")
    /\ keys < MaxKeys
    /\ keys' = keys + 1
    /\ dirs' = dirs \cup {Dir(c)}
    /\ nodeKey' = [nodeKey EXCEPT ![Dir(c)] = keys + 1]
    /\ op' = [op EXCEPT ![c].at = "config", ![c].value = keys + 1]
    /\ UNCHANGED <<registry, config, pidFile, procs>> /\ Keeps

(* Mutant: a configuration that is there is left as it is. *)
WriteConfigIfMissing(c) ==
    /\ At(c, "config")
    /\ IF Dir(c) \notin dirs THEN Finish(c) /\ UNCHANGED config
       ELSE /\ config' = [config EXCEPT ![Dir(c)] = IF @ = 0 THEN op[c].value ELSE @]
            /\ GoTo(c, "row")
    /\ UNCHANGED <<registry, dirs, nodeKey, pidFile, procs, keys>> /\ Keeps

(* ... a configuration with its address, ... *)
WriteConfig(c) ==
    /\ At(c, "config")
    /\ IF Dir(c) \notin dirs THEN Finish(c) /\ UNCHANGED config
       ELSE /\ config' = [config EXCEPT ![Dir(c)] = op[c].value]
            /\ GoTo(c, "row")
    /\ UNCHANGED <<registry, dirs, nodeKey, pidFile, procs, keys>> /\ Keeps

(* ... and, after a mkdir() for the logs, the entry in the registry. *)
Register(c) ==
    LET n == op[c].name
    IN
    /\ At(c, "row")
    /\ op[c].kind = "install"
    /\ IF sqlite THEN upsert(n, Dir(c))
       ELSE persist(c, [Known(c) EXCEPT ![n] = Dir(c)])
    /\ dirs' = dirs \cup {Dir(c)}
    /\ Finish(c)
    /\ UNCHANGED <<sqlite, nodeKey, config, pidFile, procs, keys>> /\ Keeps

isRunning(pid) == pid # 0 /\ procs[pid] # Dead

(* ProcessManager.status(), and what program c is shown of node n, if it   *)
(* is registered.                                                          *)
status(d, s) == [pid |-> pidFile[d][s], running |-> isRunning(pidFile[d][s])]
getNodeStatus(c, n) == [s \in ServiceNames |-> status(Known(c)[n], s)]

(* ProcessManager.start() of the next service. *)
Service(c) == Head(op[c].left)

(* Mutant: the loop over the services goes one too far. *)
AfterServiceOneMore(c) ==
    op' = [op EXCEPT ![c].at = "read", ![c].left = Tail(@), ![c].value = 0]

AfterService(c) ==
    LET rest == Tail(op[c].left)
    IN  op' = [op EXCEPT ![c] = IF rest = <<>> THEN Idle
                                ELSE [@ EXCEPT !.at = "read", !.left = rest, !.value = 0]]

(* Mutant: a service is started again, though it runs. *)
CheckRunningNever(c) ==
    /\ At(c, "read")
    /\ GoTo(c, "spawn")
    /\ dirs' = dirs \cup {Dir(c)}
    /\ UNCHANGED <<registry, nodeKey, config, pidFile, procs, keys>> /\ Keeps

(* A process with the pid in the file, whosever it is, is taken for it.    *)
(* Before that start() makes the data directory.                           *)
CheckRunning(c) ==
    /\ At(c, "read")
    /\ IF status(Dir(c), Service(c)).running THEN AfterService(c) ELSE GoTo(c, "spawn")
    /\ dirs' = dirs \cup {Dir(c)}
    /\ UNCHANGED <<registry, nodeKey, config, pidFile, procs, keys>> /\ Keeps

(* The log file and the pid file cannot be written in a directory that has *)
(* been removed: the operation ends there.                                 *)
Spawn(c) ==
    /\ At(c, "spawn")
    /\ IF Dir(c) \notin dirs THEN Finish(c) /\ UNCHANGED procs
       ELSE \E p \in Pids :
            /\ procs[p] = Dead
            /\ procs' = [procs EXCEPT ![p] = Process(Dir(c), Service(c), FALSE)]
            /\ op' = [op EXCEPT ![c].at = "write", ![c].value = p]
    /\ UNCHANGED <<registry, files, pidFile, keys>> /\ Keeps

WritePid(c) ==
    /\ At(c, "write")
    /\ IF Dir(c) \notin dirs THEN Finish(c) /\ UNCHANGED pidFile
       ELSE /\ pidFile' = [pidFile EXCEPT ![Dir(c)][Service(c)] = op[c].value]
            /\ AfterService(c)
    /\ UNCHANGED <<registry, files, procs, keys>> /\ Keeps

(* stopNode() is over, whatever became of the services. *)
AfterStop ==
    [restart |-> "pause", remove |-> "rm"]

AfterKill(c) ==
    LET rest == Tail(op[c].left)
    IN  op' = [op EXCEPT ![c] =
            CASE rest # <<>> -> [@ EXCEPT !.at = "kill", !.left = rest]
              [] rest = <<>> /\ @.kind = "stop" -> Idle
              [] OTHER -> [@ EXCEPT !.at = AfterStop[op[c].kind], !.left = rest]]

(* ProcessManager.stop(): SIGTERM to the pid in the file, if there is one  *)
(* and it is that of a process.                                            *)
Kill(c) ==
    LET pid == pidFile[Dir(c)][Service(c)]
    IN
    /\ At(c, "kill")
    /\ IF ~isRunning(pid) THEN AfterKill(c) /\ UNCHANGED procs
       ELSE /\ procs' = [procs EXCEPT ![pid] = IF @ = Foreign THEN Dead
                                               ELSE [@ EXCEPT !.ending = TRUE]]
            /\ GoTo(c, "unlink")
    /\ UNCHANGED <<registry, files, pidFile, keys>> /\ Keeps

Unlink(c) ==
    /\ At(c, "unlink")
    /\ pidFile' = [pidFile EXCEPT ![Dir(c)][Service(c)] = 0]
    /\ AfterKill(c)
    /\ UNCHANGED <<registry, files, procs, keys>> /\ Keeps

(* restartNode(): after its pause the node must still be registered.  Its  *)
(* entry may be a new one, of another directory.                           *)
StartAgain(c) ==
    LET d == Known(c)[op[c].name]
    IN
    /\ At(c, "pause")
    /\ Load(c)
    /\ IF Registered(c, op[c].name)
       THEN op' = [op EXCEPT ![c].at = "read", ![c].left = Services, ![c].dir = d]
       ELSE Finish(c)
    /\ raced' = IF d \in {NoDir, Dir(c)} THEN raced ELSE raced \cup {d}
    /\ UNCHANGED <<sqlite, rows, files, pidFile, procs, keys, ops, mixed>>

(* removeNode() deletes the data directory, if asked to: one file after    *)
(* the other, ...                                                          *)
RemoveFile(c) ==
    /\ At(c, "rm")
    /\ op[c].withData
    /\ \/ /\ nodeKey[Dir(c)] # 0
          /\ nodeKey' = [nodeKey EXCEPT ![Dir(c)] = 0]
          /\ UNCHANGED <<config, pidFile>>
       \/ /\ config[Dir(c)] # 0
          /\ config' = [config EXCEPT ![Dir(c)] = 0]
          /\ UNCHANGED <<nodeKey, pidFile>>
       \/ \E s \in ServiceNames :
          /\ pidFile[Dir(c)][s] # 0
          /\ pidFile' = [pidFile EXCEPT ![Dir(c)][s] = 0]
          /\ UNCHANGED <<nodeKey, config>>
    /\ UNCHANGED <<registry, dirs, procs, op, keys>> /\ Keeps

Empty(d) == nodeKey[d] = 0 /\ config[d] = 0 /\ \A s \in ServiceNames : pidFile[d][s] = 0

(* ... and itself when it is empty.  A failure at any file is a warning.   *)
RemoveDirectory(c) ==
    /\ At(c, "rm")
    /\ \/ op[c].withData /\ Empty(Dir(c)) /\ dirs' = dirs \ {Dir(c)}
       \/ UNCHANGED dirs
    /\ GoTo(c, "row")
    /\ UNCHANGED <<registry, nodeKey, config, pidFile, procs, keys>> /\ Keeps

Unregister(c) ==
    LET n == op[c].name
    IN
    /\ At(c, "row")
    /\ op[c].kind = "remove"
    /\ IF sqlite THEN delete(n)
       ELSE IF Registered(c, n) THEN persist(c, [Known(c) EXCEPT ![n] = NoDir])
       ELSE UNCHANGED <<rows, cache>>
    /\ Finish(c)
    /\ UNCHANGED <<sqlite, files, pidFile, procs, keys>> /\ Keeps

(* updateNodeConfig(): what getNodeConfig() has read ... *)
ReadConfig(c) ==
    /\ At(c, "patch")
    /\ op[c].value = 0
    /\ IF config[Dir(c)] = 0 THEN Finish(c)
       ELSE op' = [op EXCEPT ![c].value = config[Dir(c)]]
    /\ UNCHANGED <<registry, files, pidFile, procs, keys>> /\ Keeps

(* ... is written back with the patch, which may change the nodeId, to     *)
(* where the registry then has the node, if it still is in it; an editor   *)
(* writes to the file that it opened.                                      *)
PatchConfig(c) ==
    LET target == IF op[c].kind = "edit" THEN Dir(c) ELSE Known(c)[op[c].name]
    IN
    /\ At(c, "patch")
    /\ op[c].value # 0
    /\ \E nodeId \in {op[c].value, Custom} :
        config' = IF target \in dirs THEN [config EXCEPT ![target] = nodeId] ELSE config
    /\ Finish(c)
    /\ UNCHANGED <<registry, dirs, nodeKey, pidFile, procs, keys>> /\ Keeps

(***************************************************************************)
(* What happens to processes and programs.                                 *)
(***************************************************************************)

(* A service ends, because it was told to or by itself. *)
Exit(p) ==
    /\ procs[p] # Dead
    /\ procs' = [procs EXCEPT ![p] = Dead]
    /\ UNCHANGED <<registry, files, pidFile, op, keys>> /\ Keeps

(* Another process of the machine gets the pid. *)
Reuse(p) ==
    /\ procs[p] = Dead
    /\ \E d \in Dirs, s \in ServiceNames : pidFile[d][s] = p
    /\ procs' = [procs EXCEPT ![p] = Foreign]
    /\ UNCHANGED <<registry, files, pidFile, op, keys>> /\ Keeps

(* What a file may hold when the program that was writing it ends. *)
Torn(file, d, writing) == {file} \cup (IF writing THEN {[file EXCEPT ![d] = 0]} ELSE {})

(* A program ends: what it was doing stays undone, and it forgets what it  *)
(* has read.  Cut off in a write it leaves an empty file; a nodes.json     *)
(* that is cut off cannot be read, and the next program takes it for empty.*)
Die(c) ==
    /\ IF op[c] = Idle THEN UNCHANGED <<rows, nodeKey, config, raced, mixed>>
       ELSE /\ rows' \in IF At(c, "row") /\ ~sqlite THEN {rows, NoNodes} ELSE {rows}
            /\ nodeKey' \in Torn(nodeKey, Dir(c), At(c, "key"))
            /\ config' \in Torn(config, Dir(c), op[c].at \in {"config", "patch"})
            /\ raced' = IF op[c].at = "write" THEN raced \cup {Dir(c)} ELSE raced
            /\ mixed' = IF op[c].kind \in OnFiles THEN mixed \cup {Dir(c)} ELSE mixed
    /\ Finish(c)
    /\ cache' = [cache EXCEPT ![c] = Unloaded]
    /\ <<op, cache>> # <<op', cache'>>
    /\ UNCHANGED <<sqlite, dirs, pidFile, procs, keys, ops>>

(* An operation on one node; without a name, a command makes it on one     *)
(* node after the other.                                                   *)
Operation(c, n) ==
    \/ \E dataDir \in Dirs : BeginInstall(c, n, dataDir)
    \/ BeginStart(c, n)
    \/ BeginStop(c, n)
    \/ BeginRestart(c, n)
    \/ \E keepData \in BOOLEAN : BeginRemove(c, n, ~keepData)

(* A command of coc-node or claw-mem. *)
Command(c) == \E n \in Names : Operation(c, n) \/ BeginEdit(c, n)

(* A tool of the plugin, called by the agent. *)
Tool(c) == \E n \in Names : Operation(c, n) \/ BeginUpdate(c, n)

Progress(c) ==
    \/ WriteKey(c)
    \/ WriteConfig(c)
    \/ Register(c)
    \/ CheckRunning(c)
    \/ Spawn(c)
    \/ WritePid(c)
    \/ Kill(c)
    \/ Unlink(c)
    \/ StartAgain(c)
    \/ RemoveFile(c)
    \/ RemoveDirectory(c)
    \/ Unregister(c)
    \/ ReadConfig(c)
    \/ PatchConfig(c)

NodeNext ==
    \/ \E c \in Clients : Command(c) \/ Tool(c) \/ Progress(c) \/ Die(c)
    \/ \E p \in Pids : Exit(p) \/ Reuse(p)

NodeSpec == NodeInit /\ [][NodeNext]_nvars

(***************************************************************************)
(* Properties.                                                             *)
(***************************************************************************)

Alive(p, d, s) == procs[p] = Process(d, s, FALSE)
Doing(d, ats) == \E c \in Clients : op[c] # Idle /\ Dir(c) = d /\ op[c].at \in ats

(* A service that runs can be found and stopped: a program that knows a    *)
(* node in its directory is shown it as running, with its pid, and in the  *)
(* table there is such a node.  (Of nodes.json, which a program overwrites *)
(* with its own copy, the latter does not hold.)  Between spawn() and the  *)
(* write of the pid file it cannot; nor where a start overlapped another   *)
(* operation on processes, or the program that spawned it died before that *)
(* write; nor is there a row where an installation met another operation.  *)
LiveIsTracked ==
    \A d \in Dirs \ raced, s \in ServiceNames, p \in Pids :
        Alive(p, d, s) /\ ~Doing(d, {"write"}) =>
            /\ \A c \in Clients, n \in Names :
                Known(c)[n] = d => getNodeStatus(c, n)[s] = [pid |-> p, running |-> TRUE]
            /\ sqlite /\ d \notin mixed => \E n \in Names : rows[n] = d

Installing(d) == \E c \in Clients : op[c] # Idle /\ op[c].kind = "install" /\ Dir(c) = d
Removing(n) ==
    \E c \in Clients :
        op[c] # Idle /\ op[c].kind = "remove" /\ op[c].at \in {"rm", "row"} /\ op[c].name = n

(* A configuration names the key that lies beside it, unless a patch made  *)
(* it name none; and a node of the table has both files until its removal  *)
(* comes to them.  Key, configuration and row are written one after the    *)
(* other: nothing is said during an installation, nor where one met        *)
(* another operation on the files or the name, one was cut off, or a node  *)
(* was removed with the directory that it shared.                          *)
ConfigNamesKey ==
    \A d \in Dirs \ mixed :
        \/ Installing(d)
        \/ /\ 0 \notin {nodeKey[d], config[d]} => config[d] \in {nodeKey[d], Custom}
           /\ \A n \in Names :
                sqlite /\ rows[n] = d /\ 0 \in {nodeKey[d], config[d]} => Removing(n)

(* The key in the directory of a node of the table changes only if a node  *)
(* of that directory is removed with its data, or if another name is       *)
(* installed into it (install() checks its name, before the first await,   *)
(* and not its directory), unless operations met there or were cut off.    *)
KeyIsKept ==
    [][\A n \in Names, d \in Dirs \ mixed' :
        sqlite /\ rows[n] = d /\ rows'[n] = d /\ nodeKey'[d] # nodeKey[d] =>
            \E c \in Clients :
                \/ At(c, "rm") /\ op[c].withData /\ Dir(c) = d
                \/ At(c, "key") /\ op[c].name # n /\ Dir(c) = d]_nvars
=============================================================================
