------------------------------- MODULE MCNodes -------------------------------
(* Instances of Bootstrap, and with it of NodeLifecycle, for TLC. *)
EXTENDS Bootstrap, TLC

CONSTANTS
    gateway, cli,
    DefaultPort    \* the port of hardhat that is configured

OneService == <<"node">>

Symmetry == Permutations(Clients)

(* Where the instance is cut, in states that are still checked.  Nothing   *)
(* is claimed of what two bootstrap commands at once do to each other.     *)
(* Two names, two directories and another port than the configured one     *)
(* are not combined: bootstrap commands are followed where only the        *)
(* default node in its own directory was worked on and no pid is another's,*)
(* and where another port was asked for, with two operations.  As long as there is no bootstrap   *)
(* command the names are alike, and so are the directories: the first      *)
(* operation is on the default node.                                       *)
Bootstrapped ==
    \/ \E c \in Clients : boot[c] # NotRunning
    \/ \E h \in Chains : chains[h] # "unused"
OtherPort ==
    \/ \E c \in Clients : boot[c] # NotRunning /\ boot[c].port \notin {0, DefaultPort}
    \/ \E h \in Chains : Live(h) /\ ports[h] # DefaultPort

OnlyDefaultNode ==
    /\ \A n \in Names : rows[n] \in {NoDir} \cup ({n} \cap {DevNode})
    /\ \A c \in Clients : op[c] # Idle => op[c].name = DevNode /\ op[c].dir = DevNode
    /\ dirs \cup mixed \cup raced \subseteq {DevNode}
    /\ \A p \in Pids : procs[p] # Foreign

Followed ==
    /\ ~overlapped
    /\ ops = 1 => \A c \in Clients : op[c] # Idle => op[c].name = DevNode
    /\ Bootstrapped => OnlyDefaultNode
    /\ OtherPort => ops <= 2

(* What no step looks at: recorded addresses, and everything about a chain *)
(* that is gone.                                                           *)
NodesView ==
    <<nvars, chains, [h \in Chains |-> IF Live(h) THEN ports[h] ELSE 0],
      {h \in Chains : Live(h) /\ hardhatPid = h}, operatorKey, backupKey,
      {pair \in funded : Live(pair[1])}, boot,
      {h \in untracked : Live(h)}, {h \in bypassed : Live(h)}, overlapped>>
=============================================================================
