-------------------------- MODULE MCBackupScheduler --------------------------
(* Instances of BackupScheduler for TLC. *)
EXTENDS BackupScheduler, TLC

CONSTANTS gateway, cli, c1, c2

(* One process with two concurrent calls. *)
OneProcess == c1 :> gateway @@ c2 :> gateway
(* The gateway and a CLI command on the same data directory and wallet. *)
TwoProcesses == c1 :> gateway @@ c2 :> cli

(* Calls of one process are interchangeable, and so are processes when     *)
(* their calls are swapped with them.                                      *)
Symmetry == {f \in Permutations(Procs \cup Calls) :
                \A c \in Calls : f[c] \in Calls /\ ProcOf[f[c]] = f[ProcOf[c]]}

(* No action reads "acked"; for the properties that do not either. *)
WithoutAcked == <<memVars, running, timeVars, pc, kind, full, counted, cid,
                  fresh, netVars, fileVars, patchVars>>
=============================================================================
