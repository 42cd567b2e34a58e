---------------------------- MODULE BackupLedger ----------------------------
(***************************************************************************)
(* What the backup scheduler promises, without saying how: a ledger of     *)
(* anchored backups that only grows, in which every backup is a full one   *)
(* or stands on a backup anchored earlier, and two durable pointers into   *)
(* it (state.json and latest-recovery.json) that are always empty or name  *)
(* an anchored backup.                                                     *)
(***************************************************************************)
EXTENDS Naturals

CONSTANT Cids       \* the manifests that can ever be anchored

None == 0

VARIABLES
    parentOf,       \* parentOf[k]: the parent of the anchored backup k, or None
    head, package   \* the backup named by state.json, by latest-recovery.json

vars == <<parentOf, head, package>>

Ledger == DOMAIN parentOf

(* A new agent, or one whose ledger starts with full backups. *)
Init ==
    /\ \A k \in Ledger : k \in Cids /\ parentOf[k] = None
    /\ {head, package} \subseteq Ledger \cup {None}

Anchor ==
    /\ \E k \in Cids \ Ledger, q \in Ledger \cup {None} :
          parentOf' = [j \in Ledger \cup {k} |-> IF j = k THEN q ELSE parentOf[j]]
    /\ UNCHANGED <<head, package>>

Point ==
    /\ head' \in Ledger \cup {None}
    /\ package' \in Ledger \cup {None}
    /\ UNCHANGED parentOf

Next == Anchor \/ Point

Spec == Init /\ [][Next]_vars

=============================================================================
