------------------------------ MODULE MCRecovery ------------------------------
(* Instances of Recovery for TLC. *)
EXTENDS Recovery, TLC

(* The context snapshot, a file that a restore writes over, and a database, *)
(* in path order.                                                          *)
ThreePaths == <<"context-snapshot.json", "RECOVERY_CONTEXT.md", "main.sqlite">>

(* Contents are interchangeable: the database begins with the first. *)
FirstContent == Init /\ main["main.sqlite"] = 1
FirstContentSpec == FirstContent /\ [][Next]_vars

(* One restore, after which nothing happens.  It reads what the owner has  *)
(* anchored and registered, and manifests are only appended: what the      *)
(* owner does meanwhile changes no more than the reason in anchorCheck,    *)
(* and it is enough to let the restore begin at every moment of the        *)
(* owner's.                                                                *)
OwnerWaits == at # "idle" => UNCHANGED <<content, mfsMap, registering>>

(* The agent may delete RECOVERY_CONTEXT.md, but does not write it: files   *)
(* that change while they are read are the matter of the database.         *)
NoteIsOnlyDeleted == disk'[RecoveryFile] \in {0, disk[RecoveryFile]}

(* What else the owner was at then does not matter to the restore, nor,    *)
(* once the manifest is found, how it was found and what the anchor said.  *)
RestoreView ==
    CASE at = "idle" -> vars
      [] at \in {"lookup", "mfs", "unresolved"} -> <<manifests, lived, rvars>>
      [] at = "failed" /\ ~merkleVerified -> <<at>>
      [] OTHER -> <<manifests, lived, target, at, wanted, chain, step, left,
                    errors, kept, merkleVerified, auto>>
=============================================================================
