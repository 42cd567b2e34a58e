----------------------------- MODULE MCChatMemory -----------------------------
(* Instances of ChatMemory for TLC. *)
EXTENDS ChatMemory, TLC

CONSTANTS s1, s2, p1, p2

(* A message of little importance, and one of another session that has. *)
TwoKinds == {[session |-> s1, low |-> TRUE], [session |-> s2, low |-> FALSE]}

(* A pass is known by its batch only. *)
Symmetry == Permutations({p1, p2})
=============================================================================
