--------------------------- MODULE MCSoulLifecycle ---------------------------
(* Instances of SoulLifecycle for TLC. *)
EXTENDS SoulLifecycle, TLC
=============================================================================
