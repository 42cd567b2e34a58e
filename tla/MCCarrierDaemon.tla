--------------------------- MODULE MCCarrierDaemon ---------------------------
(* Instances of CarrierDaemon for TLC. *)
EXTENDS CarrierDaemon, TLC

CONSTANTS r1, r2, alice

(* Two requests for one agent, the first of them in the configuration. *)
OneAgent == r1 :> alice @@ r2 :> alice
OnePending == <<r1>>
BothPending == <<r1, r2>>
=============================================================================
