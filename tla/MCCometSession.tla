------------------------- MODULE MCCometSession -------------------------
(* Instances of CometSession for TLC. *)
EXTENDS CometSession
=============================================================================
