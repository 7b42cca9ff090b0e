-------------------------- MODULE MCStompLinks --------------------------
(* Instances of StompLinks for TLC. *)
EXTENDS StompLinks
=============================================================================
