-------------------------- MODULE MCUdpSenderPool --------------------------
(* Model values for UdpSenderPool. *)
EXTENDS UdpSenderPool

CONSTANTS b1, b2, a1, a2
=============================================================================
