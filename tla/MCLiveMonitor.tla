--------------------------- MODULE MCLiveMonitor ---------------------------
(* Model values for LiveMonitor. *)
EXTENDS LiveMonitor

CONSTANTS h1, h2, h3, g1, g2
=============================================================================
