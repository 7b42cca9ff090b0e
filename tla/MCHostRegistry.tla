--------------------------- MODULE MCHostRegistry ---------------------------
(* Model values and small constants for HostRegistry. *)
EXTENDS HostRegistry, TLC

CONSTANTS h1, h2, h3, g1

\* A group that stays on, and one whose command carries both end words.
MCConfig == {{}, {"reboot", "shutdown"}}
Symmetry == Permutations({h1, h2})
=============================================================================
