---------------------------- MODULE MCUploadImg ----------------------------
(* Model values and symmetry for UploadImg. *)
EXTENDS UploadImg, TLC

CONSTANTS c1, c2, c3

Connections == Permutations(Conn)
=============================================================================
