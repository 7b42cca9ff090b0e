---------------------------- MODULE MCUploadMeta ----------------------------
(* Model values and symmetry for UploadMeta, and the streams that clients    *)
(* send: up to four files in the order of Order, or the first two the other  *)
(* way round.  The data of any but the last, which no separator follows, may *)
(* read like the second file.                                                *)
EXTENDS UploadMeta, TLC

CONSTANTS u1, c1, c2, f1, f2, f3, f4, nopath

Order == <<f1, f2, f3, f4>>

Readings(names) ==
    {[i \in 1 .. Len(names) |-> [name |-> names[i], reads |-> r[i]]] :
        r \in {r \in [1 .. Len(names) -> {f2, nopath}] :
                 names # <<>> => r[Len(names)] = nopath}}

Sent == Readings(<<f2, f1>>) \cup UNION {Readings(SubSeq(Order, 1, n)) : n \in 0 .. MaxFiles}

Symmetry == Permutations(Conn)
=============================================================================
