-------------------------- MODULE ReliableStream --------------------------
(***************************************************************************)
(* What a Comet connection promises to the code at its ends: what one side *)
(* sends reaches the other side in order and once, up to the moment when   *)
(* the receiver is told that the connection is over.  The last items may   *)
(* never arrive.                                                           *)
(***************************************************************************)
EXTENDS Naturals, Sequences

CONSTANT Item

VARIABLES
    sent, \* all that was sent
    got,  \* all that was handed over at the other end
    over  \* the receiver was told that the connection is over

vars == <<sent, got, over>>

Init ==
    /\ sent = <<>>
    /\ got = <<>>
    /\ over = FALSE

\* The first n items that were sent.
Prefix(n) == SubSeq(sent, 1, n)

\* The sender sends some items.
Send ==
    /\ sent' \in Seq(Item)
    /\ Len(sent') > Len(sent)
    /\ SubSeq(sent', 1, Len(sent)) = sent
    /\ UNCHANGED <<got, over>>

\* Some of what was sent and not handed over yet arrives, and with it perhaps
\* the end.
Deliver ==
    /\ ~over
    /\ \E n \in Len(got) + 1 .. Len(sent) : got' = Prefix(n)
    /\ over' \in BOOLEAN
    /\ UNCHANGED sent

End ==
    /\ over' = TRUE
    /\ UNCHANGED <<sent, got>>

Next == Send \/ Deliver \/ End

Spec == Init /\ [][Next]_vars
=============================================================================
