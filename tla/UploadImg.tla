----------------------------- MODULE UploadImg -----------------------------
(***************************************************************************)
(* The upload of one image (put_img and UploadImgProtocol of service.py)   *)
(* and its reading back (UDPSenderProtocol of udpsender.py).               *)
(*                                                                         *)
(* put_img empties the directory of the image and opens a port; what a     *)
(* client sends to it is split into parts of SPLITSIZE bytes, "img.00",    *)
(* "img.01" and so on, with the next part always open beforehand.  The     *)
(* port is never closed, and connections of earlier uploads live on: they  *)
(* keep writing to removed files, create parts in the new directory, and   *)
(* remove a part by its number when they end.                              *)
(*                                                                         *)
(* Images have a directory each, so one is enough.  A byte is the pair of  *)
(* its connection and its position; files are inodes, which outlive their  *)
(* names while they are open.  A file that cannot be created or written    *)
(* is left out.                                                            *)
(***************************************************************************)
EXTENDS Naturals, Sequences

CONSTANTS
    Conn,      \* connections
    SplitSize, \* SPLITSIZE
    Digits,    \* how many parts '.??' finds: 100 in the code
    MaxChunk,  \* bound: bytes handed to one dataReceived
    MaxData    \* bound: bytes sent over one connection

\* A piece that is read from a socket is much smaller than a part.
ASSUME SizeAssumption == /\ SplitSize \in Nat \ {0}
                         /\ Digits \in 0 .. (MaxData + 2)
                         /\ MaxChunk \in 1 .. SplitSize
                         /\ MaxData \in Nat

PartNo == 0 .. (MaxData + 1)
Inode  == Conn \X PartNo          \* the connection that created it, as which part
NoFile == <<>>
Byte   == Conn \X (1 .. MaxData)

VARIABLES
    listening, \* whether a port has been opened
    dir,       \* the parts in the directory of the image
    content,   \* the bytes of each inode
    state,     \* of each connection
    fd1,       \* the part it writes
    fd2,       \* the part after that
    splitcount,
    size,      \* bytes written to fd1
    got,       \* bytes received
    alone,     \* history: the upload found an empty directory, and nobody
               \* else has opened a part since
    struck     \* history: parts removed by other connections meanwhile

connVars == <<state, fd1, fd2, splitcount, size, got>>
vars == <<listening, dir, content, connVars, alone, struck>>

-----------------------------------------------------------------------------
\* os.open(filename + ".%02d" % k, O_CREAT): not truncated if it exists.
Opened(d, c, k) == [d EXCEPT ![k] = IF @ = NoFile THEN <<c, k>> ELSE @]

\* os.write at a position of the file
Written(q, at, bytes) ==
    SubSeq(q, 1, at) \o bytes \o SubSeq(q, at + Len(bytes) + 1, Len(q))

Bytes(c, from, to) == [i \in 1 .. (to - from) |-> <<c, from + i>>]

FitsAll(c, n) == n                \* mutant: the piece is never divided

\* min(len(data), SPLITSIZE - size)
Fits(c, n) == IF n <= SplitSize - size[c] THEN n ELSE SplitSize - size[c]

DividedNoRest(c, n) ==            \* mutant: the rest of the piece is not written
    [content EXCEPT ![fd1[c]] = Written(@, size[c], Bytes(c, got[c], got[c] + Fits(c, n)))]

\* The end of one part is written with the beginning of a piece of n bytes,
\* the beginning of the next part with the rest.
Divided(c, n) ==
    LET cut  == got[c] + Fits(c, n)
        full == [content EXCEPT ![fd1[c]] = Written(@, size[c], Bytes(c, got[c], cut))]
    IN  [full EXCEPT ![fd2[c]] = Written(@, 0, Bytes(c, cut, got[c] + n))]

-----------------------------------------------------------------------------
\* put_img
PutImg ==
    /\ listening' = TRUE
    /\ dir' = [k \in PartNo |-> NoFile]
    /\ alone' = [c \in Conn |-> FALSE]
    /\ struck' = {}
    /\ UNCHANGED <<content, connVars>>

\* connectionMade and the first openFds
Connect(c) ==
    LET d == Opened(Opened(dir, c, 0), c, 1)
    IN  /\ listening /\ state[c] = "unused"
        /\ state' = [state EXCEPT ![c] = "open"]
        /\ dir' = d
        /\ fd1' = [fd1 EXCEPT ![c] = d[0]]
        /\ fd2' = [fd2 EXCEPT ![c] = d[1]]
        /\ splitcount' = [splitcount EXCEPT ![c] = 1]
        /\ alone' = [x \in Conn |-> x = c /\ \A k \in PartNo : dir[k] = NoFile]
        /\ struck' = {}
        /\ UNCHANGED <<listening, content, size, got>>

\* dataReceived, when the piece does not fill the part
ReceiveWithin(c, n) ==
    /\ state[c] = "open" /\ got[c] + n <= MaxData
    /\ size[c] + Fits(c, n) # SplitSize
    /\ content' = [content EXCEPT ![fd1[c]] =
                      Written(@, size[c], Bytes(c, got[c], got[c] + n))]
    /\ size' = [size EXCEPT ![c] = @ + n]
    /\ got' = [got EXCEPT ![c] = @ + n]
    /\ UNCHANGED <<listening, dir, state, fd1, fd2, splitcount, alone, struck>>

\* dataReceived, when the piece fills the part: openFds, and the rest of the
\* piece goes to the next part.
ReceiveAcross(c, n) ==
    LET next == splitcount[c] + 1
        d    == Opened(dir, c, next)
    IN  /\ state[c] = "open" /\ got[c] + n <= MaxData
        /\ size[c] + Fits(c, n) = SplitSize
        /\ dir' = d
        /\ fd1' = [fd1 EXCEPT ![c] = fd2[c]]
        /\ fd2' = [fd2 EXCEPT ![c] = d[next]]
        /\ splitcount' = [splitcount EXCEPT ![c] = next]
        /\ content' = Divided(c, n)
        /\ size' = [size EXCEPT ![c] = n - Fits(c, n)]
        /\ got' = [got EXCEPT ![c] = @ + n]
        /\ alone' = [x \in Conn |-> x = c /\ alone[c]]
        /\ UNCHANGED <<listening, state, struck>>

\* mutant of ConnectionLost: the part that was being written is removed.
ConnectionLostLast(c) ==
    /\ state[c] = "open"
    /\ state' = [state EXCEPT ![c] = "lost"]
    /\ dir' = [dir EXCEPT ![splitcount[c] - 1] = NoFile]
    /\ UNCHANGED <<listening, content, fd1, fd2, splitcount, size, got, alone, struck>>

\* connectionLost: the spare part is removed, by its name.
ConnectionLost(c) ==
    /\ state[c] = "open"
    /\ state' = [state EXCEPT ![c] = "lost"]
    /\ dir' = [dir EXCEPT ![splitcount[c]] = NoFile]
    /\ struck' = IF alone[c] THEN struck ELSE struck \cup {splitcount[c]}
    /\ UNCHANGED <<listening, content, fd1, fd2, splitcount, size, got, alone>>

-----------------------------------------------------------------------------
Init ==
    /\ listening = FALSE
    /\ dir = [k \in PartNo |-> NoFile]
    /\ content = [i \in Inode |-> <<>>]
    /\ state = [c \in Conn |-> "unused"]
    /\ fd1 = [c \in Conn |-> NoFile]
    /\ fd2 = [c \in Conn |-> NoFile]
    /\ splitcount = [c \in Conn |-> 0]
    /\ size = [c \in Conn |-> 0]
    /\ got = [c \in Conn |-> 0]
    /\ alone = [c \in Conn |-> FALSE]
    /\ struck = {}

Next == \/ PutImg
        \/ \E c \in Conn : \/ Connect(c) \/ ConnectionLost(c)
                           \/ \E n \in 1 .. MaxChunk : ReceiveWithin(c, n) \/ ReceiveAcross(c, n)

Spec == Init /\ [][Next]_vars

-----------------------------------------------------------------------------
(* Correctness *)

\* Every variable holds a value of its kind; a part that is being written is
\* never left full.
TypeOK ==
    /\ listening \in BOOLEAN
    /\ dir \in [PartNo -> Inode \cup {NoFile}]
    /\ content \in [Inode -> Seq(Byte)]
    /\ state \in [Conn -> {"unused", "open", "lost"}]
    /\ fd1 \in [Conn -> Inode \cup {NoFile}]
    /\ fd2 \in [Conn -> Inode \cup {NoFile}]
    /\ splitcount \in [Conn -> PartNo]
    /\ size \in [Conn -> 0 .. (SplitSize - 1)]
    /\ got \in [Conn -> 0 .. MaxData]
    /\ alone \in [Conn -> BOOLEAN]
    /\ struck \in SUBSET PartNo

\* No part outgrows SPLITSIZE, even when several connections write it.
PartsFit == \A i \in Inode : Len(content[i]) <= SplitSize

\* The parts of an upload that found an empty directory hold what was sent,
\* in order and cut at SPLITSIZE, however its pieces arrived, whatever
\* connections of earlier uploads still write; when one of those ends, it can
\* only take away the part that has the number of its own spare.
PartsHold ==
    \A c \in Conn : alone[c] =>
        \A k \in 0 .. (splitcount[c] - 1) :
            \/ k \in struck
            \/ /\ dir[k] # NoFile
               /\ content[dir[k]] =
                    Bytes(c, k * SplitSize,
                          IF k = splitcount[c] - 1 THEN got[c] ELSE (k + 1) * SplitSize)

\* What UDPSenderProtocol feeds to udp-sender: the parts that glob('.??')
\* finds, sorted.
Served ==
    LET upTo[k \in 0 .. Digits] ==
          IF k = 0 THEN <<>>
          ELSE upTo[k - 1] \o IF dir[k - 1] = NoFile THEN <<>> ELSE content[dir[k - 1]]
    IN  upTo[Digits]

\* An image that was uploaded with the directory to itself, and that needs no
\* more parts than two digits can number, is served as it was sent.
ServedAsSent ==
    \A c \in Conn :
        (/\ alone[c] /\ state[c] = "lost" /\ struck = {}
         /\ got[c] <= Digits * SplitSize)
            => Served = Bytes(c, 0, got[c])
=============================================================================
