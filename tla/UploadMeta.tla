----------------------------- MODULE UploadMeta -----------------------------
(***************************************************************************)
(* The upload of a backup's metadata (put_meta, UploadPackedMetadata-      *)
(* Protocol and -Factory of service.py).                                   *)
(*                                                                         *)
(* A client asks for a port and sends one stream, name SEP data SEP name   *)
(* SEP data and so on.  When the connection ends, however it ends, what    *)
(* was kept of the stream is unpacked from its end, and then the port is   *)
(* closed.  Kept is at most MAXSIZE bytes: the piece that goes beyond is   *)
(* dropped with the connection.                                            *)
(*                                                                         *)
(* A name, the data of a file and a separator are two units each, so that  *)
(* a stream can be cut before, inside and after any of them.  A stream     *)
(* that ends in or before a name leaves its last data without one: every   *)
(* pair is made of a name and the data before it, whose text is taken for  *)
(* a path.                                                                 *)
(***************************************************************************)
EXTENDS Naturals, Sequences

CONSTANTS
    Put,      \* calls of put_meta, each with a port of its own
    Conn,     \* connections
    Name,     \* files of a base directory
    NoPath,   \* a text that open() fails on: no path of a file, or no UTF-8
    Streams,  \* what clients send
    MaxSize,  \* MAXSIZE
    MaxFiles  \* bound: files in one stream

\* Clients send files with different names; reads is what the data of a file
\* read like.
ASSUME StreamsAssumption ==
    /\ Streams \subseteq Seq([name : Name, reads : Name \cup {NoPath}])
    /\ \A p \in Streams : /\ Len(p) <= MaxFiles
                          /\ \A i, j \in 1 .. Len(p) : p[i].name = p[j].name => i = j
ASSUME BoundsAssumption ==
    Put # {} /\ NoPath \notin Name /\ MaxSize \in Nat /\ MaxFiles \in Nat

\* What is written to a file: a chunk of a stream, of which none has arrived,
\* a part, the whole, or the whole and a part of the separator behind it.
Chunk == [conn : Conn, no : 1 .. (2 * MaxFiles), end : {"none", "cut", "whole", "more"}]
Empty == <<>>

VARIABLES
    pack,   \* the stream of each connection
    port,   \* of each call
    at,     \* the port a connection was made to
    state,  \* of a connection
    kept,   \* units in self.data
    store   \* what was last written to each file

vars == <<pack, port, at, state, kept, store>>

-----------------------------------------------------------------------------
Units(c) == IF pack[c] = <<>> THEN 0 ELSE 8 * Len(pack[c]) - 2

\* data.split(SEP): how many chunks there are, and how much of each.
Chunks(c) == kept[c] \div 4 + 1
Ends      == <<"none", "cut", "whole", "more">>
Piece(c, k) == [conn |-> c, no |-> k,
                end |-> IF k = Chunks(c) THEN Ends[(kept[c] % 4) + 1] ELSE "whole"]

\* The j-th pair that unpack pops: the number of its data; its name is the
\* chunk before it.
DataOf(c, j) == Chunks(c) - 2 * (j - 1)

NamePiece(c, k) == Piece(c, k - 1) \* mutant of Contents: the name is written

\* What a file gets from chunk k.
Contents(c, k) == Piece(c, k)

\* The path that chunk k reads like: a name its own, data as its text does.
Named(c, k) == IF k % 2 = 1 THEN pack[c][(k + 1) \div 2].name
                            ELSE pack[c][k \div 2].reads
Opens(c, k) == Named(c, k) # NoPath

\* The store when the first n pairs have been written.
Written(c, n) ==
    [f \in Name |->
        LET js == {j \in 1 .. n : Named(c, DataOf(c, j) - 1) = f}
        IN  IF js = {} THEN store[f]
            ELSE Contents(c, DataOf(c, CHOOSE j \in js : \A i \in js : i <= j))]

-----------------------------------------------------------------------------
\* put_meta
PutMeta(u) ==
    /\ port[u] = "none"
    /\ port' = [port EXCEPT ![u] = "open"]
    /\ UNCHANGED <<pack, at, state, kept, store>>

\* connectionMade
Connect(c, u) ==
    /\ state[c] = "unused" /\ port[u] = "open"
    /\ state' = [state EXCEPT ![c] = "open"]
    /\ at' = [at EXCEPT ![c] = u]
    /\ UNCHANGED <<pack, port, kept, store>>

\* mutant of Receive: a stream of exactly MAXSIZE bytes is refused.
ReceiveBelow(c, n) ==
    /\ state[c] = "open" /\ kept[c] + n <= Units(c)
    /\ IF kept[c] + n >= MaxSize
       THEN state' = [state EXCEPT ![c] = "closing"] /\ UNCHANGED kept
       ELSE kept' = [kept EXCEPT ![c] = @ + n] /\ UNCHANGED state
    /\ UNCHANGED <<pack, port, at, store>>

\* mutant of Receive: the size is tested before the piece is counted.
ReceiveTestedLate(c, n) ==
    /\ state[c] = "open" /\ kept[c] + n <= Units(c)
    /\ IF kept[c] > MaxSize
       THEN state' = [state EXCEPT ![c] = "closing"] /\ UNCHANGED kept
       ELSE kept' = [kept EXCEPT ![c] = @ + n] /\ UNCHANGED state
    /\ UNCHANGED <<pack, port, at, store>>

\* dataReceived.  While the connection is open, all that has arrived is kept;
\* what arrives after the piece that goes beyond MAXSIZE goes beyond it, too.
Receive(c, n) ==
    /\ state[c] = "open" /\ kept[c] + n <= Units(c)
    /\ \/ /\ kept[c] + n > MaxSize
          /\ state' = [state EXCEPT ![c] = "closing"]
          /\ UNCHANGED kept
       \/ /\ kept[c] + n <= MaxSize
          /\ kept' = [kept EXCEPT ![c] = @ + n]
          /\ UNCHANGED state
    /\ UNCHANGED <<pack, port, at, store>>

\* connectionLost and unpack, when every pair can be written.
ConnectionLost(c) ==
    LET pairs == Chunks(c) \div 2
    IN  /\ state[c] \in {"open", "closing"}
        /\ \A j \in 1 .. pairs : Opens(c, DataOf(c, j) - 1)
        /\ state' = [state EXCEPT ![c] = "lost"]
        /\ store' = Written(c, pairs)
        /\ port' = [port EXCEPT ![at[c]] = "closed"]
        /\ UNCHANGED <<pack, at, kept>>

\* connectionLost and unpack, when the path of the pair after the first n
\* cannot be opened: the exception leaves the others, and the port.
UnpackRaises(c, n) ==
    /\ state[c] \in {"open", "closing"}
    /\ n < Chunks(c) \div 2
    /\ \A j \in 1 .. n : Opens(c, DataOf(c, j) - 1)
    /\ ~Opens(c, DataOf(c, n + 1) - 1)
    /\ state' = [state EXCEPT ![c] = "lost"]
    /\ store' = Written(c, n)
    /\ UNCHANGED <<pack, port, at, kept>>

-----------------------------------------------------------------------------
Init ==
    /\ pack \in [Conn -> Streams]
    /\ port = [u \in Put |-> "none"]
    /\ at = [c \in Conn |-> CHOOSE u \in Put : TRUE]
    /\ state = [c \in Conn |-> "unused"]
    /\ kept = [c \in Conn |-> 0]
    /\ store = [f \in Name |-> Empty]

Next == \/ \E u \in Put : PutMeta(u) \/ \E c \in Conn : Connect(c, u)
        \/ \E c \in Conn :
              \/ ConnectionLost(c)
              \/ \E n \in 1 .. Units(c) : Receive(c, n)
              \/ \E n \in 0 .. (MaxFiles - 1) : UnpackRaises(c, n)

Spec == Init /\ [][Next]_vars

-----------------------------------------------------------------------------
(* Correctness *)

\* Every variable holds a value of its kind; never more is kept than MAXSIZE.
TypeOK ==
    /\ pack \in [Conn -> Streams]
    /\ port \in [Put -> {"none", "open", "closed"}]
    /\ at \in [Conn -> Put]
    /\ state \in [Conn -> {"unused", "open", "closing", "lost"}]
    /\ kept \in [Conn -> 0 .. MaxSize]
    /\ store \in [Name -> Chunk \cup {Empty}]

\* Wherever a stream is cut, and whatever its data read like: a file that an
\* upload wrote holds its own data, whole or, if they are the last that arrived,
\* as far as they did; unless the stream ended in or before a name.  Then the
\* file is one that data of this stream read like, and holds the name after
\* them.
NamesHoldTheirOwn ==
    \A f \in Name : store[f] # Empty =>
        LET s == store[f]
            p == pack[s.conn]
        IN  /\ s.no < Chunks(s.conn) => s.end = "whole"
            /\ s.no % 2 = Chunks(s.conn) % 2
            /\ s.no % 2 = 0 => p[s.no \div 2].name = f
            /\ s.no % 2 = 1 => s.no > 1 /\ p[s.no \div 2].reads = f

\* When a stream of at most MAXSIZE bytes ends that its client did not cut
\* short, all its files have been written, whole, and the port is closed.
WholePackStored ==
    [][\A c \in Conn :
         (/\ state[c] # "lost" /\ state'[c] = "lost"
          /\ Units(c) <= MaxSize
          /\ state[c] = "open" => kept[c] = Units(c))
            => /\ port'[at[c]] = "closed"
               /\ \A i \in 1 .. Len(pack[c]) :
                    store'[pack[c][i].name] = [conn |-> c, no |-> 2 * i, end |-> "whole"]]_vars

\* The port for uploading the metadata is closed when the upload ends
\* (debian/changelog, line 118).
PortClosesAtEnd == \A c \in Conn : state[c] = "lost" => port[at[c]] = "closed"
=============================================================================
