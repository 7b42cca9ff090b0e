-------------------------- MODULE UploadMetaProofs --------------------------
(***************************************************************************)
(* Theorems about UploadMeta, for every number of ports, connections and   *)
(* files, and every MAXSIZE.                                               *)
(***************************************************************************)
EXTENDS UploadMeta, SequenceTheorems, WellFoundedInduction, TLAPS

\* No more is kept than a client sends, and only a stream of more than MAXSIZE
\* bytes is refused.
KeptOfSent ==
    \A c \in Conn : /\ kept[c] <= Units(c)
                    /\ state[c] = "closing" => Units(c) > MaxSize

\* What is in a file was written when its connection had ended.
WrittenByLost == \A f \in Name : store[f] # Empty => state[store[f].conn] = "lost"

MetaInv == TypeOK /\ KeptOfSent /\ WrittenByLost /\ NamesHoldTheirOwn

-----------------------------------------------------------------------------
(* Streams and their chunks *)

\* What is known of one stream: it is a sequence of at most MaxFiles files with
\* different names.
LEMMA StreamShape ==
    ASSUME NEW p \in Streams
    PROVE  /\ Len(p) \in Nat /\ Len(p) <= MaxFiles /\ (p = <<>> <=> Len(p) = 0)
           /\ \A i \in 1 .. Len(p) : p[i].name \in Name
           /\ \A i, j \in 1 .. Len(p) : p[i].name = p[j].name => i = j
<1> DEFINE F == [name : Name, reads : Name \cup {NoPath}]
<1>1. p \in Seq(F) /\ Len(p) <= MaxFiles
  BY StreamsAssumption
<1>2. \A i, j \in 1 .. Len(p) : p[i].name = p[j].name => i = j
  BY StreamsAssumption
<1>3. \A q \in F : q.name \in Name
  OBVIOUS
<1> HIDE DEF F
<1>4. /\ Len(p) \in Nat
      /\ p = <<>> <=> Len(p) = 0
      /\ \A i \in 1 .. Len(p) : p[i] \in F
  BY <1>1, EmptySeq, LenProperties, ElementOfSeq
<1> QED
  BY <1>1, <1>2, <1>3, <1>4

LEMMA Quarters ==
    ASSUME NEW n \in Nat, NEW m \in Nat, m > 0 => n <= 8 * m - 2, m = 0 => n = 0
    PROVE  /\ n \div 4 \in Nat
           /\ n \div 4 + 1 <= 2 * m \/ n \div 4 = 0
           /\ (n % 4) + 1 \in 1 .. 4
OBVIOUS

\* The chunks of what is kept, when it is the beginning of the stream: no more
\* than two for each file, and all pairs lie within them.
LEMMA ChunksBound ==
    ASSUME TypeOK, KeptOfSent, NEW c \in Conn
    PROVE  /\ Len(pack[c]) \in Nat /\ Len(pack[c]) <= MaxFiles
           /\ Chunks(c) \in Nat
           /\ \A j \in 1 .. (Chunks(c) \div 2) :
                /\ DataOf(c, j) \in 2 .. Chunks(c)
                /\ DataOf(c, j) \in 1 .. (2 * MaxFiles)
                /\ DataOf(c, j) % 2 = Chunks(c) % 2
<1>1. Len(pack[c]) \in Nat /\ Len(pack[c]) <= MaxFiles /\ MaxFiles \in Nat
  BY StreamShape, BoundsAssumption DEF TypeOK
<1>2. /\ kept[c] \in Nat
      /\ Len(pack[c]) > 0 => kept[c] <= 8 * Len(pack[c]) - 2
      /\ Len(pack[c]) = 0 => kept[c] = 0
  <2>1. kept[c] \in Nat
    BY BoundsAssumption DEF TypeOK
  <2>2. pack[c] = <<>> <=> Len(pack[c]) = 0
    BY StreamShape DEF TypeOK
  <2>3. kept[c] <= Units(c)
    BY DEF KeptOfSent
  <2> QED
    BY <1>1, <2>1, <2>2, <2>3 DEF Units
<1>3. Chunks(c) \in Nat /\ (Chunks(c) > 1 => Chunks(c) <= 2 * Len(pack[c]))
  BY <1>1, <1>2, Quarters DEF Chunks
<1> HIDE DEF Chunks
<1>4. ASSUME NEW j \in 1 .. (Chunks(c) \div 2)
      PROVE  /\ DataOf(c, j) \in 2 .. Chunks(c)
             /\ DataOf(c, j) \in 1 .. (2 * MaxFiles)
             /\ DataOf(c, j) % 2 = Chunks(c) % 2
  <2>1. j \in Nat /\ 1 <= j /\ 2 * j <= Chunks(c)
    BY <1>3
  <2>2. Chunks(c) <= 2 * MaxFiles
    BY <1>1, <1>3, <2>1
  <2>3. DataOf(c, j) = Chunks(c) - 2 * (j - 1)
    BY DEF DataOf
  <2> QED
    BY <1>1, <1>3, <2>1, <2>2, <2>3
<1> QED
  BY <1>1, <1>3, <1>4

\* A chunk is written as one of its kind.
LEMMA PieceTyped ==
    ASSUME TypeOK, NEW c \in Conn, NEW k \in 1 .. (2 * MaxFiles)
    PROVE  /\ Contents(c, k) \in Chunk
           /\ Contents(c, k).conn = c /\ Contents(c, k).no = k
           /\ k # Chunks(c) => Contents(c, k).end = "whole"
<1> DEFINE e == IF k = Chunks(c) THEN Ends[(kept[c] % 4) + 1] ELSE "whole"
<1>1. Contents(c, k) = [conn |-> c, no |-> k, end |-> e]
  BY DEF Contents, Piece
<1>2. e \in {"none", "cut", "whole", "more"}
  <2>1. kept[c] \in Nat
    BY BoundsAssumption DEF TypeOK
  <2>2. kept[c] % 4 \in 0 .. 3
    BY <2>1
  <2>3. \A r \in 0 .. 3 : Ends[r + 1] \in {"none", "cut", "whole", "more"}
    BY DEF Ends
  <2> QED
    BY <2>2, <2>3
<1> HIDE DEF e
<1>3. Contents(c, k) \in Chunk
  BY <1>1, <1>2 DEF Chunk
<1>4. k # Chunks(c) => e = "whole"
  BY DEF e
<1> QED
  BY <1>1, <1>3, <1>4

\* Among numbers up to n there is a greatest.
LEMMA GreatestBelow ==
    ASSUME NEW n \in Nat, NEW S \in SUBSET (1 .. n), S # {}
    PROVE  \E j \in S : \A i \in S : i <= j
<1> DEFINE T == {n - i : i \in S}
<1>1. T \subseteq Nat /\ T # {}
  <2>1. \A i \in S : n - i \in Nat
    OBVIOUS
  <2>2. PICK k \in S : TRUE
    OBVIOUS
  <2>3. n - k \in T
    OBVIOUS
  <2> QED
    BY <2>1, <2>3
<1>2. \E x \in T : \A y \in T : ~ (<<y, x>> \in OpToRel(<, Nat))
  <2> HIDE DEF T
  <2>1. IsWellFoundedOn(OpToRel(<, Nat), Nat)
    BY NatLessThanWellFounded
  <2> QED
    BY <1>1, <2>1, WFMin
<1>3. PICK j \in S : \A y \in T : ~ (<<y, n - j>> \in OpToRel(<, Nat))
  BY <1>2
<1>4. ASSUME NEW i \in S PROVE i <= j
  <2>1. n - i \in T /\ n - i \in Nat /\ n - j \in Nat /\ i \in Nat /\ j \in Nat
    OBVIOUS
  <2>2. ~ (n - i < n - j)
    BY <1>3, <2>1 DEF OpToRel
  <2> QED
    BY <2>1, <2>2
<1> QED
  BY <1>4

\* What unpacking the first n pairs leaves in a file: what was there, or the
\* contents of the data of a pair that is named like the file.
LEMMA WrittenFile ==
    ASSUME NEW c \in Conn, NEW n \in Nat, NEW f \in Name
    PROVE  \/ Written(c, n)[f] = store[f]
           \/ \E j \in 1 .. n : /\ Named(c, DataOf(c, j) - 1) = f
                                /\ Written(c, n)[f] = Contents(c, DataOf(c, j))
<1> DEFINE js == {j \in 1 .. n : Named(c, DataOf(c, j) - 1) = f}
           j0 == CHOOSE j \in js : \A i \in js : i <= j
<1>1. Written(c, n)[f] = IF js = {} THEN store[f] ELSE Contents(c, DataOf(c, j0))
  BY DEF Written
<1>2. CASE js = {}
  BY <1>1, <1>2
<1>3. CASE js # {}
  <2>1. PICK k \in js : TRUE
    BY <1>3
  <2>2. \E j \in js : \A i \in js : i <= j
    <3>1. js \subseteq 1 .. n
      OBVIOUS
    <3> HIDE DEF js
    <3> QED
      BY <2>1, <3>1, GreatestBelow
  <2>3. j0 \in js
    BY <2>2
  <2> QED
    BY <1>1, <1>3, <2>3
<1> QED
  BY <1>2, <1>3
-----------------------------------------------------------------------------
(* The invariant *)

\* What unpacking n pairs leaves is well typed and keeps names with their data.
LEMMA UnpackKeeps ==
    ASSUME MetaInv, NEW c \in Conn, NEW n \in Nat, n <= Chunks(c) \div 2,
           state' = [state EXCEPT ![c] = "lost"],
           store' = Written(c, n), UNCHANGED <<pack, kept>>
    PROVE  /\ store' \in [Name -> Chunk \cup {Empty}]
           /\ WrittenByLost' /\ NamesHoldTheirOwn'
<1>1. /\ Chunks(c) \in Nat
      /\ \A j \in 1 .. (Chunks(c) \div 2) :
            /\ DataOf(c, j) \in 2 .. Chunks(c)
            /\ DataOf(c, j) \in 1 .. (2 * MaxFiles)
            /\ DataOf(c, j) % 2 = Chunks(c) % 2
  BY ChunksBound DEF MetaInv
<1>2. \A j \in 1 .. n : j \in 1 .. (Chunks(c) \div 2)
  BY <1>1
<1>3. ASSUME NEW f \in Name
      PROVE  store'[f] \in Chunk \cup {Empty}
  <2>1. store[f] \in Chunk \cup {Empty}
    BY DEF MetaInv, TypeOK
  <2>2. ASSUME NEW j \in 1 .. n PROVE Contents(c, DataOf(c, j)) \in Chunk
    BY <1>1, <1>2, PieceTyped DEF MetaInv
  <2> QED
    BY <2>1, <2>2, WrittenFile
<1>4. store' = [f \in Name |-> store'[f]]
  BY DEF Written
<1>5. ASSUME NEW f \in Name, NEW s, s = store'[f], s # Empty
      PROVE  /\ state'[s.conn] = "lost"
             /\ s.no < Chunks(s.conn) => s.end = "whole"
             /\ s.no % 2 = Chunks(s.conn) % 2
             /\ s.no % 2 = 0 => pack[s.conn][s.no \div 2].name = f
             /\ s.no % 2 = 1 => s.no > 1 /\ pack[s.conn][s.no \div 2].reads = f
  <2>1. CASE s = store[f]
    <3>1. s \in Chunk
      BY <1>5, <2>1 DEF MetaInv, TypeOK
    <3>2. s.conn \in Conn
      BY <3>1 DEF Chunk
    <3>3. state'[s.conn] = "lost"
      BY <1>5, <2>1, <3>2 DEF MetaInv, TypeOK, WrittenByLost
    <3> QED
      BY <1>5, <2>1, <3>3 DEF MetaInv, NamesHoldTheirOwn
  <2>2. CASE \E j \in 1 .. n : /\ Named(c, DataOf(c, j) - 1) = f
                               /\ s = Contents(c, DataOf(c, j))
    <3>1. PICK j \in 1 .. n : /\ Named(c, DataOf(c, j) - 1) = f
                              /\ s = Contents(c, DataOf(c, j))
      BY <2>2
    <3>2. PICK k \in 2 .. Chunks(c) : /\ k = DataOf(c, j)
                                      /\ k \in 1 .. (2 * MaxFiles)
                                      /\ k % 2 = Chunks(c) % 2
      BY <1>1, <1>2
    <3>3. /\ s.conn = c /\ s.no = k
          /\ k # Chunks(c) => s.end = "whole"
      BY <3>1, <3>2, PieceTyped DEF MetaInv
    <3>4. state'[c] = "lost"
      BY DEF MetaInv, TypeOK
    <3>5. ASSUME k % 2 = 0 PROVE pack[c][k \div 2].name = f
      <4>1. (k - 1) % 2 = 1 /\ ((k - 1) + 1) \div 2 = k \div 2
        BY <1>1, <3>5
      <4> QED
        BY <3>1, <3>2, <4>1 DEF Named
    <3>6. ASSUME k % 2 = 1 PROVE k > 1 /\ pack[c][k \div 2].reads = f
      <4>1. ~((k - 1) % 2 = 1) /\ (k - 1) \div 2 = k \div 2 /\ k > 1
        BY <1>1, <3>6
      <4> QED
        BY <3>1, <3>2, <4>1 DEF Named
    <3>7. k < Chunks(c) => k # Chunks(c)
      BY <1>1
    <3> QED
      BY <3>2, <3>3, <3>4, <3>5, <3>6, <3>7
  <2> QED
    BY <1>5, <2>1, <2>2, WrittenFile
<1>6. WrittenByLost'
  BY <1>5 DEF WrittenByLost
<1>7. NamesHoldTheirOwn'
  BY <1>5 DEF NamesHoldTheirOwn, Chunks
<1> QED
  BY <1>3, <1>4, <1>6, <1>7

LEMMA MetaInit == Init => MetaInv
<1> SUFFICES ASSUME Init PROVE MetaInv
  OBVIOUS
<1>1. ASSUME NEW c \in Conn PROVE Units(c) \in Nat /\ 0 <= Units(c)
  BY StreamShape DEF Init, Units
<1>2. (CHOOSE u \in Put : TRUE) \in Put
  BY BoundsAssumption
<1>3. TypeOK
  <2>1. 0 \in 0 .. MaxSize
    BY BoundsAssumption
  <2>2. pack \in [Conn -> Streams] /\ at \in [Conn -> Put]
    BY <1>2 DEF Init
  <2>3. store \in [Name -> Chunk \cup {Empty}]
    BY DEF Init
  <2> QED
    BY <2>1, <2>2, <2>3 DEF Init, TypeOK
<1>4. KeptOfSent
  BY <1>1 DEF Init, KeptOfSent
<1>5. NamesHoldTheirOwn /\ WrittenByLost
  BY DEF Init, NamesHoldTheirOwn, WrittenByLost
<1> QED
  BY <1>3, <1>4, <1>5 DEF MetaInv

\* A step that changes no stream, nothing kept, nothing written and no
\* connection that was refused or has ended.
LEMMA OtherKeeps ==
    ASSUME MetaInv, TypeOK', UNCHANGED <<pack, kept, store>>,
           \A c \in Conn : state[c] = "lost" => state'[c] = "lost",
           \A c \in Conn : state'[c] = "closing" => state[c] = "closing"
    PROVE  MetaInv'
<1>1. ASSUME NEW c \in Conn PROVE Chunks(c)' = Chunks(c) /\ Units(c)' = Units(c)
  BY DEF Chunks, Units
<1>2. \A f \in Name : store[f] # Empty => store[f].conn \in Conn
  BY DEF MetaInv, TypeOK, Chunk
<1>3. KeptOfSent'
  BY <1>1 DEF MetaInv, KeptOfSent
<1>4. WrittenByLost'
  BY <1>2 DEF MetaInv, WrittenByLost
<1>5. NamesHoldTheirOwn'
  BY <1>1, <1>2 DEF MetaInv, NamesHoldTheirOwn
<1> QED
  BY <1>3, <1>4, <1>5 DEF MetaInv

LEMMA ReceiveKeeps ==
    ASSUME MetaInv, NEW c \in Conn, NEW n \in 1 .. Units(c), Receive(c, n)
    PROVE  MetaInv'
<1>1. kept[c] \in Nat /\ MaxSize \in Nat /\ Units(c) \in Nat /\ n \in Nat
  BY StreamShape, BoundsAssumption DEF MetaInv, TypeOK, Units
<1>2. /\ state[c] = "open" /\ kept[c] + n <= Units(c)
      /\ \/ /\ kept[c] + n > MaxSize
            /\ state' = [state EXCEPT ![c] = "closing"]
            /\ kept' = kept
         \/ /\ kept[c] + n <= MaxSize
            /\ kept' = [kept EXCEPT ![c] = @ + n]
            /\ state' = state
      /\ UNCHANGED <<pack, port, at, store>>
  BY DEF Receive
<1>3. kept' \in [Conn -> 0 .. MaxSize] /\ state' \in [Conn -> {"unused", "open", "closing", "lost"}]
  <2>1. CASE kept[c] + n <= MaxSize
    <3>1. kept[c] + n \in 0 .. MaxSize
      BY <1>1, <2>1
    <3> QED
      BY <1>1, <1>2, <2>1, <3>1 DEF MetaInv, TypeOK
  <2>2. CASE ~(kept[c] + n <= MaxSize)
    BY <1>2, <2>2 DEF MetaInv, TypeOK
  <2> QED
    BY <2>1, <2>2
<1>4. TypeOK'
  BY <1>2, <1>3 DEF MetaInv, TypeOK
<1>5. KeptOfSent'
  <2>0. \A d \in Conn : /\ kept[d] <= Units(d)
                        /\ state[d] = "closing" => Units(d) > MaxSize
    BY DEF MetaInv, KeptOfSent
  <2> SUFFICES ASSUME NEW d \in Conn
               PROVE  /\ kept'[d] <= Units(d)'
                      /\ state'[d] = "closing" => Units(d)' > MaxSize
    BY DEF KeptOfSent
  <2>1. Units(d)' = Units(d)
    BY <1>2 DEF Units
  <2>2. CASE d = c
    BY <1>1, <1>2, <2>0, <2>1, <2>2 DEF MetaInv, TypeOK
  <2>3. CASE d # c
    <3>1. state'[d] = state[d] /\ kept'[d] = kept[d]
      BY <1>2, <2>3 DEF MetaInv, TypeOK
    <3> QED
      BY <2>0, <2>1, <3>1
  <2> QED
    BY <2>2, <2>3
<1>6. ASSUME NEW f \in Name, store[f] # Empty
      PROVE  /\ state'[store[f].conn] = "lost"
             /\ Chunks(store[f].conn)' = Chunks(store[f].conn)
  <2>1. store[f].conn \in Conn /\ state[store[f].conn] = "lost"
    BY <1>6 DEF MetaInv, TypeOK, Chunk, WrittenByLost
  <2>2. store[f].conn # c
    BY <1>2, <2>1
  <2>3. state'[store[f].conn] = "lost" /\ kept'[store[f].conn] = kept[store[f].conn]
    BY <1>2, <2>1, <2>2 DEF MetaInv, TypeOK
  <2> QED
    BY <1>2, <2>3 DEF Chunks
<1>7. WrittenByLost'
  BY <1>2, <1>6 DEF WrittenByLost
<1>8. NamesHoldTheirOwn'
  BY <1>2, <1>6 DEF MetaInv, NamesHoldTheirOwn
<1> QED
  BY <1>4, <1>5, <1>7, <1>8 DEF MetaInv

\* The end of a connection after n pairs were written; the port may be closed.
LEMMA EndKeeps ==
    ASSUME MetaInv, NEW c \in Conn, NEW n \in Nat, n <= Chunks(c) \div 2,
           state' = [state EXCEPT ![c] = "lost"], store' = Written(c, n),
           port' \in {port, [port EXCEPT ![at[c]] = "closed"]},
           UNCHANGED <<pack, at, kept>>
    PROVE  MetaInv'
<1>1. /\ store' \in [Name -> Chunk \cup {Empty}]
      /\ WrittenByLost' /\ NamesHoldTheirOwn'
  BY UnpackKeeps
<1>2. port' \in [Put -> {"none", "open", "closed"}]
  BY DEF MetaInv, TypeOK
<1>3. TypeOK'
  BY <1>1, <1>2 DEF MetaInv, TypeOK
<1>4. KeptOfSent'
  BY DEF MetaInv, TypeOK, KeptOfSent, Units
<1> QED
  BY <1>1, <1>3, <1>4 DEF MetaInv

LEMMA MetaStep == MetaInv /\ [Next]_vars => MetaInv'
<1> SUFFICES ASSUME MetaInv, [Next]_vars PROVE MetaInv'
  OBVIOUS
<1>1. CASE UNCHANGED vars
  BY <1>1, OtherKeeps DEF MetaInv, TypeOK, vars
<1>2. ASSUME NEW u \in Put, PutMeta(u) PROVE MetaInv'
  <2>1. TypeOK'
    BY <1>2 DEF PutMeta, MetaInv, TypeOK
  <2> QED
    BY <1>2, <2>1, OtherKeeps DEF PutMeta
<1>3. ASSUME NEW c \in Conn, NEW u \in Put, Connect(c, u) PROVE MetaInv'
  <2>1. TypeOK'
    BY <1>3 DEF Connect, MetaInv, TypeOK
  <2>2. \A d \in Conn : (state[d] = "lost" => state'[d] = "lost")
                       /\ (state'[d] = "closing" => state[d] = "closing")
    BY <1>3 DEF Connect, MetaInv, TypeOK
  <2> QED
    BY <1>3, <2>1, <2>2, OtherKeeps DEF Connect
<1>4. ASSUME NEW c \in Conn, ConnectionLost(c) PROVE MetaInv'
  <2>1. Chunks(c) \div 2 \in Nat
    BY ChunksBound DEF MetaInv
  <2> QED
    <3>1. /\ state' = [state EXCEPT ![c] = "lost"]
          /\ store' = Written(c, Chunks(c) \div 2)
          /\ port' \in {port, [port EXCEPT ![at[c]] = "closed"]}
          /\ UNCHANGED <<pack, at, kept>>
      BY <1>4 DEF ConnectionLost
    <3>2. Chunks(c) \div 2 <= Chunks(c) \div 2
      BY <2>1
    <3> QED
      BY <2>1, <3>1, <3>2, EndKeeps
<1>5. ASSUME NEW c \in Conn, NEW n \in 0 .. (MaxFiles - 1), UnpackRaises(c, n)
      PROVE  MetaInv'
  <2>1. n \in Nat /\ n <= Chunks(c) \div 2
    BY <1>5, ChunksBound DEF MetaInv, UnpackRaises
  <2> QED
    BY <1>5, <2>1, EndKeeps DEF UnpackRaises
<1> QED
  BY <1>1, <1>2, <1>3, <1>4, <1>5, ReceiveKeeps DEF Next

LEMMA MetaHolds == Spec => []MetaInv
BY MetaInit, MetaStep, PTL DEF Spec

\* Every reachable state of an upload of metadata is well typed; in
\* particular no connection keeps more than MAXSIZE.
THEOREM TypeCorrect == Spec => []TypeOK
<1>1. MetaInv => TypeOK
  BY DEF MetaInv
<1> QED
  BY <1>1, MetaHolds, PTL

\* Wherever a stream is cut, and whatever its data read like: a file holds its
\* own data, cut short only if they are the last that arrived; and only when the
\* stream ended in or before a name it holds that name, if the data before it
\* read like the path of the file.
THEOREM NamesKeepTheirOwn == Spec => []NamesHoldTheirOwn
<1>1. MetaInv => NamesHoldTheirOwn
  BY DEF MetaInv
<1> QED
  BY <1>1, MetaHolds, PTL

-----------------------------------------------------------------------------
(* Whole streams *)

LEMMA Halves ==
    ASSUME NEW n \in Nat, n > 0
    PROVE  /\ (8 * n - 2) \div 4 + 1 = 2 * n /\ (8 * n - 2) % 4 = 2
           /\ (2 * n) \div 2 = n
OBVIOUS

\* A stream that was kept whole is cut into the names and the data it was made
\* of, so the pairs that are popped are its files from the last to the first.
LEMMA WholeChunks ==
    ASSUME TypeOK, NEW c \in Conn, kept[c] = Units(c), Len(pack[c]) > 0
    PROVE  /\ Chunks(c) = 2 * Len(pack[c]) /\ kept[c] % 4 = 2
           /\ Chunks(c) \div 2 = Len(pack[c])
           /\ \A j \in 1 .. Len(pack[c]) :
                /\ DataOf(c, j) = 2 * (Len(pack[c]) - j + 1)
                /\ Named(c, DataOf(c, j) - 1) = pack[c][Len(pack[c]) - j + 1].name
<1>1. PICK L \in Nat : L = Len(pack[c]) /\ L > 0 /\ pack[c] # <<>>
  BY StreamShape DEF TypeOK
<1>2. Chunks(c) = 2 * L /\ kept[c] % 4 = 2 /\ Chunks(c) \div 2 = L
  <2>1. kept[c] = 8 * L - 2
    BY <1>1 DEF Units
  <2> QED
    BY <1>1, <2>1, Halves DEF Chunks
<1>3. ASSUME NEW j \in 1 .. L
      PROVE  /\ DataOf(c, j) = 2 * (L - j + 1)
             /\ Named(c, DataOf(c, j) - 1) = pack[c][L - j + 1].name
  <2>1. PICK i \in Nat : i = L - j + 1 /\ DataOf(c, j) = 2 * i
    <3>1. DataOf(c, j) = 2 * L - 2 * (j - 1)
      BY <1>2 DEF DataOf
    <3>2. L - j + 1 \in Nat /\ 2 * L - 2 * (j - 1) = 2 * (L - j + 1)
      OBVIOUS
    <3> QED
      BY <3>1, <3>2
  <2>2. (2 * i - 1) % 2 = 1 /\ ((2 * i - 1) + 1) \div 2 = i
    BY <2>1
  <2>3. Named(c, 2 * i - 1) = pack[c][i].name
    BY <2>2 DEF Named
  <2> QED
    BY <2>1, <2>3
<1> QED
  BY <1>1, <1>2, <1>3

\* Unpacking all of a stream that was kept whole gives each of its files its
\* own data, whole.
LEMMA WholeUnpacked ==
    ASSUME TypeOK, NEW c \in Conn, kept[c] = Units(c), NEW i \in 1 .. Len(pack[c])
    PROVE  Written(c, Chunks(c) \div 2)[pack[c][i].name]
              = [conn |-> c, no |-> 2 * i, end |-> "whole"]
<1>1. PICK L \in Nat : L = Len(pack[c])
  BY StreamShape DEF TypeOK
<1>2. /\ \A k \in 1 .. L : pack[c][k].name \in Name
      /\ \A k, m \in 1 .. L : pack[c][k].name = pack[c][m].name => k = m
  BY <1>1, StreamShape DEF TypeOK
<1>3. i \in Nat /\ 1 <= i /\ i <= L /\ L > 0
  BY <1>1
<1>4. /\ Chunks(c) = 2 * L /\ kept[c] % 4 = 2 /\ Chunks(c) \div 2 = L
      /\ \A j \in 1 .. L :
            /\ DataOf(c, j) = 2 * (L - j + 1)
            /\ Named(c, DataOf(c, j) - 1) = pack[c][L - j + 1].name
  BY <1>1, <1>3, WholeChunks
<1> DEFINE f == pack[c][i].name
           js == {j \in 1 .. L : Named(c, DataOf(c, j) - 1) = f}
           j0 == L - i + 1
<1>5. js = {j0}
  <2>1. ASSUME NEW j \in js PROVE j = j0
    <3>1. j \in 1 .. L /\ L - j + 1 \in 1 .. L /\ pack[c][L - j + 1].name = f
      BY <1>4
    <3>2. L - j + 1 = i
      BY <1>2, <1>3, <3>1
    <3> QED
      BY <1>3, <3>1, <3>2
  <2>2. j0 \in 1 .. L /\ L - j0 + 1 = i
    BY <1>3
  <2>3. j0 \in js
    <3>1. Named(c, DataOf(c, j0) - 1) = f
      <4> HIDE DEF j0
      <4> QED
        BY <1>4, <2>2
    <3> HIDE DEF j0, f
    <3> QED
      BY <2>2, <3>1
  <2> HIDE DEF js, j0, f
  <2> QED
    BY <2>1, <2>3
<1>6. Written(c, L)[f] = Contents(c, DataOf(c, j0))
  <2>1. f \in Name
    BY <1>2, <1>3
  <2>2. Written(c, L)[f] = IF js = {} THEN store[f]
            ELSE Contents(c, DataOf(c, CHOOSE j \in js : \A k \in js : k <= j))
    BY <2>1 DEF Written
  <2>3. (CHOOSE j \in js : \A k \in js : k <= j) = j0
    <3>1. j0 \in Nat /\ j0 <= j0
      BY <1>3
    <3> HIDE DEF js, j0
    <3> QED
      BY <1>5, <3>1
  <2> HIDE DEF js, j0, f
  <2> QED
    BY <1>5, <2>2, <2>3
<1>7. DataOf(c, j0) = 2 * i
  <2>1. j0 \in 1 .. L /\ L - j0 + 1 = i
    BY <1>3
  <2> HIDE DEF j0
  <2> QED
    BY <1>4, <2>1
<1>8. Contents(c, 2 * i) = [conn |-> c, no |-> 2 * i, end |-> "whole"]
  <2>1. Ends[3] = "whole"
    BY DEF Ends
  <2> QED
    BY <1>4, <2>1 DEF Contents, Piece
<1> QED
  BY <1>4, <1>6, <1>7, <1>8

\* Every path of a stream that was kept whole can be opened.
LEMMA WholeOpens ==
    ASSUME TypeOK, NEW c \in Conn, kept[c] = Units(c), NEW n \in Nat
    PROVE  ~UnpackRaises(c, n)
<1> SUFFICES ASSUME UnpackRaises(c, n) PROVE FALSE
  OBVIOUS
<1>1. n < Chunks(c) \div 2 /\ Named(c, DataOf(c, n + 1) - 1) = NoPath
  BY DEF UnpackRaises, Opens
<1>2. PICK L \in Nat : L = Len(pack[c])
  BY StreamShape DEF TypeOK
<1>3. CASE L = 0
  <2>1. pack[c] = <<>>
    BY <1>2, <1>3, StreamShape DEF TypeOK
  <2>2. kept[c] = 0
    BY <2>1 DEF Units
  <2> QED
    BY <1>1, <2>2 DEF Chunks
<1>4. CASE L > 0
  <2>1. /\ Chunks(c) \div 2 = L
        /\ \A j \in 1 .. L : Named(c, DataOf(c, j) - 1) = pack[c][L - j + 1].name
    BY <1>2, <1>4, WholeChunks
  <2>2. n + 1 \in 1 .. L /\ L - (n + 1) + 1 \in 1 .. L
    BY <1>1, <2>1
  <2>3. \A i \in 1 .. L : pack[c][i].name \in Name
    BY <1>2, StreamShape DEF TypeOK
  <2>4. Named(c, DataOf(c, n + 1) - 1) = pack[c][L - (n + 1) + 1].name
    BY <2>1, <2>2
  <2> QED
    BY <1>1, <2>2, <2>3, <2>4, BoundsAssumption
<1> QED
  BY <1>2, <1>3, <1>4

\* When a stream of at most MAXSIZE bytes ends that its client did not cut short,
\* every file of it has been written, whole, and the port is closed, for every
\* number of files and every way its pieces arrived, and whatever else was
\* unpacked before.
THEOREM WholePacksStored == Spec => WholePackStored
<1> DEFINE Whole(c) ==
             (/\ state[c] # "lost" /\ state'[c] = "lost"
              /\ Units(c) <= MaxSize
              /\ state[c] = "open" => kept[c] = Units(c))
                => /\ port'[at[c]] = "closed"
                   /\ \A i \in 1 .. Len(pack[c]) :
                        store'[pack[c][i].name] = [conn |-> c, no |-> 2 * i, end |-> "whole"]
<1>1. ASSUME MetaInv, [Next]_vars, NEW c \in Conn PROVE Whole(c)
  <2> SUFFICES ASSUME state[c] # "lost", state'[c] = "lost", Units(c) <= MaxSize,
                      state[c] = "open" => kept[c] = Units(c)
               PROVE  /\ port'[at[c]] = "closed"
                      /\ \A i \in 1 .. Len(pack[c]) :
                           store'[pack[c][i].name] = [conn |-> c, no |-> 2 * i, end |-> "whole"]
    OBVIOUS
  <2>1. TypeOK
    BY <1>1 DEF MetaInv
  <2>2. state[c] # "closing"
    <3>1. MaxSize \in Nat /\ Units(c) \in Nat
      BY <2>1, StreamShape, BoundsAssumption DEF TypeOK, Units
    <3>2. state[c] = "closing" => Units(c) > MaxSize
      BY <1>1 DEF MetaInv, KeptOfSent
    <3> QED
      BY <3>1, <3>2
  <2>3. CASE UNCHANGED vars
    BY <2>3 DEF vars
  <2>4. CASE \E u \in Put : PutMeta(u)
    BY <2>4 DEF PutMeta
  <2>5. CASE \E d \in Conn, u \in Put : Connect(d, u)
    BY <2>1, <2>5 DEF Connect, TypeOK
  <2>6. CASE \E d \in Conn : ConnectionLost(d)
    <3>1. PICK d \in Conn : ConnectionLost(d)
      BY <2>6
    <3>2. d = c
      BY <2>1, <3>1 DEF ConnectionLost, TypeOK
    <3>3. /\ kept[c] = Units(c)
          /\ store' = Written(c, Chunks(c) \div 2)
          /\ port' = [port EXCEPT ![at[c]] = "closed"]
      BY <2>2, <3>1, <3>2 DEF ConnectionLost
    <3>4. port'[at[c]] = "closed"
      BY <2>1, <3>3 DEF TypeOK
    <3> QED
      BY <2>1, <3>3, <3>4, WholeUnpacked
  <2>7. CASE \E d \in Conn : \E n \in 1 .. Units(d) : Receive(d, n)
    BY <2>1, <2>7 DEF Receive, TypeOK
  <2>8. CASE \E d \in Conn : \E n \in 0 .. (MaxFiles - 1) : UnpackRaises(d, n)
    <3>1. PICK d \in Conn, n \in 0 .. (MaxFiles - 1) : UnpackRaises(d, n)
      BY <2>8
    <3>2. d = c
      BY <2>1, <3>1 DEF UnpackRaises, TypeOK
    <3>3. kept[c] = Units(c) /\ n \in Nat
      BY <2>2, <3>1, <3>2, BoundsAssumption DEF UnpackRaises
    <3> QED
      BY <2>1, <3>1, <3>2, <3>3, WholeOpens
  <2> QED
    BY <1>1, <2>3, <2>4, <2>5, <2>6, <2>7, <2>8 DEF Next
<1>2. MetaInv /\ [Next]_vars => [\A c \in Conn : Whole(c)]_vars
  BY <1>1
<1> QED
  BY <1>2, MetaHolds, PTL DEF Spec, WholePackStored
=============================================================================
