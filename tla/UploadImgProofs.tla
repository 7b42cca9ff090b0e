-------------------------- MODULE UploadImgProofs --------------------------
(***************************************************************************)
(* Theorems about UploadImg, for every number of connections, every part   *)
(* size and every bound.                                                   *)
(***************************************************************************)
EXTENDS UploadImg, SequenceTheorems, WellFoundedInduction, TLAPS

\* An open connection has its two files, has written no further than the end
\* of the first, and has not opened more parts than it has received bytes for.
OpenHasFiles ==
    \A c \in Conn : state[c] = "open" =>
        /\ fd1[c] \in Inode /\ fd2[c] \in Inode
        /\ size[c] <= Len(content[fd1[c]])
        /\ splitcount[c] <= got[c] + 1

\* A connection that has not been made has received nothing.
UnusedIsFresh == \A c \in Conn : state[c] = "unused" => size[c] = 0 /\ got[c] = 0

ImgInv == TypeOK /\ PartsFit /\ OpenHasFiles /\ UnusedIsFresh

-----------------------------------------------------------------------------
(* Sequences of bytes *)

LEMMA BytesTyped ==
    ASSUME NEW c \in Conn, NEW a \in 0 .. MaxData, NEW b \in a .. MaxData
    PROVE  Bytes(c, a, b) \in Seq(Byte) /\ Len(Bytes(c, a, b)) = b - a
<1>1. a \in Nat /\ b \in Nat /\ b - a \in Nat
  BY SizeAssumption
<1>2. \A i \in 1 .. (b - a) : a + i \in 1 .. MaxData
  BY <1>1, SizeAssumption
<1>3. Bytes(c, a, b) \in [1 .. (b - a) -> Byte]
  BY <1>2 DEF Bytes, Byte
<1>4. Bytes(c, a, b) \in Seq(Byte)
  BY <1>1, <1>3, SeqDef
<1>5. DOMAIN Bytes(c, a, b) = 1 .. (b - a)
  BY DEF Bytes
<1> QED
  BY <1>1, <1>4, <1>5, LenProperties

\* A write inside or at the end of a file keeps its length or extends it to
\* the end of what is written.
LEMMA WrittenTyped ==
    ASSUME NEW q \in Seq(Byte), NEW at \in 0 .. Len(q), NEW w \in Seq(Byte)
    PROVE  /\ Written(q, at, w) \in Seq(Byte)
           /\ Len(Written(q, at, w)) = IF at + Len(w) <= Len(q) THEN Len(q) ELSE at + Len(w)
<1> DEFINE from == at + Len(w) + 1
           front == SubSeq(q, 1, at)
           back == SubSeq(q, from, Len(q))
<1>1. Len(q) \in Nat /\ Len(w) \in Nat /\ at \in Nat /\ from \in Nat
  BY LenProperties
<1>2. \A i \in 1 .. Len(q) : q[i] \in Byte
  BY ElementOfSeq
<1>3. front \in Seq(Byte) /\ Len(front) = at
  <2>1. \A i \in 1 .. at : q[i] \in Byte
    BY <1>1, <1>2
  <2> QED
    BY <1>1, <2>1, SubSeqProperties
<1>4. /\ back \in Seq(Byte)
      /\ Len(back) = IF from <= Len(q) THEN Len(q) - from + 1 ELSE 0
  <2>1. \A i \in from .. Len(q) : q[i] \in Byte
    BY <1>1, <1>2
  <2> HIDE DEF from
  <2> QED
    BY <1>1, <2>1, SubSeqProperties
<1> HIDE DEF front, back
<1>5. front \o w \in Seq(Byte) /\ Len(front \o w) = at + Len(w)
  BY <1>3, ConcatProperties
<1>6. /\ (front \o w) \o back \in Seq(Byte)
      /\ Len((front \o w) \o back) = at + Len(w) + Len(back)
  BY <1>4, <1>5, ConcatProperties
<1>7. Written(q, at, w) = (front \o w) \o back
  BY DEF Written, front, back
<1>8. at + Len(w) + Len(back) = IF at + Len(w) <= Len(q) THEN Len(q) ELSE at + Len(w)
  <2>1. CASE at + Len(w) + 1 <= Len(q)
    <3>1. Len(back) = Len(q) - (at + Len(w) + 1) + 1
      BY <1>4, <2>1
    <3> QED
      BY <1>1, <2>1, <3>1
  <2>2. CASE ~(at + Len(w) + 1 <= Len(q))
    <3>1. Len(back) = 0
      BY <1>4, <2>2
    <3> QED
      BY <1>1, <2>2, <3>1
  <2> QED
    BY <2>1, <2>2
<1> QED
  BY <1>6, <1>7, <1>8

\* One write keeps every file typed and within SplitSize, and shortens none.
LEMMA WriteStep ==
    ASSUME NEW C \in [Inode -> Seq(Byte)], \A x \in Inode : Len(C[x]) <= SplitSize,
           NEW i \in Inode, NEW at \in 0 .. Len(C[i]), NEW w \in Seq(Byte),
           at + Len(w) <= SplitSize,
           NEW D, D = [C EXCEPT ![i] = Written(@, at, w)]
    PROVE  /\ D \in [Inode -> Seq(Byte)]
           /\ \A x \in Inode : Len(D[x]) <= SplitSize /\ Len(C[x]) <= Len(D[x])
           /\ at + Len(w) <= Len(D[i])
<1>1. C[i] \in Seq(Byte) /\ \A x \in Inode : Len(C[x]) \in Nat
  BY LenProperties
<1>2. Len(w) \in Nat /\ at \in Nat
  BY <1>1, LenProperties
<1>3. /\ Written(C[i], at, w) \in Seq(Byte)
      /\ Len(Written(C[i], at, w))
            = IF at + Len(w) <= Len(C[i]) THEN Len(C[i]) ELSE at + Len(w)
  BY <1>1, WrittenTyped
<1>4. /\ D \in [Inode -> Seq(Byte)] /\ D[i] = Written(C[i], at, w)
      /\ \A x \in Inode \ {i} : D[x] = C[x]
  BY <1>3
<1>5. Len(D[i]) <= SplitSize /\ Len(C[i]) <= Len(D[i]) /\ at + Len(w) <= Len(D[i])
  BY <1>1, <1>2, <1>3, <1>4
<1>6. ASSUME NEW x \in Inode \ {i} PROVE Len(D[x]) <= SplitSize /\ Len(C[x]) <= Len(D[x])
  BY <1>1, <1>4
<1> QED
  BY <1>4, <1>5, <1>6

-----------------------------------------------------------------------------
(* The actions *)

LEMMA OpenedTyped ==
    ASSUME NEW d \in [PartNo -> Inode \cup {NoFile}], NEW c \in Conn, NEW k \in PartNo
    PROVE  /\ Opened(d, c, k) \in [PartNo -> Inode \cup {NoFile}]
           /\ Opened(d, c, k)[k] \in Inode
           /\ \A j \in PartNo : d[j] \in Inode => Opened(d, c, k)[j] \in Inode
<1>1. <<c, k>> \in Inode
  BY DEF Inode
<1>2. d[k] \in Inode \/ d[k] = NoFile
  OBVIOUS
<1> HIDE DEF Inode
<1> QED
  BY <1>1, <1>2 DEF Opened

LEMMA InitOk == Init => ImgInv
<1> SUFFICES ASSUME Init PROVE ImgInv
  OBVIOUS
<1>1. <<>> \in Seq(Byte) /\ Len(<<>>) = 0
  BY EmptySeq
<1>2. 0 \in PartNo /\ 0 \in 0 .. (SplitSize - 1) /\ 0 \in 0 .. MaxData /\ 0 <= SplitSize
  BY SizeAssumption DEF PartNo
<1>3. TypeOK
  BY <1>1, <1>2 DEF Init, TypeOK
<1>4. PartsFit /\ OpenHasFiles /\ UnusedIsFresh
  BY <1>1, <1>2 DEF Init, PartsFit, OpenHasFiles, UnusedIsFresh
<1> QED
  BY <1>3, <1>4 DEF ImgInv

LEMMA PutImgOk == ImgInv /\ PutImg => ImgInv'
<1> SUFFICES ASSUME ImgInv, PutImg PROVE ImgInv'
  OBVIOUS
<1>1. TypeOK'
  BY DEF ImgInv, TypeOK, PutImg, connVars
<1>2. PartsFit' /\ OpenHasFiles' /\ UnusedIsFresh'
  BY DEF ImgInv, PartsFit, OpenHasFiles, UnusedIsFresh, PutImg, connVars
<1> QED
  BY <1>1, <1>2 DEF ImgInv

LEMMA LostOk ==
    ASSUME ImgInv, NEW c \in Conn, ConnectionLost(c)
    PROVE  ImgInv'
<1>1. TypeOK'
  BY DEF ImgInv, TypeOK, ConnectionLost
<1>2. PartsFit' /\ OpenHasFiles' /\ UnusedIsFresh'
  BY DEF ImgInv, TypeOK, PartsFit, OpenHasFiles, UnusedIsFresh, ConnectionLost
<1> QED
  BY <1>1, <1>2 DEF ImgInv

LEMMA ConnectOk ==
    ASSUME ImgInv, NEW c \in Conn, Connect(c)
    PROVE  ImgInv'
<1> DEFINE d1 == Opened(dir, c, 0)
           d2 == Opened(d1, c, 1)
<1>1. 0 \in PartNo /\ 1 \in PartNo
  BY SizeAssumption DEF PartNo
<1>t. TypeOK
  BY DEF ImgInv
<1>2. d1 \in [PartNo -> Inode \cup {NoFile}] /\ d1[0] \in Inode
  BY <1>1, <1>t, OpenedTyped DEF TypeOK
<1> HIDE DEF d1
<1>3. d2 \in [PartNo -> Inode \cup {NoFile}] /\ d2[0] \in Inode /\ d2[1] \in Inode
  BY <1>1, <1>2, OpenedTyped
<1> HIDE DEF d2
<1>4. /\ listening' = listening /\ content' = content /\ size' = size /\ got' = got
      /\ state' = [state EXCEPT ![c] = "open"]
      /\ dir' = d2 /\ fd1' = [fd1 EXCEPT ![c] = d2[0]] /\ fd2' = [fd2 EXCEPT ![c] = d2[1]]
      /\ splitcount' = [splitcount EXCEPT ![c] = 1]
      /\ alone' \in [Conn -> BOOLEAN] /\ struck' = {}
  BY DEF Connect, d1, d2
<1>5. TypeOK'
  BY <1>1, <1>3, <1>4, <1>t DEF TypeOK
<1>6. PartsFit'
  BY <1>4 DEF ImgInv, PartsFit
<1>7. OpenHasFiles'
  <2>1. size[c] = 0 /\ got[c] = 0
    BY DEF ImgInv, Connect, UnusedIsFresh
  <2>2. content[d2[0]] \in Seq(Byte)
    BY <1>3, <1>t DEF TypeOK
  <2>3. 0 <= Len(content[d2[0]])
    BY <2>2, LenProperties
  <2>4. ASSUME NEW x \in Conn, x # c, state'[x] = "open"
        PROVE  /\ fd1'[x] \in Inode /\ fd2'[x] \in Inode
               /\ size'[x] <= Len(content'[fd1'[x]])
               /\ splitcount'[x] <= got'[x] + 1
    BY <1>4, <1>t, <2>4 DEF TypeOK, ImgInv, OpenHasFiles
  <2>5. /\ fd1'[c] = d2[0] /\ fd2'[c] = d2[1] /\ splitcount'[c] = 1
    BY <1>4, <1>t DEF TypeOK
  <2>6. /\ fd1'[c] \in Inode /\ fd2'[c] \in Inode
        /\ size'[c] <= Len(content'[fd1'[c]])
        /\ splitcount'[c] <= got'[c] + 1
    BY <1>3, <1>4, <2>1, <2>3, <2>5
  <2> QED
    BY <2>4, <2>6 DEF OpenHasFiles
<1>8. UnusedIsFresh'
  BY <1>4, <1>t DEF TypeOK, ImgInv, UnusedIsFresh
<1> QED
  BY <1>5, <1>6, <1>7, <1>8 DEF ImgInv

LEMMA ReceiveWithinOk ==
    ASSUME ImgInv, NEW c \in Conn, NEW n \in 1 .. MaxChunk, ReceiveWithin(c, n)
    PROVE  ImgInv'
<1>t. TypeOK
  BY DEF ImgInv
<1>n. /\ size[c] \in Nat /\ got[c] \in Nat /\ n \in Nat /\ n >= 1 /\ got[c] + n <= MaxData
      /\ size[c] < SplitSize /\ SplitSize \in Nat /\ MaxData \in Nat
  BY <1>t, SizeAssumption DEF TypeOK, ReceiveWithin
<1>1. size[c] + n < SplitSize
  BY <1>n DEF ReceiveWithin, Fits
<1> DEFINE w == Bytes(c, got[c], got[c] + n)
<1>2. w \in Seq(Byte) /\ Len(w) = n
  <2>1. got[c] \in 0 .. MaxData /\ got[c] + n \in got[c] .. MaxData /\ (got[c] + n) - got[c] = n
    BY <1>n
  <2> QED
    BY <2>1, BytesTyped
<1> HIDE DEF w
<1>3. /\ state[c] = "open"
      /\ content' = [content EXCEPT ![fd1[c]] = Written(@, size[c], w)]
      /\ size' = [size EXCEPT ![c] = @ + n] /\ got' = [got EXCEPT ![c] = @ + n]
      /\ UNCHANGED <<listening, dir, state, fd1, fd2, splitcount, alone, struck>>
  BY DEF ReceiveWithin, w
<1>4. /\ fd1[c] \in Inode /\ size[c] <= Len(content[fd1[c]])
  BY <1>3 DEF ImgInv, OpenHasFiles
<1>5. content \in [Inode -> Seq(Byte)] /\ \A x \in Inode : Len(content[x]) \in Nat
  BY <1>t, LenProperties DEF TypeOK
<1>6. /\ content' \in [Inode -> Seq(Byte)]
      /\ \A x \in Inode : Len(content'[x]) <= SplitSize /\ Len(content[x]) <= Len(content'[x])
      /\ size[c] + n <= Len(content'[fd1[c]])
  <2>1. \A x \in Inode : Len(content[x]) <= SplitSize
    BY DEF ImgInv, PartsFit
  <2>2. size[c] \in 0 .. Len(content[fd1[c]]) /\ size[c] + Len(w) <= SplitSize
    BY <1>n, <1>1, <1>2, <1>4, <1>5
  <2> QED
    BY <1>2, <1>3, <1>4, <1>5, <2>1, <2>2, WriteStep
<1>7. size' \in [Conn -> 0 .. (SplitSize - 1)] /\ got' \in [Conn -> 0 .. MaxData]
  BY <1>t, <1>n, <1>1, <1>3 DEF TypeOK
<1>8. TypeOK'
  BY <1>t, <1>3, <1>6, <1>7 DEF TypeOK
<1>9. PartsFit'
  BY <1>6 DEF PartsFit
<1>10. ASSUME NEW x \in Conn, state'[x] = "open"
       PROVE  /\ fd1'[x] \in Inode /\ fd2'[x] \in Inode
              /\ size'[x] <= Len(content'[fd1'[x]])
              /\ splitcount'[x] <= got'[x] + 1
  <2>1. /\ fd1[x] \in Inode /\ fd2[x] \in Inode
        /\ size[x] <= Len(content[fd1[x]]) /\ splitcount[x] <= got[x] + 1
    BY <1>3, <1>10 DEF ImgInv, OpenHasFiles
  <2>2. /\ Len(content[fd1[x]]) \in Nat /\ Len(content'[fd1[x]]) \in Nat
        /\ size[x] \in Nat /\ got[x] \in Nat /\ splitcount[x] \in Nat
    BY <1>t, <1>5, <1>6, <2>1, LenProperties, SizeAssumption DEF TypeOK, PartNo
  <2>3. CASE x = c
    BY <1>t, <1>n, <1>3, <1>6, <2>1, <2>2, <2>3 DEF TypeOK
  <2>4. CASE x # c
    BY <1>t, <1>3, <1>6, <2>1, <2>2, <2>4 DEF TypeOK
  <2> QED
    BY <2>3, <2>4
<1>11. UnusedIsFresh'
  BY <1>t, <1>3 DEF TypeOK, ImgInv, UnusedIsFresh
<1> QED
  BY <1>8, <1>9, <1>10, <1>11 DEF ImgInv, OpenHasFiles

LEMMA ReceiveAcrossOk ==
    ASSUME ImgInv, NEW c \in Conn, NEW n \in 1 .. MaxChunk, ReceiveAcross(c, n)
    PROVE  ImgInv'
<1> DEFINE first == Fits(c, n)
           next == splitcount[c] + 1
           d == Opened(dir, c, next)
           cut == got[c] + first
           w1 == Bytes(c, got[c], cut)
           w2 == Bytes(c, cut, got[c] + n)
           mid == [content EXCEPT ![fd1[c]] = Written(@, size[c], w1)]
<1>t. TypeOK
  BY DEF ImgInv
<1>n. /\ size[c] \in Nat /\ got[c] \in Nat /\ splitcount[c] \in Nat
      /\ n \in Nat /\ n >= 1 /\ n <= SplitSize /\ got[c] + n <= MaxData
      /\ size[c] < SplitSize /\ SplitSize \in Nat /\ MaxData \in Nat
  BY <1>t, SizeAssumption DEF TypeOK, ReceiveAcross, PartNo
<1>f. first \in 1 .. n /\ size[c] + first = SplitSize
  BY <1>n DEF Fits, ReceiveAcross
<1> HIDE DEF first
<1>1. w1 \in Seq(Byte) /\ Len(w1) = first
  <2>1. got[c] \in 0 .. MaxData /\ cut \in got[c] .. MaxData /\ cut - got[c] = first
    BY <1>n, <1>f
  <2> QED
    BY <2>1, BytesTyped
<1>2. w2 \in Seq(Byte) /\ Len(w2) = n - first
  <2>1. cut \in 0 .. MaxData /\ got[c] + n \in cut .. MaxData /\ (got[c] + n) - cut = n - first
    BY <1>n, <1>f
  <2> QED
    BY <2>1, BytesTyped
<1> HIDE DEF w1, w2, d
<1>a. alone' \in [Conn -> BOOLEAN]
  BY <1>t DEF ReceiveAcross, TypeOK
<1>b. content' = [mid EXCEPT ![fd2[c]] = Written(@, 0, w2)]
  BY DEF ReceiveAcross, Divided, first, w1, w2
<1>3. /\ state[c] = "open"
      /\ dir' = d
      /\ fd1' = [fd1 EXCEPT ![c] = fd2[c]] /\ fd2' = [fd2 EXCEPT ![c] = d[next]]
      /\ splitcount' = [splitcount EXCEPT ![c] = next]
      /\ size' = [size EXCEPT ![c] = n - first] /\ got' = [got EXCEPT ![c] = @ + n]
      /\ UNCHANGED <<listening, state, struck>>
  BY DEF ReceiveAcross, first, d
<1>4. /\ fd1[c] \in Inode /\ fd2[c] \in Inode /\ size[c] <= Len(content[fd1[c]])
      /\ splitcount[c] <= got[c] + 1
  BY <1>3 DEF ImgInv, OpenHasFiles
<1>5. content \in [Inode -> Seq(Byte)] /\ \A x \in Inode : Len(content[x]) \in Nat
  BY <1>t, LenProperties DEF TypeOK
<1>6. /\ mid \in [Inode -> Seq(Byte)]
      /\ \A x \in Inode : Len(mid[x]) <= SplitSize /\ Len(content[x]) <= Len(mid[x])
  <2>1. \A x \in Inode : Len(content[x]) <= SplitSize
    BY DEF ImgInv, PartsFit
  <2>2. size[c] \in 0 .. Len(content[fd1[c]]) /\ size[c] + Len(w1) <= SplitSize
    BY <1>n, <1>f, <1>1, <1>4, <1>5
  <2> QED
    BY <1>1, <1>4, <1>5, <2>1, <2>2, WriteStep
<1> HIDE DEF mid
<1>7. \A x \in Inode : Len(mid[x]) \in Nat
  BY <1>6, LenProperties
<1>8. /\ content' \in [Inode -> Seq(Byte)]
      /\ \A x \in Inode : Len(content'[x]) <= SplitSize /\ Len(mid[x]) <= Len(content'[x])
      /\ 0 + Len(w2) <= Len(content'[fd2[c]])
  <2>1. 0 \in 0 .. Len(mid[fd2[c]]) /\ 0 + Len(w2) <= SplitSize
    BY <1>n, <1>f, <1>2, <1>4, <1>7
  <2> QED
    BY <1>2, <1>b, <1>4, <1>6, <2>1, WriteStep
<1>9. \A x \in Inode : Len(content'[x]) \in Nat /\ Len(content[x]) <= Len(content'[x])
  <2> SUFFICES ASSUME NEW x \in Inode
               PROVE  Len(content'[x]) \in Nat /\ Len(content[x]) <= Len(content'[x])
    OBVIOUS
  <2>1. content'[x] \in Seq(Byte)
    BY <1>8
  <2>2. Len(content'[x]) \in Nat
    BY <2>1, LenProperties
  <2>3. Len(content[x]) <= Len(mid[x]) /\ Len(mid[x]) <= Len(content'[x])
    BY <1>6, <1>8
  <2> QED
    BY <1>5, <1>7, <2>2, <2>3
<1>10. next \in PartNo /\ next <= (got[c] + n) + 1
  BY <1>n, <1>4 DEF PartNo
<1>11. d \in [PartNo -> Inode \cup {NoFile}] /\ d[next] \in Inode
  BY <1>t, <1>10, OpenedTyped DEF TypeOK, d
<1> HIDE DEF next
<1>12. n - first \in 0 .. (SplitSize - 1) /\ got[c] + n \in 0 .. MaxData
  BY <1>n, <1>f
<1>13. TypeOK'
  BY <1>t, <1>a, <1>3, <1>4, <1>8, <1>10, <1>11, <1>12 DEF TypeOK
<1>14. PartsFit'
  BY <1>8 DEF PartsFit
<1>15. ASSUME NEW x \in Conn, state'[x] = "open"
       PROVE  /\ fd1'[x] \in Inode /\ fd2'[x] \in Inode
              /\ size'[x] <= Len(content'[fd1'[x]])
              /\ splitcount'[x] <= got'[x] + 1
  <2>1. /\ fd1[x] \in Inode /\ fd2[x] \in Inode
        /\ size[x] <= Len(content[fd1[x]]) /\ splitcount[x] <= got[x] + 1
    BY <1>3, <1>15 DEF ImgInv, OpenHasFiles
  <2>2. CASE x = c
    <3>1. /\ fd1'[c] = fd2[c] /\ fd2'[c] = d[next] /\ size'[c] = n - first
          /\ splitcount'[c] = next /\ got'[c] = got[c] + n
      BY <1>t, <1>3 DEF TypeOK
    <3>2. n - first <= Len(content'[fd2[c]])
      BY <1>2, <1>8
    <3> QED
      BY <1>4, <1>10, <1>11, <2>2, <3>1, <3>2
  <2>3. CASE x # c
    <3>1. /\ fd1'[x] = fd1[x] /\ fd2'[x] = fd2[x] /\ size'[x] = size[x]
          /\ splitcount'[x] = splitcount[x] /\ got'[x] = got[x]
      BY <1>t, <1>3, <2>3 DEF TypeOK
    <3>2. /\ size[x] \in Nat /\ Len(content[fd1[x]]) \in Nat /\ Len(content'[fd1[x]]) \in Nat
          /\ Len(content[fd1[x]]) <= Len(content'[fd1[x]])
      BY <1>t, <1>5, <1>9, <2>1, SizeAssumption DEF TypeOK
    <3> QED
      BY <2>1, <3>1, <3>2
  <2> QED
    BY <2>2, <2>3
<1>16. UnusedIsFresh'
  BY <1>t, <1>3 DEF TypeOK, ImgInv, UnusedIsFresh
<1> QED
  BY <1>13, <1>14, <1>15, <1>16 DEF ImgInv, OpenHasFiles

-----------------------------------------------------------------------------
LEMMA StepOk == ImgInv /\ [Next]_vars => ImgInv'
<1> SUFFICES ASSUME ImgInv, [Next]_vars PROVE ImgInv'
  OBVIOUS
<1>1. CASE UNCHANGED vars
  <2>1. TypeOK'
    BY <1>1 DEF ImgInv, TypeOK, vars, connVars
  <2>2. PartsFit' /\ OpenHasFiles' /\ UnusedIsFresh'
    BY <1>1 DEF ImgInv, PartsFit, OpenHasFiles, UnusedIsFresh, vars, connVars
  <2> QED
    BY <2>1, <2>2 DEF ImgInv
<1>2. CASE Next
  BY <1>2, PutImgOk, ConnectOk, LostOk, ReceiveWithinOk, ReceiveAcrossOk DEF Next
<1> QED
  BY <1>1, <1>2

LEMMA InvHolds == Spec => []ImgInv
BY InitOk, StepOk, PTL DEF Spec

\* Every reachable state of an upload is well typed; in particular no part
\* that is being written is left full, and no number of parts is exceeded.
THEOREM TypeCorrect == Spec => []TypeOK
<1>1. ImgInv => TypeOK
  BY DEF ImgInv
<1> QED
  BY <1>1, InvHolds, PTL

\* No part ever outgrows SPLITSIZE, for every size of the pieces and any
\* number of connections that write the same image.
THEOREM PartsNeverOutgrow == Spec => []PartsFit
<1>1. ImgInv => PartsFit
  BY DEF ImgInv
<1> QED
  BY <1>1, InvHolds, PTL

-----------------------------------------------------------------------------
(* What the parts hold *)

Start(k) == k * SplitSize

\* No file, no name and no descriptor is of a part that c has created.
NoTrace(c) ==
    \A k \in PartNo :
        /\ content[<<c, k>>] = <<>>
        /\ \A j \in PartNo : dir[j] # <<c, k>>
        /\ \A x \in Conn : fd1[x] # <<c, k>> /\ fd2[x] # <<c, k>>

\* The parts that c has written are its own, nobody else has them open, and
\* together they hold what was received.
OwnParts(c) ==
    /\ splitcount[c] >= 1
    /\ \A x \in Conn \ {c}, k \in PartNo : fd1[x] # <<c, k>> /\ fd2[x] # <<c, k>>
    /\ \A k \in PartNo :
        /\ k < splitcount[c] => k \in struck \/ dir[k] = <<c, k>>
        /\ k < splitcount[c] - 1 => content[<<c, k>>] = Bytes(c, Start(k), Start(k + 1))
    /\ content[<<c, splitcount[c] - 1>>] = Bytes(c, Start(splitcount[c] - 1), got[c])

\* So is its spare part, which is empty like those that it has not opened.
OwnSpare(c) ==
    /\ fd1[c] = <<c, splitcount[c] - 1>>
    /\ fd2[c] = <<c, splitcount[c]>>
    /\ got[c] = Start(splitcount[c] - 1) + size[c]
    /\ \A k \in PartNo :
        /\ k = splitcount[c] => k \in struck \/ dir[k] = <<c, k>>
        /\ k >= splitcount[c] => content[<<c, k>>] = <<>>
        /\ k > splitcount[c] => dir[k] = NoFile

OneAlone == \A c, d \in Conn : alone[c] /\ alone[d] => c = d
UnusedNoTrace == \A c \in Conn : state[c] = "unused" => NoTrace(c)
AloneOwns == \A c \in Conn : alone[c] => OwnParts(c) /\ (state[c] = "open" => OwnSpare(c))

AloneInv == OneAlone /\ UnusedNoTrace /\ AloneOwns

LEMMA StartNext ==
    ASSUME NEW k \in Nat
    PROVE  Start(k) \in Nat /\ Start(k + 1) = Start(k) + SplitSize
<1>1. SplitSize \in Nat
  BY SizeAssumption
<1> QED
  BY <1>1 DEF Start

LEMMA PartInode ==
    ASSUME NEW c \in Conn, NEW k \in PartNo
    PROVE  /\ <<c, k>> \in Inode /\ <<c, k>> # NoFile
           /\ \A d \in Conn, j \in PartNo : <<d, j>> = <<c, k>> => d = c /\ j = k
BY DEF Inode, NoFile

\* Bytes after the ones before them.
LEMMA JoinBytes ==
    ASSUME NEW c \in Conn, NEW a \in 0 .. MaxData, NEW b \in a .. MaxData,
           NEW e \in b .. MaxData
    PROVE  Bytes(c, a, b) \o Bytes(c, b, e) = Bytes(c, a, e)
<1> DEFINE q == Bytes(c, a, b)
           w == Bytes(c, b, e)
           r == Bytes(c, a, e)
<1>1. a \in Nat /\ b \in Nat /\ e \in Nat /\ a <= b /\ b <= e /\ e <= MaxData
  BY SizeAssumption
<1>2. b \in 0 .. MaxData /\ e \in a .. MaxData
  BY <1>1, SizeAssumption
<1>3. /\ q \in Seq(Byte) /\ Len(q) = b - a
      /\ w \in Seq(Byte) /\ Len(w) = e - b
      /\ r \in Seq(Byte) /\ Len(r) = e - a
  BY <1>2, BytesTyped
<1>4. \A i \in 1 .. (e - a) : r[i] = IF i <= b - a THEN q[i] ELSE w[i - (b - a)]
  <2> SUFFICES ASSUME NEW i \in 1 .. (e - a)
               PROVE  r[i] = IF i <= b - a THEN q[i] ELSE w[i - (b - a)]
    OBVIOUS
  <2>1. r[i] = <<c, a + i>>
    BY DEF Bytes
  <2>2. CASE i <= b - a
    <3>1. i \in 1 .. (b - a)
      BY <1>1, <2>2
    <3>2. q[i] = <<c, a + i>>
      BY <3>1 DEF Bytes
    <3> QED
      BY <2>1, <2>2, <3>2
  <2>3. CASE ~(i <= b - a)
    <3>1. i - (b - a) \in 1 .. (e - b) /\ b + (i - (b - a)) = a + i
      BY <1>1, <2>3
    <3>2. w[i - (b - a)] = <<c, b + (i - (b - a))>>
      BY <3>1 DEF Bytes
    <3> QED
      BY <2>1, <2>3, <3>1, <3>2
  <2> QED
    BY <2>2, <2>3
<1> HIDE DEF q, w, r
<1>5. q \o w = r
  <2>0. /\ q \o w \in Seq(Byte) /\ Len(q \o w) = Len(q) + Len(w)
        /\ \A i \in 1 .. Len(q) + Len(w) :
              (q \o w)[i] = IF i <= Len(q) THEN q[i] ELSE w[i - Len(q)]
    BY <1>3, ConcatProperties
  <2>1. /\ q \o w \in Seq(Byte) /\ Len(q \o w) = (b - a) + (e - b)
        /\ \A i \in 1 .. (b - a) + (e - b) :
              (q \o w)[i] = IF i <= b - a THEN q[i] ELSE w[i - (b - a)]
    BY <1>3, <2>0
  <2>2. (b - a) + (e - b) = e - a
    BY <1>1
  <2>3. \A i \in 1 .. Len(q \o w) : (q \o w)[i] = r[i]
    BY <1>4, <2>1, <2>2
  <2> QED
    BY <1>3, <2>1, <2>2, <2>3, SeqEqual
<1> QED
  BY <1>5 DEF q, w, r

\* Writing bytes after the ones before them.
LEMMA AppendBytes ==
    ASSUME NEW c \in Conn, NEW a \in 0 .. MaxData, NEW b \in a .. MaxData,
           NEW e \in b .. MaxData
    PROVE  Written(Bytes(c, a, b), b - a, Bytes(c, b, e)) = Bytes(c, a, e)
<1> DEFINE q == Bytes(c, a, b)
           w == Bytes(c, b, e)
           r == Bytes(c, a, e)
<1>1. a \in Nat /\ b \in Nat /\ e \in Nat /\ a <= b /\ b <= e /\ e <= MaxData
  BY SizeAssumption
<1>2. b \in 0 .. MaxData /\ e \in a .. MaxData
  BY <1>1, SizeAssumption
<1>3. /\ q \in Seq(Byte) /\ Len(q) = b - a
      /\ w \in Seq(Byte) /\ Len(w) = e - b
  BY <1>2, BytesTyped
<1>5. q \o w = r
  BY JoinBytes
<1> HIDE DEF q, w, r
<1>6. SubSeq(q, 1, b - a) = q
  BY <1>3, SubSeqFull
<1>7. SubSeq(q, (b - a) + Len(w) + 1, Len(q)) = <<>>
  <2>1. (b - a) + Len(w) + 1 \in Int /\ Len(q) \in Int /\ Len(q) < (b - a) + Len(w) + 1
    BY <1>1, <1>3
  <2> QED
    BY <2>1, SubSeqEmpty
<1>8. (q \o w) \o <<>> = q \o w
  <2>1. q \o w \in Seq(Byte)
    BY <1>3, ConcatProperties
  <2> QED
    BY <2>1, ConcatEmptySeq
<1>9. Written(q, b - a, w) = q \o w
  BY <1>6, <1>7, <1>8 DEF Written
<1> QED
  BY <1>5, <1>9 DEF q, w, r

LEMMA NoBytes ==
    ASSUME NEW c \in Conn, NEW a \in 0 .. MaxData
    PROVE  Bytes(c, a, a) = <<>>
<1>1. a \in a .. MaxData /\ a - a = 0
  BY SizeAssumption
<1>2. Bytes(c, a, a) \in Seq(Byte) /\ Len(Bytes(c, a, a)) = 0
  BY <1>1, BytesTyped
<1> QED
  BY <1>2, EmptySeq

LEMMA AloneInit == Init => AloneInv
<1> SUFFICES ASSUME Init PROVE AloneInv
  OBVIOUS
<1>1. OneAlone /\ AloneOwns
  BY DEF Init, OneAlone, AloneOwns
<1>2. UnusedNoTrace
  BY PartInode DEF Init, UnusedNoTrace, NoTrace
<1> QED
  BY <1>1, <1>2 DEF AloneInv

\* put_img: nobody is alone any more.
LEMMA PutImgAlone == ImgInv /\ AloneInv /\ PutImg => AloneInv'
<1> SUFFICES ASSUME ImgInv, AloneInv, PutImg PROVE AloneInv'
  OBVIOUS
<1>1. OneAlone' /\ AloneOwns'
  BY DEF PutImg, OneAlone, AloneOwns
<1>2. UnusedNoTrace'
  BY PartInode DEF PutImg, connVars, AloneInv, UnusedNoTrace, NoTrace
<1> QED
  BY <1>1, <1>2 DEF AloneInv

\* The end of a connection takes away one name: of its own spare part when it
\* is alone, and else of a part that is struck with it.
LEMMA LostAlone ==
    ASSUME ImgInv, AloneInv, NEW c \in Conn, ConnectionLost(c)
    PROVE  AloneInv'
<1>t. TypeOK
  BY DEF ImgInv
<1>1. /\ state' = [state EXCEPT ![c] = "lost"]
      /\ dir' = [dir EXCEPT ![splitcount[c]] = NoFile]
      /\ struck' = IF alone[c] THEN struck ELSE struck \cup {splitcount[c]}
      /\ UNCHANGED <<listening, content, fd1, fd2, splitcount, size, got, alone>>
  BY DEF ConnectionLost
<1>2. OneAlone'
  BY <1>1 DEF AloneInv, OneAlone
<1>3. \A k \in PartNo : dir'[k] = IF k = splitcount[c] THEN NoFile ELSE dir[k]
  BY <1>t, <1>1 DEF TypeOK
<1>4. UnusedNoTrace'
  <2> SUFFICES ASSUME NEW d \in Conn, state'[d] = "unused" PROVE NoTrace(d)'
    BY DEF UnusedNoTrace
  <2>1. state[d] = "unused"
    BY <1>t, <1>1 DEF TypeOK
  <2>2. NoTrace(d)
    BY <2>1 DEF AloneInv, UnusedNoTrace
  <2> QED
    BY <1>1, <1>3, <2>2, PartInode DEF NoTrace
<1>5. AloneOwns'
  <2> SUFFICES ASSUME NEW d \in Conn, alone'[d]
               PROVE  OwnParts(d)' /\ (state'[d] = "open" => OwnSpare(d)')
    BY DEF AloneOwns
  <2>1. alone[d] /\ OwnParts(d) /\ (state[d] = "open" => OwnSpare(d))
    BY <1>1 DEF AloneInv, AloneOwns
  <2>n. splitcount[d] \in Nat /\ splitcount[c] \in Nat /\ PartNo \subseteq Nat
    BY <1>t DEF TypeOK, PartNo
  <2>2. CASE d = c
    <3>1. struck' = struck /\ state'[c] # "open"
      BY <1>t, <1>1, <2>1, <2>2 DEF TypeOK
    <3>2. \A k \in PartNo : k < splitcount[d] => dir'[k] = dir[k]
      BY <1>3, <2>2, <2>n
    <3>3. OwnParts(d)'
      BY <1>1, <2>1, <3>1, <3>2 DEF OwnParts
    <3> QED
      BY <2>2, <3>1, <3>3
  <2>3. CASE d # c
    <3>1. struck' = struck \cup {splitcount[c]}
      BY <1>1, <2>1, <2>3 DEF AloneInv, OneAlone
    <3>2. \A k \in PartNo : k \in struck' \/ (dir'[k] = dir[k] /\ (k \in struck => k \in struck'))
      BY <1>3, <3>1
    <3>3. \A k \in PartNo : dir[k] = NoFile => dir'[k] = NoFile
      BY <1>3
    <3>4. \A k \in PartNo : k \in struck \/ dir[k] = <<d, k>> => k \in struck' \/ dir'[k] = <<d, k>>
      BY <3>2
    <3>5. OwnParts(d)'
      BY <1>1, <2>1, <3>4 DEF OwnParts
    <3>6. state'[d] = "open" => OwnSpare(d)'
      <4>1. state'[d] = state[d]
        BY <1>t, <1>1, <2>3 DEF TypeOK
      <4> QED
        BY <1>1, <2>1, <3>3, <3>4, <4>1 DEF OwnSpare
    <3> QED
      BY <3>5, <3>6
  <2> QED
    BY <2>2, <2>3
<1> QED
  BY <1>2, <1>4, <1>5 DEF AloneInv

\* A connection that finds an empty directory owns its two first parts.
LEMMA ConnectAlone ==
    ASSUME ImgInv, AloneInv, NEW c \in Conn, Connect(c)
    PROVE  AloneInv'
<1> DEFINE d1 == Opened(dir, c, 0)
           d2 == Opened(d1, c, 1)
<1>t. TypeOK
  BY DEF ImgInv
<1>p. 0 \in PartNo /\ 1 \in PartNo /\ PartNo \subseteq Nat
  BY SizeAssumption DEF PartNo
<1>1. /\ state[c] = "unused" /\ size[c] = 0 /\ got[c] = 0
      /\ state' = [state EXCEPT ![c] = "open"]
      /\ dir' = d2
      /\ fd1' = [fd1 EXCEPT ![c] = d2[0]] /\ fd2' = [fd2 EXCEPT ![c] = d2[1]]
      /\ splitcount' = [splitcount EXCEPT ![c] = 1]
      /\ alone' = [x \in Conn |-> x = c /\ \A k \in PartNo : dir[k] = NoFile]
      /\ struck' = {}
      /\ UNCHANGED <<content, size, got>>
  BY DEF Connect, ImgInv, UnusedIsFresh
<1>2. \A k \in PartNo : d1[k] = IF k = 0 /\ dir[0] = NoFile THEN <<c, 0>> ELSE dir[k]
  BY <1>t, <1>p DEF TypeOK, Opened
<1>3. \A k \in PartNo : d2[k] = IF k = 1 /\ d1[1] = NoFile THEN <<c, 1>> ELSE d1[k]
  <2>1. d1 \in [PartNo -> Inode \cup {NoFile}]
    BY <1>t, <1>p, OpenedTyped DEF TypeOK
  <2> HIDE DEF d1
  <2> QED
    BY <1>p, <2>1 DEF Opened
<1> HIDE DEF d1, d2
<1>4. OneAlone'
  BY <1>1 DEF OneAlone
<1>5. \A j \in PartNo : dir'[j] = dir[j] \/ dir'[j] = <<c, j>>
  BY <1>1, <1>2, <1>3, <1>p
<1>6. \A x \in Conn \ {c} : fd1'[x] = fd1[x] /\ fd2'[x] = fd2[x] /\ state'[x] = state[x]
  BY <1>1, <1>t DEF TypeOK
<1>7. fd1'[c] = dir'[0] /\ fd2'[c] = dir'[1] /\ state'[c] = "open" /\ splitcount'[c] = 1
  BY <1>1, <1>t DEF TypeOK
<1>8. UnusedNoTrace'
  <2> SUFFICES ASSUME NEW d \in Conn, state'[d] = "unused" PROVE NoTrace(d)'
    BY DEF UnusedNoTrace
  <2>1. d # c /\ state[d] = "unused"
    BY <1>6, <1>7
  <2>2. NoTrace(d)
    BY <2>1 DEF AloneInv, UnusedNoTrace
  <2>3. ASSUME NEW j \in PartNo, NEW k \in PartNo PROVE dir'[j] # <<d, k>>
    <3>1. dir[j] # <<d, k>>
      BY <2>2 DEF NoTrace
    <3>2. <<c, j>> # <<d, k>>
      BY <2>1
    <3> QED
      BY <1>5, <3>1, <3>2
  <2>4. ASSUME NEW x \in Conn, NEW k \in PartNo
        PROVE  fd1'[x] # <<d, k>> /\ fd2'[x] # <<d, k>>
    <3>1. CASE x = c
      BY <1>7, <1>p, <2>3, <3>1
    <3>2. CASE x # c
      <4>1. fd1[x] # <<d, k>> /\ fd2[x] # <<d, k>>
        BY <2>2 DEF NoTrace
      <4> QED
        BY <1>6, <3>2, <4>1
    <3> QED
      BY <3>1, <3>2
  <2> QED
    BY <1>1, <2>2, <2>3, <2>4 DEF NoTrace
<1>9. AloneOwns'
  <2> SUFFICES ASSUME alone'[c] PROVE OwnParts(c)' /\ OwnSpare(c)'
    BY <1>1 DEF AloneOwns
  <2>1. \A k \in PartNo : dir[k] = NoFile
    BY <1>1
  <2>2. NoTrace(c)
    BY <1>1 DEF AloneInv, UnusedNoTrace
  <2>3. /\ dir'[0] = <<c, 0>> /\ dir'[1] = <<c, 1>>
        /\ \A k \in PartNo : k > 1 => dir'[k] = NoFile
    BY <1>1, <1>2, <1>3, <1>p, <2>1
  <2>4. Start(0) = 0
    BY SizeAssumption DEF Start
  <2>5. Bytes(c, 0, 0) = <<>>
    <3>1. 0 \in 0 .. MaxData
      BY SizeAssumption
    <3> QED
      BY <3>1, NoBytes
  <2>6. OwnParts(c)'
    <3>1. content'[<<c, 0>>] = Bytes(c, Start(0), 0)
      BY <1>1, <1>p, <2>2, <2>4, <2>5 DEF NoTrace
    <3>2. \A x \in Conn \ {c}, k \in PartNo : fd1'[x] # <<c, k>> /\ fd2'[x] # <<c, k>>
      BY <1>6, <2>2 DEF NoTrace
    <3>3. \A k \in PartNo : (k < 1 => k = 0) /\ ~(k < 0)
      BY <1>p
    <3>4. splitcount'[c] - 1 = 0 /\ got'[c] = 0 /\ splitcount'[c] >= 1
      BY <1>1, <1>7
    <3> QED
      BY <1>7, <2>3, <3>1, <3>2, <3>3, <3>4 DEF OwnParts
  <2>7. OwnSpare(c)'
    <3>1. splitcount'[c] = 1 /\ splitcount'[c] - 1 = 0 /\ got'[c] = 0 /\ size'[c] = 0
      BY <1>1, <1>7
    <3>2. \A k \in PartNo : content'[<<c, k>>] = <<>>
      BY <1>1, <2>2 DEF NoTrace
    <3>3. got'[c] = Start(0) + size'[c]
      BY <2>4, <3>1
    <3> QED
      BY <1>7, <2>3, <3>1, <3>2, <3>3 DEF OwnSpare
  <2> QED
    BY <2>6, <2>7
<1> QED
  BY <1>4, <1>8, <1>9 DEF AloneInv

\* A piece that does not fill the part goes behind what the part holds.
LEMMA WithinAlone ==
    ASSUME ImgInv, AloneInv, NEW c \in Conn, NEW n \in 1 .. MaxChunk, ReceiveWithin(c, n)
    PROVE  AloneInv'
<1>t. TypeOK
  BY DEF ImgInv
<1>n. /\ size[c] \in Nat /\ got[c] \in Nat /\ n \in Nat /\ got[c] + n <= MaxData
      /\ SplitSize \in Nat /\ MaxData \in Nat
  BY <1>t, SizeAssumption DEF TypeOK, ReceiveWithin
<1>1. /\ state[c] = "open"
      /\ content' = [content EXCEPT ![fd1[c]] =
                        Written(@, size[c], Bytes(c, got[c], got[c] + n))]
      /\ size' = [size EXCEPT ![c] = @ + n] /\ got' = [got EXCEPT ![c] = @ + n]
      /\ UNCHANGED <<listening, dir, state, fd1, fd2, splitcount, alone, struck>>
  BY DEF ReceiveWithin
<1>2. fd1[c] \in Inode /\ content \in [Inode -> Seq(Byte)]
  BY <1>1, <1>t DEF ImgInv, OpenHasFiles, TypeOK
<1>3. /\ \A i \in Inode : i # fd1[c] => content'[i] = content[i]
      /\ content'[fd1[c]] = Written(content[fd1[c]], size[c], Bytes(c, got[c], got[c] + n))
  BY <1>1, <1>2
<1>4. /\ \A x \in Conn : x # c => size'[x] = size[x] /\ got'[x] = got[x]
      /\ size'[c] = size[c] + n /\ got'[c] = got[c] + n
  BY <1>1, <1>t DEF TypeOK
<1>5. OneAlone'
  BY <1>1 DEF AloneInv, OneAlone
<1>6. UnusedNoTrace'
  <2> SUFFICES ASSUME NEW d \in Conn, state'[d] = "unused" PROVE NoTrace(d)'
    BY DEF UnusedNoTrace
  <2>1. NoTrace(d)
    BY <1>1 DEF AloneInv, UnusedNoTrace
  <2>2. \A k \in PartNo : content'[<<d, k>>] = content[<<d, k>>]
    BY <1>3, <2>1, PartInode DEF NoTrace
  <2> QED
    BY <1>1, <2>1, <2>2 DEF NoTrace
<1>7. AloneOwns'
  <2> SUFFICES ASSUME NEW d \in Conn, alone'[d]
               PROVE  OwnParts(d)' /\ (state'[d] = "open" => OwnSpare(d)')
    BY DEF AloneOwns
  <2>1. alone[d] /\ OwnParts(d) /\ (state[d] = "open" => OwnSpare(d))
    BY <1>1 DEF AloneInv, AloneOwns
  <2>n. splitcount[d] \in PartNo /\ splitcount[d] \in Nat /\ splitcount[d] >= 1
        /\ splitcount[d] - 1 \in PartNo /\ splitcount[d] - 1 \in Nat
    BY <1>t, <2>1, SizeAssumption DEF TypeOK, PartNo, OwnParts
  <2> DEFINE last == splitcount[d] - 1
  <2>2. CASE d # c
    <3>1. \A k \in PartNo : content'[<<d, k>>] = content[<<d, k>>]
      BY <1>3, <2>1, <2>2, PartInode DEF OwnParts
    <3>2. size'[d] = size[d] /\ got'[d] = got[d]
      BY <1>4, <2>2
    <3>3. content'[<<d, last>>] = content[<<d, last>>]
      BY <2>n, <3>1
    <3>4. OwnParts(d)'
      BY <1>1, <2>1, <3>1, <3>2, <3>3 DEF OwnParts
    <3>5. state'[d] = "open" => OwnSpare(d)'
      BY <1>1, <2>1, <3>1, <3>2 DEF OwnSpare
    <3> QED
      BY <3>4, <3>5
  <2>3. CASE d = c
    <3>1. OwnSpare(c) /\ OwnParts(c)
      BY <1>1, <2>1, <2>3
    <3>2. fd1[c] = <<c, last>> /\ got[c] = Start(last) + size[c]
      BY <2>3, <3>1 DEF OwnSpare
    <3>3. content[<<c, last>>] = Bytes(c, Start(last), got[c])
      BY <2>3, <3>1 DEF OwnParts
    <3>4. \A k \in PartNo : k # last => content'[<<c, k>>] = content[<<c, k>>]
      BY <1>3, <2>n, <3>2, PartInode
    <3>s. Start(last) \in Nat
      BY <2>n, StartNext
    <3> HIDE DEF last
    <3>5. content'[<<c, last>>] = Bytes(c, Start(last), got[c] + n)
      <4>1. /\ Start(last) \in 0 .. MaxData /\ got[c] \in Start(last) .. MaxData
            /\ got[c] + n \in got[c] .. MaxData /\ got[c] - Start(last) = size[c]
        BY <1>n, <3>2, <3>s
      <4>2. Written(Bytes(c, Start(last), got[c]), size[c], Bytes(c, got[c], got[c] + n))
              = Bytes(c, Start(last), got[c] + n)
        BY <4>1, AppendBytes
      <4> QED
        BY <1>3, <3>2, <3>3, <4>2
    <3>6. got'[c] = got[c] + n /\ got'[c] = Start(last) + size'[c] /\ splitcount' = splitcount
      BY <1>1, <1>n, <1>4, <3>2, <3>s
    <3>7. OwnParts(c)'
      <4>1. splitcount'[c] - 1 = last
        BY <2>3, <3>6 DEF last
      <4>2. \A k \in PartNo : k < last => content'[<<c, k>>] = Bytes(c, Start(k), Start(k + 1))
        <5> SUFFICES ASSUME NEW k \in PartNo, k < last
                     PROVE  content'[<<c, k>>] = Bytes(c, Start(k), Start(k + 1))
          OBVIOUS
        <5>1. k # last
          BY <2>n DEF last, PartNo
        <5>2. content[<<c, k>>] = Bytes(c, Start(k), Start(k + 1))
          BY <2>3, <3>1 DEF OwnParts, last
        <5> QED
          BY <3>4, <5>1, <5>2
      <4> QED
        BY <1>1, <3>1, <3>5, <3>6, <4>1, <4>2 DEF OwnParts
    <3>8. OwnSpare(c)'
      <4>1. \A k \in PartNo : k >= splitcount[c] => k # last
        BY <2>3, <2>n DEF last, PartNo
      <4>2. splitcount'[c] - 1 = last
        BY <2>3, <3>6 DEF last
      <4> QED
        BY <1>1, <3>1, <3>2, <3>4, <3>6, <4>1, <4>2 DEF OwnSpare
    <3> QED
      BY <2>3, <3>7, <3>8
  <2> QED
    BY <2>2, <2>3
<1> QED
  BY <1>5, <1>6, <1>7 DEF AloneInv

\* A piece that fills the part ends it exactly at the next start, and what is
\* left of it opens the part that was the spare one.
LEMMA AcrossAlone ==
    ASSUME ImgInv, AloneInv, NEW c \in Conn, NEW n \in 1 .. MaxChunk, ReceiveAcross(c, n)
    PROVE  AloneInv'
<1> DEFINE first == Fits(c, n)
           count == splitcount[c]
           last == count - 1
           next == count + 1
           d == Opened(dir, c, next)
           cut == got[c] + first
           mid == [content EXCEPT ![fd1[c]] = Written(@, size[c], Bytes(c, got[c], cut))]
<1>t. TypeOK
  BY DEF ImgInv
<1>n. /\ size[c] \in Nat /\ got[c] \in Nat /\ count \in Nat /\ count <= got[c] + 1
      /\ n \in Nat /\ n >= 1 /\ n <= SplitSize /\ got[c] + n <= MaxData
      /\ size[c] < SplitSize /\ SplitSize \in Nat /\ MaxData \in Nat
      /\ PartNo = 0 .. (MaxData + 1)
  BY <1>t, SizeAssumption, SMTT(40) DEF TypeOK, ReceiveAcross, PartNo, ImgInv, OpenHasFiles
<1>f. first \in 1 .. n /\ size[c] + first = SplitSize
  BY <1>n, SMTT(40) DEF Fits, ReceiveAcross
<1> HIDE DEF first
<1>p. next \in PartNo /\ count \in PartNo
  BY <1>n
<1>1. /\ state[c] = "open"
      /\ dir' = d
      /\ fd1' = [fd1 EXCEPT ![c] = fd2[c]] /\ fd2' = [fd2 EXCEPT ![c] = d[next]]
      /\ splitcount' = [splitcount EXCEPT ![c] = next]
      /\ size' = [size EXCEPT ![c] = n - first] /\ got' = [got EXCEPT ![c] = @ + n]
      /\ alone' = [x \in Conn |-> x = c /\ alone[c]]
      /\ UNCHANGED <<listening, state, struck>>
  BY DEF ReceiveAcross, first
<1>2. content' = [mid EXCEPT ![fd2[c]] = Written(@, 0, Bytes(c, cut, got[c] + n))]
  BY DEF ReceiveAcross, Divided, first
<1>3. fd1[c] \in Inode /\ fd2[c] \in Inode /\ content \in [Inode -> Seq(Byte)]
  BY <1>1, <1>t DEF ImgInv, OpenHasFiles, TypeOK
<1>4. /\ \A i \in Inode : i # fd1[c] => mid[i] = content[i]
      /\ mid[fd1[c]] = Written(content[fd1[c]], size[c], Bytes(c, got[c], cut))
      /\ \A i \in Inode : i # fd2[c] => content'[i] = mid[i]
      /\ content'[fd2[c]] = Written(mid[fd2[c]], 0, Bytes(c, cut, got[c] + n))
  BY <1>2, <1>3
<1> HIDE DEF mid
<1>5. OneAlone'
  BY <1>1 DEF OneAlone
<1>6. \A k \in PartNo : d[k] = IF k = next /\ dir[k] = NoFile THEN <<c, k>> ELSE dir[k]
  BY <1>t, <1>p DEF TypeOK, Opened
<1> HIDE DEF d
<1>7. /\ fd1'[c] = fd2[c] /\ fd2'[c] = d[next] /\ splitcount'[c] = next
      /\ size'[c] = n - first /\ got'[c] = got[c] + n
      /\ \A x \in Conn \ {c} : fd1'[x] = fd1[x] /\ fd2'[x] = fd2[x]
  BY <1>1, <1>t DEF TypeOK
<1>8. UnusedNoTrace'
  <2> SUFFICES ASSUME NEW e \in Conn, state'[e] = "unused" PROVE NoTrace(e)'
    BY DEF UnusedNoTrace
  <2>1. NoTrace(e) /\ e # c
    BY <1>1 DEF AloneInv, UnusedNoTrace
  <2>2. ASSUME NEW k \in PartNo PROVE content'[<<e, k>>] = <<>>
    <3>1. <<e, k>> \in Inode /\ <<e, k>> # fd1[c] /\ <<e, k>> # fd2[c]
      BY <2>1, PartInode DEF NoTrace
    <3>2. content[<<e, k>>] = <<>>
      BY <2>1 DEF NoTrace
    <3> QED
      BY <1>4, <3>1, <3>2
  <2>3. ASSUME NEW j \in PartNo, NEW k \in PartNo PROVE d[j] # <<e, k>>
    <3>1. dir[j] # <<e, k>>
      BY <2>1 DEF NoTrace
    <3>2. <<c, j>> # <<e, k>>
      BY <2>1
    <3> QED
      BY <1>6, <3>1, <3>2
  <2>4. ASSUME NEW x \in Conn, NEW k \in PartNo
        PROVE  fd1'[x] # <<e, k>> /\ fd2'[x] # <<e, k>>
    <3>1. fd1[x] # <<e, k>> /\ fd2[x] # <<e, k>> /\ fd2[c] # <<e, k>>
      BY <2>1 DEF NoTrace
    <3>2. d[next] # <<e, k>>
      BY <1>p, <2>3
    <3> QED
      BY <1>7, <3>1, <3>2
  <2> QED
    BY <1>1, <2>2, <2>3, <2>4 DEF NoTrace
<1>9. AloneOwns'
  <2> SUFFICES ASSUME alone[c] PROVE OwnParts(c)' /\ OwnSpare(c)'
    BY <1>1 DEF AloneOwns
  <2>1. OwnParts(c) /\ OwnSpare(c)
    BY <1>1 DEF AloneInv, AloneOwns
  <2>2. count >= 1
    BY <2>1 DEF OwnParts
  <2>3. last \in PartNo /\ last \in Nat /\ last + 1 = count /\ last # count
    BY <1>n, <1>p, <2>2
  <2>4. /\ fd1[c] = <<c, last>> /\ fd2[c] = <<c, count>>
        /\ got[c] = Start(last) + size[c]
    BY <2>1 DEF OwnSpare
  <2>5. content[<<c, last>>] = Bytes(c, Start(last), got[c])
    BY <2>1 DEF OwnParts
  <2>6. content[<<c, count>>] = <<>>
    BY <1>n, <1>p, <2>1 DEF OwnSpare
  <2>7. Start(last) \in Nat /\ Start(count) = Start(last) + SplitSize
    BY <2>3, StartNext
  <2>8. dir[next] = NoFile
    <3>1. next > splitcount[c]
      BY <1>n
    <3>2. \A k \in PartNo : k > splitcount[c] => dir[k] = NoFile
      BY <2>1 DEF OwnSpare
    <3> HIDE DEF next, count
    <3> QED
      BY <1>p, <3>1, <3>2
  <2>9. splitcount'[c] - 1 = count
    BY <1>n, <1>7
  <2>10. ASSUME NEW k \in PartNo, k < next PROVE k = count \/ k = last \/ k < last
    BY <1>n, <2>10
  <2> HIDE DEF last, count, next
  <2>11. cut = Start(count)
    BY <1>n, <1>f, <2>4, <2>7
  <2>12. content'[<<c, last>>] = Bytes(c, Start(last), Start(count))
    <3>1. /\ Start(last) \in 0 .. MaxData /\ got[c] \in Start(last) .. MaxData
          /\ cut \in got[c] .. MaxData /\ got[c] - Start(last) = size[c]
      <4>1. Start(last) <= got[c] /\ got[c] <= MaxData /\ got[c] - Start(last) = size[c]
        BY <1>n, <2>4, <2>7, SMTT(40)
      <4>2. got[c] <= cut /\ cut <= MaxData /\ cut \in Nat
        BY <1>n, <1>f
      <4> QED
        BY <1>n, <2>7, <4>1, <4>2
    <3>2. Written(Bytes(c, Start(last), got[c]), size[c], Bytes(c, got[c], cut))
            = Bytes(c, Start(last), cut)
      BY <3>1, AppendBytes
    <3>3. <<c, last>> \in Inode /\ <<c, last>> # fd2[c]
      BY <2>3, <2>4, PartInode
    <3>4. content'[<<c, last>>] = mid[<<c, last>>]
      BY <1>4, <3>3
    <3>5. mid[<<c, last>>] = Written(Bytes(c, Start(last), got[c]), size[c], Bytes(c, got[c], cut))
      BY <1>4, <2>4, <2>5
    <3> QED
      BY <2>11, <3>2, <3>4, <3>5
  <2>13. content'[<<c, count>>] = Bytes(c, Start(count), got[c] + n)
    <3>1. /\ cut \in 0 .. MaxData /\ cut \in cut .. MaxData
          /\ got[c] + n \in cut .. MaxData /\ cut - cut = 0
      BY <1>n, <1>f, SMTT(40)
    <3>2. Written(Bytes(c, cut, cut), 0, Bytes(c, cut, got[c] + n)) = Bytes(c, cut, got[c] + n)
      BY <3>1, AppendBytes
    <3>3. Bytes(c, cut, cut) = <<>>
      BY <3>1, NoBytes
    <3>4. <<c, count>> \in Inode /\ <<c, count>> # fd1[c]
      BY <1>p, <2>3, <2>4, PartInode
    <3>5. mid[<<c, count>>] = <<>>
      BY <1>4, <2>6, <3>4
    <3>6. content'[<<c, count>>] = Written(<<>>, 0, Bytes(c, cut, got[c] + n))
      BY <1>4, <2>4, <3>5
    <3> QED
      BY <2>11, <3>2, <3>3, <3>6
  <2>14. ASSUME NEW k \in PartNo, k # last, k # count
         PROVE  content'[<<c, k>>] = content[<<c, k>>]
    <3>1. <<c, k>> \in Inode /\ <<c, k>> # fd1[c] /\ <<c, k>> # fd2[c]
      BY <1>p, <2>3, <2>4, <2>14, PartInode
    <3> QED
      BY <1>4, <3>1
  <2>15. /\ d[next] = <<c, next>>
         /\ \A k \in PartNo : k # next => d[k] = dir[k]
    BY <1>6, <1>p, <2>8
  <2>16. OwnParts(c)'
    <3>1. ASSUME NEW x \in Conn \ {c}, NEW k \in PartNo
          PROVE  fd1'[x] # <<c, k>> /\ fd2'[x] # <<c, k>>
      BY <1>7, <2>1 DEF OwnParts
    <3>2. ASSUME NEW k \in PartNo, k < next PROVE k \in struck' \/ dir'[k] = <<c, k>>
      <4>1. k # next
        BY <1>n, <3>2 DEF next, count
      <4>2. k \in struck \/ dir[k] = <<c, k>>
        <5>1. CASE k = count
          BY <2>1, <5>1 DEF OwnSpare, count
        <5>2. CASE k < count
          BY <2>1, <5>2 DEF OwnParts, count
        <5>3. k = count \/ k < count
          BY <1>n, <3>2 DEF next, count
        <5> QED
          BY <5>1, <5>2, <5>3
      <4> QED
        BY <1>1, <2>15, <4>1, <4>2
    <3>3. ASSUME NEW k \in PartNo, k < count
          PROVE  content'[<<c, k>>] = Bytes(c, Start(k), Start(k + 1))
      <4>1. CASE k = last
        BY <2>3, <2>12, <4>1
      <4>2. CASE k # last
        <5>1. k < last /\ k # count
          BY <1>n, <2>3, <3>3, <4>2 DEF count, last
        <5>2. content[<<c, k>>] = Bytes(c, Start(k), Start(k + 1))
          BY <2>1, <5>1 DEF OwnParts, last, count
        <5> QED
          BY <2>14, <4>2, <5>1, <5>2
      <4> QED
        BY <4>1, <4>2
    <3>4. splitcount'[c] >= 1
      BY <1>n, <1>7 DEF next, count
    <3> QED
      BY <1>7, <2>9, <2>13, <3>1, <3>2, <3>3, <3>4 DEF OwnParts
  <2>17. OwnSpare(c)'
    <3>1. ASSUME NEW k \in PartNo, k >= next PROVE content'[<<c, k>>] = <<>>
      <4>1. k >= count /\ k # count /\ k # last
        BY <1>n, <3>1 DEF next, count, last
      <4>2. content[<<c, k>>] = <<>>
        BY <2>1, <4>1 DEF OwnSpare, count
      <4> QED
        BY <2>14, <4>1, <4>2
    <3>2. ASSUME NEW k \in PartNo, k > next PROVE dir'[k] = NoFile
      <4>1. k > count /\ k # next
        BY <1>n, <3>2 DEF next, count
      <4>2. dir[k] = NoFile
        BY <2>1, <4>1 DEF OwnSpare, count
      <4> QED
        BY <1>1, <2>15, <4>1, <4>2
    <3>3. got'[c] = Start(count) + size'[c]
      BY <1>n, <1>f, <1>7, <2>4, <2>7, SMTT(40)
    <3>4. fd1'[c] = <<c, count>> /\ fd2'[c] = <<c, next>> /\ dir'[next] = <<c, next>>
      BY <1>1, <1>7, <2>4, <2>15
    <3> QED
      BY <1>7, <2>9, <3>1, <3>2, <3>3, <3>4 DEF OwnSpare
  <2> QED
    BY <2>16, <2>17
<1> QED
  BY <1>5, <1>8, <1>9 DEF AloneInv

LEMMA AloneStep == ImgInv /\ AloneInv /\ [Next]_vars => AloneInv'
<1> SUFFICES ASSUME ImgInv, AloneInv, [Next]_vars PROVE AloneInv'
  OBVIOUS
<1>1. CASE UNCHANGED vars
  BY <1>1 DEF vars, connVars, AloneInv, OneAlone, UnusedNoTrace, AloneOwns, NoTrace,
     OwnParts, OwnSpare
<1>2. CASE Next
  BY <1>2, PutImgAlone, ConnectAlone, LostAlone, WithinAlone, AcrossAlone DEF Next
<1> QED
  BY <1>1, <1>2

\* The parts of an upload that found an empty directory hold what was sent, in
\* order and cut at SPLITSIZE, however its pieces arrive and whatever
\* connections of earlier uploads write, for every size and any number of
\* connections.
THEOREM PartsHoldWhatWasSent == Spec => []PartsHold
<1>1. ImgInv /\ AloneInv => PartsHold
  <2> SUFFICES ASSUME ImgInv, AloneInv, NEW c \in Conn, alone[c],
                      NEW k \in 0 .. (splitcount[c] - 1), k \notin struck
               PROVE  /\ dir[k] # NoFile
                      /\ content[dir[k]] =
                           Bytes(c, k * SplitSize,
                                 IF k = splitcount[c] - 1 THEN got[c] ELSE (k + 1) * SplitSize)
    BY DEF PartsHold
  <2>1. OwnParts(c)
    BY DEF AloneInv, AloneOwns
  <2>2. splitcount[c] \in PartNo /\ splitcount[c] \in Nat
    BY SizeAssumption DEF ImgInv, TypeOK, PartNo
  <2>3. k \in PartNo /\ k < splitcount[c]
    BY <2>2, SizeAssumption DEF PartNo
  <2>4. dir[k] = <<c, k>>
    BY <2>1, <2>3 DEF OwnParts
  <2>5. CASE k = splitcount[c] - 1
    BY <2>1, <2>4, <2>5 DEF OwnParts, Start, NoFile
  <2>6. CASE k # splitcount[c] - 1
    <3>1. k < splitcount[c] - 1
      BY <2>2, <2>3, <2>6
    <3> QED
      BY <2>1, <2>3, <2>4, <2>6, <3>1 DEF OwnParts, Start, NoFile
  <2> QED
    BY <2>5, <2>6
<1>2. (ImgInv /\ AloneInv) /\ [Next]_vars => (ImgInv /\ AloneInv)'
  BY StepOk, AloneStep
<1> QED
  BY <1>1, <1>2, InitOk, AloneInit, PTL DEF Spec

-----------------------------------------------------------------------------
(* What is read back *)

\* A set of numbers that has 0 and the successor of each of its members has
\* them all.
LEMMA NatInSet ==
    ASSUME NEW T, 0 \in T, \A n \in Nat : n \in T => n + 1 \in T
    PROVE  Nat \subseteq T
<1> DEFINE U == Nat \ T
           less == OpToRel(<, Nat)
<1> SUFFICES ASSUME U # {} PROVE FALSE
  OBVIOUS
<1>1. IsWellFoundedOn(less, Nat)
  BY NatLessThanWellFounded
<1>2. U \subseteq Nat
  OBVIOUS
<1>3. PICK x \in U : \A y \in U : ~ (<<y, x>> \in less)
  <2> HIDE DEF U, less
  <2> QED
    BY <1>1, <1>2, WFMin
<1>4. x \in Nat \ {0} /\ x - 1 \in U
  <2>1. x # 0
    OBVIOUS
  <2>2. x - 1 \in Nat /\ (x - 1) + 1 = x
    BY <2>1
  <2> QED
    BY <2>1, <2>2
<1>5. <<x - 1, x>> \in less
  BY <1>4 DEF OpToRel
<1> QED
  BY <1>3, <1>4, <1>5

\* When a connection that was alone has ended, its spare part is gone and
\* there is none behind it.
Complete(c) ==
    /\ got[c] = Start(splitcount[c] - 1) + size[c]
    /\ \A k \in PartNo : k >= splitcount[c] => dir[k] = NoFile

AloneComplete == \A c \in Conn : alone[c] /\ state[c] = "lost" => Complete(c)

LEMMA CompleteStep ==
    ImgInv /\ AloneInv /\ AloneComplete /\ [Next]_vars => AloneComplete'
<1> SUFFICES ASSUME ImgInv, AloneInv, AloneComplete, [Next]_vars,
                    NEW c \in Conn, alone'[c], state'[c] = "lost"
             PROVE  Complete(c)'
  BY DEF AloneComplete
<1>t. TypeOK
  BY DEF ImgInv
<1>1. ASSUME PutImg PROVE FALSE
  BY <1>1 DEF PutImg
<1>2. ASSUME NEW d \in Conn, Connect(d) PROVE FALSE
  BY <1>t, <1>2 DEF Connect, TypeOK
<1>3. ASSUME NEW d \in Conn, ConnectionLost(d) PROVE Complete(c)'
  <2>1. /\ state[d] = "open" /\ state' = [state EXCEPT ![d] = "lost"]
        /\ UNCHANGED <<splitcount, size, got, alone>>
    BY <1>3 DEF ConnectionLost
  <2>2. \A k \in PartNo : dir'[k] = IF k = splitcount[d] THEN NoFile ELSE dir[k]
    BY <1>t, <1>3 DEF TypeOK, ConnectionLost
  <2>3. CASE c = d
    <3>1. OwnSpare(c)
      BY <2>1, <2>3 DEF AloneInv, AloneOwns
    <3>2. splitcount[c] \in Nat /\ PartNo \subseteq Nat
      BY <1>t DEF TypeOK, PartNo
    <3>3. \A k \in PartNo : k >= splitcount[c] => k = splitcount[c] \/ k > splitcount[c]
      BY <3>2
    <3> QED
      BY <2>1, <2>2, <2>3, <3>1, <3>3 DEF OwnSpare, Complete
  <2>4. CASE c # d
    <3>1. state[c] = "lost"
      BY <1>t, <2>1, <2>4 DEF TypeOK
    <3>2. Complete(c)
      BY <2>1, <3>1 DEF AloneComplete
    <3> QED
      BY <2>1, <2>2, <3>2 DEF Complete
  <2> QED
    BY <2>3, <2>4
<1>4. ASSUME NEW d \in Conn, NEW n \in 1 .. MaxChunk, ReceiveWithin(d, n)
      PROVE  Complete(c)'
  <2>1. /\ state[d] = "open"
        /\ size' = [size EXCEPT ![d] = @ + n] /\ got' = [got EXCEPT ![d] = @ + n]
        /\ UNCHANGED <<dir, state, splitcount, alone>>
    BY <1>4 DEF ReceiveWithin
  <2>2. Complete(c) /\ c # d
    BY <2>1 DEF AloneComplete
  <2>3. size'[c] = size[c] /\ got'[c] = got[c]
    BY <1>t, <2>1, <2>2 DEF TypeOK
  <2> QED
    BY <2>1, <2>2, <2>3 DEF Complete
<1>5. ASSUME NEW d \in Conn, NEW n \in 1 .. MaxChunk, ReceiveAcross(d, n)
      PROVE  FALSE
  BY <1>5 DEF ReceiveAcross
<1>6. ASSUME UNCHANGED vars PROVE Complete(c)'
  BY <1>6 DEF vars, connVars, AloneComplete, Complete
<1> QED
  BY <1>1, <1>2, <1>3, <1>4, <1>5, <1>6 DEF Next

LEMMA StartMonotone ==
    ASSUME NEW j \in Nat, NEW k \in Nat, j <= k
    PROVE  Start(j) <= Start(k)
<1>1. SplitSize \in Nat /\ k - j \in Nat
  BY SizeAssumption
<1>2. PICK d \in Nat : k = j + d
  BY <1>1
<1>3. (j + d) * SplitSize = j * SplitSize + d * SplitSize
  BY <1>1
<1>4. d * SplitSize \in Nat /\ j * SplitSize \in Nat
  BY <1>1
<1>5. j * SplitSize <= j * SplitSize + d * SplitSize
  BY <1>4
<1> QED
  BY <1>2, <1>3, <1>5 DEF Start

\* Each part that is found continues the bytes of the parts before it, and the
\* parts that are not found are behind the end.
LEMMA PartContinues ==
    ASSUME ImgInv, AloneInv, AloneComplete, struck = {},
           NEW c \in Conn, alone[c], state[c] = "lost",
           NEW k \in PartNo
    PROVE  LET upTo(j) == IF Start(j) <= got[c] THEN Start(j) ELSE got[c]
           IN  Bytes(c, 0, upTo(k)) \o (IF dir[k] = NoFile THEN <<>> ELSE content[dir[k]])
                 = Bytes(c, 0, upTo(k + 1))
<1> DEFINE upTo(j) == IF Start(j) <= got[c] THEN Start(j) ELSE got[c]
           part == IF dir[k] = NoFile THEN <<>> ELSE content[dir[k]]
           count == splitcount[c]
<1> SUFFICES Bytes(c, 0, upTo(k)) \o part = Bytes(c, 0, upTo(k + 1))
  OBVIOUS
<1>1. OwnParts(c) /\ Complete(c)
  BY DEF AloneInv, AloneOwns, AloneComplete
<1>n. /\ got[c] \in Nat /\ got[c] <= MaxData /\ MaxData \in Nat
      /\ size[c] \in Nat /\ size[c] < SplitSize /\ SplitSize \in Nat
      /\ k \in Nat /\ count \in Nat /\ count >= 1 /\ count \in PartNo
      /\ count - 1 \in Nat /\ (count - 1) + 1 = count
  BY <1>1, SizeAssumption DEF ImgInv, TypeOK, PartNo, OwnParts
<1>2. /\ Start(k) \in Nat /\ Start(k + 1) = Start(k) + SplitSize
      /\ Start(count - 1) \in Nat /\ Start(count) = Start(count - 1) + SplitSize
  BY <1>n, StartNext
<1>3. got[c] = Start(count - 1) + size[c] /\ got[c] < Start(count)
  BY <1>1, <1>2, <1>n DEF Complete
<1>4. ASSUME k < count
      PROVE  part = content[<<c, k>>]
  BY <1>1, <1>4, PartInode DEF OwnParts
<1>5. CASE k < count - 1
  <2>1. Start(k + 1) <= Start(count - 1)
    BY <1>n, <1>5, StartMonotone
  <2>2. Start(k) <= got[c] /\ Start(k + 1) <= got[c]
    BY <1>2, <1>3, <1>n, <2>1
  <2>3. part = Bytes(c, Start(k), Start(k + 1))
    BY <1>1, <1>4, <1>5, <1>n DEF OwnParts
  <2>4. /\ 0 \in 0 .. MaxData /\ Start(k) \in 0 .. MaxData
        /\ Start(k + 1) \in Start(k) .. MaxData
    BY <1>2, <1>n, <2>2
  <2>5. Bytes(c, 0, Start(k)) \o Bytes(c, Start(k), Start(k + 1)) = Bytes(c, 0, Start(k + 1))
    BY <2>4, JoinBytes
  <2> QED
    BY <2>2, <2>3, <2>5
<1>6. CASE k = count - 1
  <2>1. Start(k) <= got[c] /\ ~(Start(k + 1) <= got[c])
    BY <1>2, <1>3, <1>6, <1>n
  <2>2. part = Bytes(c, Start(k), got[c])
    BY <1>1, <1>4, <1>6, <1>n DEF OwnParts
  <2>3. 0 \in 0 .. MaxData /\ Start(k) \in 0 .. MaxData /\ got[c] \in Start(k) .. MaxData
    BY <1>2, <1>n, <2>1
  <2>4. Bytes(c, 0, Start(k)) \o Bytes(c, Start(k), got[c]) = Bytes(c, 0, got[c])
    BY <2>3, JoinBytes
  <2> QED
    BY <2>1, <2>2, <2>4
<1>7. CASE k >= count
  <2>1. Start(count) <= Start(k)
    BY <1>n, <1>7, StartMonotone
  <2>2. ~(Start(k) <= got[c]) /\ ~(Start(k + 1) <= got[c])
    BY <1>2, <1>3, <1>n, <2>1
  <2>3. part = <<>>
    BY <1>1, <1>7 DEF Complete
  <2>4. Bytes(c, 0, got[c]) \in Seq(Byte)
    <3>1. 0 \in 0 .. MaxData /\ got[c] \in 0 .. MaxData
      BY <1>n
    <3> QED
      BY <3>1, BytesTyped
  <2>5. Bytes(c, 0, got[c]) \o <<>> = Bytes(c, 0, got[c])
    BY <2>4, ConcatEmptySeq
  <2> QED
    BY <2>2, <2>3, <2>5
<1>8. k < count - 1 \/ k = count - 1 \/ k >= count
  BY <1>n
<1> QED
  BY <1>5, <1>6, <1>7, <1>8

LEMMA ServedWhole ==
    ASSUME ImgInv, AloneInv, AloneComplete, struck = {},
           NEW c \in Conn, alone[c], state[c] = "lost", got[c] <= Digits * SplitSize
    PROVE  Served = Bytes(c, 0, got[c])
<1> DEFINE upTo(j) == IF Start(j) <= got[c] THEN Start(j) ELSE got[c]
           part(j) == IF dir[j] = NoFile THEN <<>> ELSE content[dir[j]]
           ReadOf(g) == [k \in 0 .. Digits |-> IF k = 0 THEN <<>> ELSE g[k - 1] \o part(k - 1)]
           all == [k \in 0 .. Digits |-> Bytes(c, 0, upTo(k))]
           read == CHOOSE g : g = ReadOf(g)
<1>n. /\ Digits \in Nat /\ got[c] \in Nat /\ got[c] <= MaxData /\ MaxData \in Nat
      /\ Digits <= MaxData + 2 /\ Start(0) = 0 /\ Start(Digits) = Digits * SplitSize
  BY SizeAssumption DEF ImgInv, TypeOK, Start
<1>1. ASSUME NEW k \in 0 .. Digits, k # 0
      PROVE  Bytes(c, 0, upTo(k - 1)) \o part(k - 1) = Bytes(c, 0, upTo(k))
  <2>1. k - 1 \in PartNo /\ (k - 1) + 1 = k
    BY <1>1, <1>n DEF PartNo
  <2> QED
    BY <2>1, PartContinues
<1>2. Bytes(c, 0, upTo(0)) = <<>>
  <2>1. upTo(0) = 0 /\ 0 \in 0 .. MaxData
    BY <1>n
  <2> QED
    BY <2>1, NoBytes
<1>3. all = ReadOf(all)
  <2> SUFFICES ASSUME NEW k \in 0 .. Digits
               PROVE  all[k] = IF k = 0 THEN <<>> ELSE all[k - 1] \o part(k - 1)
    OBVIOUS
  <2>1. CASE k = 0
    BY <1>2, <2>1
  <2>2. CASE k # 0
    <3>1. all[k - 1] = Bytes(c, 0, upTo(k - 1))
      <4>1. k - 1 \in 0 .. Digits
        BY <1>n, <2>2
      <4> QED
        BY <4>1
    <3>2. all[k] = Bytes(c, 0, upTo(k))
      OBVIOUS
    <3> HIDE DEF all, upTo, part
    <3> QED
      BY <1>1, <2>2, <3>1, <3>2
  <2> QED
    BY <2>1, <2>2
<1>4. read = ReadOf(read)
  <2>1. \E g : g = ReadOf(g)
    BY <1>3
  <2> HIDE DEF ReadOf
  <2> QED
    BY <2>1
<1> HIDE DEF read
<1>5. \A k \in 0 .. Digits : read[k] = IF k = 0 THEN <<>> ELSE read[k - 1] \o part(k - 1)
  BY <1>4
<1>6. \A k \in 0 .. Digits : all[k] = IF k = 0 THEN <<>> ELSE all[k - 1] \o part(k - 1)
  BY <1>3
<1> HIDE DEF all, part
<1>7. read[Digits] = all[Digits]
  <2> DEFINE T == {k \in Nat : k <= Digits => read[k] = all[k]}
  <2>1. 0 \in T
    BY <1>5, <1>6, <1>n
  <2>2. ASSUME NEW k \in Nat, k \in T PROVE k + 1 \in T
    <3> SUFFICES ASSUME k + 1 <= Digits PROVE read[k + 1] = all[k + 1]
      OBVIOUS
    <3>1. k + 1 \in 0 .. Digits /\ k + 1 # 0 /\ (k + 1) - 1 = k /\ k <= Digits
      BY <1>n
    <3>2. read[k] = all[k]
      BY <2>2, <3>1
    <3> QED
      BY <1>5, <1>6, <3>1, <3>2
  <2> HIDE DEF T
  <2>3. Nat \subseteq T
    BY <2>1, <2>2, NatInSet
  <2> QED
    BY <1>n, <2>3 DEF T
<1>8. all[Digits] = Bytes(c, 0, got[c])
  <2>1. upTo(Digits) = got[c]
    <3>1. got[c] <= Start(Digits) /\ Start(Digits) \in Nat
      BY <1>n, StartNext
    <3> QED
      BY <1>n, <3>1
  <2>2. Digits \in 0 .. Digits
    BY <1>n
  <2> QED
    BY <2>1, <2>2 DEF all
<1>9. Served = read[Digits]
  BY DEF Served, read, part
<1> QED
  BY <1>7, <1>8, <1>9

\* An image that was uploaded with the directory to itself, and that needs no
\* more parts than glob('.??') finds, is read back as it was sent, for every
\* part size and every number of parts.
THEOREM UploadsServedAsSent == Spec => []ServedAsSent
<1>1. ImgInv /\ AloneInv /\ AloneComplete => ServedAsSent
  BY ServedWhole DEF ServedAsSent
<1>2. Init => AloneComplete
  BY DEF Init, AloneComplete
<1>3. (ImgInv /\ AloneInv /\ AloneComplete) /\ [Next]_vars
        => (ImgInv /\ AloneInv /\ AloneComplete)'
  BY StepOk, AloneStep, CompleteStep
<1> QED
  BY <1>1, <1>2, <1>3, InitOk, AloneInit, PTL DEF Spec
=============================================================================
