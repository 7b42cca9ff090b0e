---------------------- MODULE CometUpstreamProofs ----------------------
(***************************************************************************)
(* Proofs about what a session of CometSession sends up: the page's frames  *)
(* are taken without a gap, and none leaves the page's queue before it has  *)
(* reached the service.                                                     *)
(***************************************************************************)
EXTENDS CometSessionProofs

-----------------------------------------------------------------------------
(* The inductive invariant *)

IdsOf(frames) == {frames[i].id : i \in DOMAIN frames}

\* Each of the frames is the first of all, or comes after one that is in ids,
\* or after the one before it.
Chain(ids, frames) ==
    \A i \in DOMAIN frames :
        \/ frames[i].id = 1
        \/ frames[i].id - 1 \in ids
        \/ i > 1 /\ frames[i - 1].id = frames[i].id - 1

\* The ids of what was taken and of the bodies that are parsed before the k-th.
Before(t, bodies, k) ==
    Range(t) \cup UNION {IdsOf(bodies[i]) : i \in 1 .. k - 1}

Arrived == Before(taken, toParse, Len(toParse) + 1)

\* The bodies that wait for parseData go on from one another.
Waiting ==
    \A k \in DOMAIN toParse : Chain(Before(taken, toParse, k), toParse[k])

\* What is on its way goes on from what has arrived.
OnTheWay ==
    /\ \A p \in latePosts : Chain(Arrived, p.frames)
    /\ Chain(Arrived, posted.frames)
    /\ post = "answered" => IdsOf(posted.frames) \subseteq Arrived

\* The queue of a page that is there ends with its last packet, and what is
\* before it has arrived.
Ending ==
    /\ Len(sendQueue) <= packetCount
    /\ \A i \in DOMAIN sendQueue :
           sendQueue[i].id = packetCount - Len(sendQueue) + i
    /\ 1 .. packetCount - Len(sendQueue) \subseteq Arrived

\* What is posted is a prefix of the queue.
Prefix ==
    /\ Len(posted.frames) <= Len(sendQueue)
    /\ \A i \in DOMAIN posted.frames : posted.frames[i] = sendQueue[i]

Queued == Ending /\ Prefix

Upstream ==
    /\ UpstreamInOrder
    /\ Waiting
    /\ OnTheWay
    /\ rs # "LEFT" => Queued
    /\ rs = "LEFT" => post = "idle"

-----------------------------------------------------------------------------
(* Frames, bodies and chains *)

LEMMA PostType ==
    ASSUME NEW p \in Post
    PROVE  p.ack \in Nat /\ p.frames \in Seq(Upward)
BY DEF Post

\* A chain goes on from more ids than it needs.
LEMMA ChainMore ==
    ASSUME NEW A, NEW B, NEW f, A \subseteq B, Chain(A, f)
    PROVE  Chain(B, f)
BY DEF Chain

LEMMA ChainNone ==
    ASSUME NEW A
    PROVE  Chain(A, <<>>)
BY DEF Chain

\* What parseData makes of a body.
LEMMA BodyIds ==
    ASSUME NEW f \in Seq(Upward)
    PROVE  LET ids == [i \in DOMAIN f |-> f[i].id] IN
           /\ ids \in Seq(Nat)
           /\ Len(ids) = Len(f)
           /\ \A i \in 1 .. Len(f) : ids[i] = f[i].id
<1>. DEFINE ids == [i \in DOMAIN f |-> f[i].id]
<1>1. DOMAIN f = 1 .. Len(f) /\ Len(f) \in Nat
  OBVIOUS
<1>2. ASSUME NEW i \in 1 .. Len(f) PROVE f[i].id \in Nat
  <2>1. f[i] \in Upward
    OBVIOUS
  <2>. QED  BY <2>1 DEF Upward
<1>3. ids \in [1 .. Len(f) -> Nat]
  BY <1>1, <1>2
<1>4. ids = [i \in 1 .. Len(f) |-> f[i].id]
  BY <1>1
<1>5. ids \in Seq(Nat) /\ Len(ids) = Len(f)
  BY <1>1, <1>2, <1>4
<1>. QED  BY <1>1, <1>5

\* The ids of a sequence that another one is put behind.
LEMMA JoinedIds ==
    ASSUME NEW t \in Seq(Nat), NEW ids \in Seq(Nat), NEW s, s = t \o ids
    PROVE  Range(s) = Range(t) \cup Range(ids)
<1>1. /\ Len(s) = Len(t) + Len(ids) /\ DOMAIN s = 1 .. Len(s)
      /\ DOMAIN t = 1 .. Len(t) /\ DOMAIN ids = 1 .. Len(ids)
      /\ Len(t) \in Nat /\ Len(ids) \in Nat
  OBVIOUS
<1>2. /\ \A i \in 1 .. Len(t) : s[i] = t[i]
      /\ \A i \in 1 .. Len(ids) : s[Len(t) + i] = ids[i]
  OBVIOUS
<1>3. ASSUME NEW i \in 1 .. Len(s)
      PROVE  \/ i \in 1 .. Len(t)
             \/ \E j \in 1 .. Len(ids) : i = Len(t) + j
  <2>1. CASE i > Len(t)
    <3>1. i - Len(t) \in 1 .. Len(ids) /\ i = Len(t) + (i - Len(t))
      BY <1>1, <2>1
    <3>. QED  BY <3>1
  <2>. QED  BY <1>1, <2>1
<1>4. \A j \in 1 .. Len(ids) : Len(t) + j \in DOMAIN s
  BY <1>1
<1>5. \A j \in 1 .. Len(t) : j \in DOMAIN s
  BY <1>1
<1>6. ASSUME NEW i \in DOMAIN s PROVE s[i] \in Range(t) \cup Range(ids)
  <2>1. CASE i \in 1 .. Len(t)
    BY <1>1, <1>2, <2>1 DEF Range
  <2>2. CASE \E j \in 1 .. Len(ids) : i = Len(t) + j
    BY <1>1, <1>2, <2>2 DEF Range
  <2>. QED  BY <1>1, <1>3, <2>1, <2>2
<1>7. \A j \in DOMAIN t : t[j] \in Range(s)
  BY <1>1, <1>2, <1>5 DEF Range
<1>8. \A j \in DOMAIN ids : ids[j] \in Range(s)
  BY <1>1, <1>2, <1>4 DEF Range
<1>9. \A x \in Range(s) : \E i \in DOMAIN s : x = s[i]
  BY DEF Range
<1>10. \A x \in Range(t) : \E i \in DOMAIN t : x = t[i]
  BY DEF Range
<1>11. \A x \in Range(ids) : \E i \in DOMAIN ids : x = ids[i]
  BY DEF Range
<1>12. Range(s) \subseteq Range(t) \cup Range(ids)
  BY <1>6, <1>9
<1>13. Range(t) \subseteq Range(s)
  BY <1>7, <1>10
<1>14. Range(ids) \subseteq Range(s)
  BY <1>8, <1>11
<1>. QED  BY <1>12, <1>13, <1>14

\* What is parsed next is already counted among what arrived.
LEMMA BeforeParse ==
    ASSUME NEW t \in Seq(Nat), NEW q \in Seq(Seq(Upward)), q # <<>>,
           NEW k \in 1 .. Len(q),
           NEW f, f = Head(q),
           NEW s, s = t \o [i \in DOMAIN f |-> f[i].id]
    PROVE  Before(s, Tail(q), k) = Before(t, q, k + 1)
<1>. DEFINE ids == [i \in DOMAIN f |-> f[i].id]
            B(n) == {IdsOf(Tail(q)[i]) : i \in 1 .. n}
            C(n) == {IdsOf(q[i]) : i \in 1 .. n}
<1>1. f \in Seq(Upward) /\ f = q[1]
  OBVIOUS
<1>2. /\ ids \in Seq(Nat) /\ DOMAIN ids = DOMAIN f
      /\ \A i \in DOMAIN f : ids[i] = f[i].id
  BY <1>1, BodyIds
<1>3. Range(s) = Range(t) \cup IdsOf(f)
  <2>1. s = t \o ids
    OBVIOUS
  <2>. HIDE DEF ids
  <2>2. Range(s) = Range(t) \cup Range(ids)
    BY <1>2, <2>1, JoinedIds
  <2>3. Range(ids) = IdsOf(f)
    BY <1>2 DEF IdsOf, Range
  <2>. QED  BY <2>2, <2>3
<1>4. UNION C(k) = IdsOf(f) \cup UNION B(k - 1)
  <2>1. \A i \in 1 .. k - 1 : Tail(q)[i] = q[i + 1]
    OBVIOUS
  <2>2. UNION C(k) \subseteq IdsOf(f) \cup UNION B(k - 1)
    <3>1. SUFFICES ASSUME NEW i \in 1 .. k
                   PROVE  IdsOf(q[i]) \subseteq IdsOf(f) \cup UNION B(k - 1)
      OBVIOUS
    <3>2. CASE i = 1
      BY <1>1, <3>2
    <3>3. CASE i # 1
      <4>1. i - 1 \in 1 .. k - 1 /\ Tail(q)[i - 1] = q[i]
        BY <2>1, <3>3
      <4>. QED  BY <4>1
    <3>. QED  BY <3>2, <3>3
  <2>3. IdsOf(f) \in C(k)
    BY <1>1
  <2>4. UNION B(k - 1) \subseteq UNION C(k)
    <3>1. SUFFICES ASSUME NEW i \in 1 .. k - 1
                   PROVE  IdsOf(Tail(q)[i]) \in C(k)
      OBVIOUS
    <3>2. i + 1 \in 1 .. k
      OBVIOUS
    <3>. QED  BY <2>1, <3>2
  <2>. QED  BY <2>2, <2>3, <2>4
<1>5. Before(s, Tail(q), k) = Range(s) \cup UNION B(k - 1)
  BY DEF Before
<1>6. Before(t, q, k + 1) = Range(t) \cup UNION C(k)
  BY DEF Before
<1>. QED  BY <1>3, <1>4, <1>5, <1>6

LEMMA UnionMore ==
    ASSUME NEW S, NEW x
    PROVE  UNION (S \cup {x}) = (UNION S) \cup x
<1>1. \A y : y \in UNION (S \cup {x}) <=> \E s \in S \cup {x} : y \in s
  OBVIOUS
<1>2. \A y : y \in UNION S <=> \E s \in S : y \in s
  OBVIOUS
<1>. QED  BY <1>1, <1>2

\* A body that arrives is the last of those that wait: what is before the
\* others stays the same.
LEMMA BeforeSame ==
    ASSUME NEW t, NEW q, NEW a, NEW k \in Nat,
           \A i \in 1 .. k - 1 : a[i] = q[i]
    PROVE  Before(t, a, k) = Before(t, q, k)
<1>. DEFINE B(n) == {IdsOf(q[i]) : i \in 1 .. n}
            C(n) == {IdsOf(a[i]) : i \in 1 .. n}
<1>1. \A i \in 1 .. k - 1 : IdsOf(a[i]) = IdsOf(q[i])
  OBVIOUS
<1>2. C(k - 1) = B(k - 1)
  BY <1>1
<1>. QED  BY <1>2 DEF Before

LEMMA BeforeLast ==
    ASSUME NEW t, NEW a, NEW k \in Nat \ {0}
    PROVE  Before(t, a, k + 1) = Before(t, a, k) \cup IdsOf(a[k])
<1>. DEFINE C(n) == {IdsOf(a[i]) : i \in 1 .. n}
<1>1. UNION C(k) = (UNION C(k - 1)) \cup IdsOf(a[k])
  <2>1. C(k) = C(k - 1) \cup {IdsOf(a[k])}
    <3>1. 1 .. k = (1 .. k - 1) \cup {k}
      OBVIOUS
    <3>. QED  BY <3>1
  <2>. HIDE DEF C
  <2>. QED  BY <2>1, UnionMore
<1>2. /\ Before(t, a, k + 1) = Range(t) \cup UNION C(k)
      /\ Before(t, a, k) = Range(t) \cup UNION C(k - 1)
  <2>1. (k + 1) - 1 = k
    OBVIOUS
  <2>. QED  BY <2>1 DEF Before
<1>. QED  BY <1>1, <1>2

\* A queue that ends with the c-th packet goes on from what has arrived.
LEMMA QueueChain ==
    ASSUME NEW A, NEW s \in Seq(Upward), NEW c \in Nat, Len(s) <= c,
           \A i \in DOMAIN s : s[i].id = c - Len(s) + i,
           1 .. c - Len(s) \subseteq A
    PROVE  Chain(A, s)
<1>1. Len(s) \in Nat /\ DOMAIN s = 1 .. Len(s)
  OBVIOUS
<1>2. SUFFICES ASSUME NEW i \in 1 .. Len(s)
               PROVE  \/ s[i].id = 1
                      \/ s[i].id - 1 \in A
                      \/ i > 1 /\ s[i - 1].id = s[i].id - 1
  BY <1>1 DEF Chain
<1>3. s[i].id = c - Len(s) + i
  BY <1>1
<1>4. CASE i > 1
  <2>0. i - 1 \in DOMAIN s
    BY <1>1, <1>4
  <2>1. s[i - 1].id = c - Len(s) + (i - 1)
    BY <2>0
  <2>. QED  BY <1>1, <1>3, <1>4, <2>1
<1>5. CASE i = 1
  <2>1. CASE c = Len(s)
    BY <1>1, <1>3, <1>5, <2>1
  <2>2. CASE c # Len(s)
    <3>1. s[i].id - 1 = c - Len(s)
      BY <1>1, <1>3, <1>5
    <3>2. c - Len(s) \in Nat \ {0}
      BY <1>1, <2>2
    <3>3. c - Len(s) \in 1 .. c - Len(s)
      BY <3>2
    <3>. QED  BY <3>1, <3>3
  <2>. QED  BY <2>1, <2>2
<1>. QED  BY <1>2, <1>4, <1>5

-----------------------------------------------------------------------------
(* What the steps do to what is sent up *)

LEMMA UpTypes ==
    ASSUME TypeOK
    PROVE  /\ taken \in Seq(Nat) /\ toParse \in Seq(Seq(Upward))
           /\ sendQueue \in Seq(Upward) /\ packetCount \in Nat
           /\ posted \in Post /\ posted.frames \in Seq(Upward)
           /\ latePosts \subseteq Post
BY DEF TypeOK, Post

\* A step that leaves alone all that is sent up.
LEMMA UpKept ==
    ASSUME Upstream,
           UNCHANGED <<toParse, taken, sendQueue, packetCount, posted,
                       latePosts>>,
           rs' = "LEFT" <=> rs = "LEFT",
           post' = post \/ (post' # "answered" /\ rs # "LEFT")
    PROVE  Upstream'
<1>1. UpstreamInOrder' /\ Waiting' /\ Arrived' = Arrived
  BY DEF Upstream, UpstreamInOrder, Waiting, Arrived
<1>2. OnTheWay'
  BY <1>1 DEF Upstream, OnTheWay
<1>3. ASSUME Queued PROVE Queued'
  BY <1>1, <1>3 DEF Queued, Ending, Prefix
<1>. QED  BY <1>1, <1>2, <1>3 DEF Upstream

\* A body that goes on from what has arrived is put behind those that wait.
LEMMA BodyArrives ==
    ASSUME TypeOK, Upstream, NEW f \in Seq(Upward), Chain(Arrived, f),
           NEW q, q = Append(toParse, f), toParse' = q, taken' = taken
    PROVE  /\ UpstreamInOrder'
           /\ Waiting'
           /\ Arrived' = Arrived \cup IdsOf(f)
<1>1. toParse \in Seq(Seq(Upward)) /\ taken \in Seq(Nat)
  BY UpTypes
<1>3. /\ Len(q) = Len(toParse) + 1 /\ DOMAIN q = 1 .. Len(toParse) + 1
      /\ \A k \in 1 .. Len(toParse) : q[k] = toParse[k]
      /\ q[Len(toParse) + 1] = f
      /\ DOMAIN toParse = 1 .. Len(toParse) /\ Len(toParse) \in Nat
  BY <1>1
<1>2. /\ \A k \in 1 .. Len(toParse) + 1 :
             Before(taken, q, k) = Before(taken, toParse, k)
      /\ Before(taken, q, Len(toParse) + 2) =
             Before(taken, toParse, Len(toParse) + 1) \cup IdsOf(f)
  <2>1. \A k \in 1 .. Len(toParse) + 1 :
            Before(taken, q, k) = Before(taken, toParse, k)
    <3>1. ASSUME NEW k \in 1 .. Len(toParse) + 1
          PROVE  Before(taken, q, k) = Before(taken, toParse, k)
      <4>1. k \in Nat /\ \A i \in 1 .. k - 1 : q[i] = toParse[i]
        BY <1>3
      <4>. QED  BY <4>1, BeforeSame
    <3>. QED  BY <3>1
  <2>2. Before(taken, q, Len(toParse) + 2) =
            Before(taken, q, Len(toParse) + 1)
                \cup IdsOf(q[Len(toParse) + 1])
    <3>1. PICK n \in Nat \ {0} : n = Len(toParse) + 1
      BY <1>3
    <3>2. Before(taken, q, n + 1) = Before(taken, q, n) \cup IdsOf(q[n])
      BY BeforeLast
    <3>3. n + 1 = Len(toParse) + 2
      BY <1>3, <3>1
    <3>. QED  BY <3>1, <3>2, <3>3
  <2>3. Before(taken, q, Len(toParse) + 1) =
            Before(taken, toParse, Len(toParse) + 1)
    BY <1>3, <2>1
  <2>. QED  BY <1>3, <2>1, <2>2, <2>3
<1>5. UpstreamInOrder'
  BY DEF Upstream, UpstreamInOrder
<1>6. ASSUME NEW k \in 1 .. Len(toParse) + 1
      PROVE  Chain(Before(taken, q, k), q[k])
  <2>1. Before(taken, q, k) = Before(taken, toParse, k)
    BY <1>2
  <2>2. CASE k \in 1 .. Len(toParse)
    BY <1>3, <2>1, <2>2 DEF Upstream, Waiting
  <2>3. CASE k = Len(toParse) + 1
    BY <1>3, <2>1, <2>3 DEF Arrived
  <2>. QED  BY <1>3, <2>2, <2>3
<1>7. Waiting'
  BY <1>3, <1>6 DEF Waiting
<1>8. Len(q) + 1 = Len(toParse) + 2
  BY <1>3
<1>. QED  BY <1>2, <1>5, <1>7, <1>8 DEF Arrived

\* More has arrived, and the rest of what is sent up is left alone.
LEMMA MoreArrived ==
    ASSUME Upstream, Arrived \subseteq Arrived',
           UNCHANGED <<sendQueue, packetCount, posted>>,
           latePosts' \subseteq latePosts,
           post' = "answered" =>
               post = "answered" \/ IdsOf(posted.frames) \subseteq Arrived'
    PROVE  OnTheWay' /\ (Queued => Queued')
<1>1. \A p \in latePosts' : Chain(Arrived', p.frames)
  <2>1. ASSUME NEW p \in latePosts' PROVE Chain(Arrived', p.frames)
    <3>1. Chain(Arrived, p.frames)
      BY DEF Upstream, OnTheWay
    <3>. QED  BY <3>1, ChainMore
  <2>. QED  BY <2>1
<1>2. Chain(Arrived', posted.frames)
  <2>1. Chain(Arrived, posted.frames)
    BY DEF Upstream, OnTheWay
  <2>. QED  BY <2>1, ChainMore
<1>3. OnTheWay'
  BY <1>1, <1>2 DEF Upstream, OnTheWay
<1>4. ASSUME Queued PROVE Queued'
  BY <1>4 DEF Queued, Ending, Prefix
<1>. QED  BY <1>3, <1>4

\* parseData takes the first body.
LEMMA BodyTaken ==
    ASSUME TypeOK, Upstream, ParseData
    PROVE  /\ UpstreamInOrder'
           /\ Waiting'
           /\ Arrived' = Arrived
<1>. DEFINE f   == Head(toParse)
            ids == [i \in DOMAIN f |-> f[i].id]
<1>1. /\ toParse # <<>> /\ toParse' = Tail(toParse) /\ taken' = taken \o ids
  BY DEF ParseData
<1>2. /\ taken \in Seq(Nat) /\ toParse \in Seq(Seq(Upward))
      /\ Len(toParse) \in Nat \ {0} /\ Len(Tail(toParse)) = Len(toParse) - 1
      /\ f \in Seq(Upward) /\ f = toParse[1]
      /\ \A k \in 1 .. Len(toParse) - 1 : Tail(toParse)[k] = toParse[k + 1]
  BY <1>1, UpTypes
<1>3. /\ ids \in Seq(Nat) /\ Len(ids) = Len(f)
      /\ \A i \in 1 .. Len(f) : ids[i] = f[i].id
  BY <1>2, BodyIds
<1>4. \A k \in 1 .. Len(toParse) :
          Before(taken', Tail(toParse), k) = Before(taken, toParse, k + 1)
  BY <1>1, <1>2, BeforeParse
<1>. HIDE DEF f, ids
<1>5. Arrived' = Arrived
  <2>1. Len(toParse') + 1 = Len(toParse)
    BY <1>1, <1>2
  <2>. QED  BY <1>1, <1>2, <1>4, <2>1 DEF Arrived
<1>6. Waiting'
  <2>1. SUFFICES ASSUME NEW k \in 1 .. Len(toParse) - 1
                 PROVE  Chain(Before(taken', Tail(toParse), k), Tail(toParse)[k])
    BY <1>1, <1>2 DEF Waiting
  <2>2. k + 1 \in DOMAIN toParse /\ k \in 1 .. Len(toParse)
    BY <1>2
  <2>3. Chain(Before(taken, toParse, k + 1), toParse[k + 1])
    BY <2>2 DEF Upstream, Waiting
  <2>. QED  BY <1>2, <1>4, <2>2, <2>3
<1>7. UpstreamInOrder'
  <2>1. /\ Len(taken') = Len(taken) + Len(f) /\ Len(taken) \in Nat
        /\ DOMAIN taken' = 1 .. Len(taken) + Len(f) /\ Len(f) \in Nat
        /\ \A i \in 1 .. Len(taken) : taken'[i] = taken[i]
        /\ \A i \in 1 .. Len(f) : taken'[Len(taken) + i] = f[i].id
        /\ DOMAIN taken = 1 .. Len(taken) /\ DOMAIN f = 1 .. Len(f)
    <3>1. /\ taken' \in Seq(Nat) /\ Len(taken') = Len(taken) + Len(ids)
          /\ \A i \in 1 .. Len(taken) + Len(ids) : taken'[i] =
                 IF i <= Len(taken) THEN taken[i] ELSE ids[i - Len(taken)]
      BY <1>1, <1>2, <1>3, ConcatProperties
    <3>2. /\ Len(taken) \in Nat /\ Len(f) \in Nat
          /\ DOMAIN taken' = 1 .. Len(taken') /\ DOMAIN taken = 1 .. Len(taken)
          /\ DOMAIN f = 1 .. Len(f)
      BY <1>2, <3>1
    <3>3. \A i \in 1 .. Len(taken) : taken'[i] = taken[i]
      BY <1>3, <3>1, <3>2
    <3>4. ASSUME NEW i \in 1 .. Len(f) PROVE taken'[Len(taken) + i] = f[i].id
      <4>1. Len(taken) + i \in 1 .. Len(taken) + Len(ids)
        BY <1>3, <3>2
      <4>2. ~(Len(taken) + i <= Len(taken)) /\ (Len(taken) + i) - Len(taken) = i
        BY <3>2
      <4>. QED  BY <1>3, <3>1, <4>1, <4>2
    <3>. QED  BY <1>3, <3>1, <3>2, <3>3, <3>4
  <2>2. SUFFICES ASSUME NEW i \in 1 .. Len(taken) + Len(f)
                 PROVE  \/ taken'[i] = 1
                        \/ \E j \in 1 .. i - 1 : taken'[j] = taken'[i] - 1
    BY <2>1 DEF UpstreamInOrder
  <2>3. CASE i \in 1 .. Len(taken)
    <3>1. \/ taken[i] = 1
          \/ \E j \in 1 .. i - 1 : taken[j] = taken[i] - 1
      BY <2>1, <2>3 DEF Upstream, UpstreamInOrder
    <3>2. \A j \in 1 .. i - 1 : taken'[j] = taken[j]
      BY <2>1, <2>3
    <3>. QED  BY <2>1, <2>3, <3>1, <3>2
  <2>4. CASE i \notin 1 .. Len(taken)
    <3>1. PICK n \in 1 .. Len(f) : i = Len(taken) + n
      <4>1. i - Len(taken) \in 1 .. Len(f) /\ i = Len(taken) + (i - Len(taken))
        BY <2>1, <2>4
      <4>. QED  BY <4>1
    <3>2. Before(taken, toParse, 1) = Range(taken)
      BY DEF Before
    <3>3. 1 \in DOMAIN toParse
      BY <1>2
    <3>4. Chain(Range(taken), f)
      BY <1>2, <3>2, <3>3 DEF Upstream, Waiting
    <3>5. CASE f[n].id = 1
      BY <2>1, <3>1, <3>5
    <3>6. CASE f[n].id - 1 \in Range(taken)
      <4>1. PICK j \in 1 .. Len(taken) : taken[j] = f[n].id - 1
        BY <2>1, <3>6 DEF Range
      <4>2. j \in 1 .. i - 1 /\ taken'[j] = taken'[i] - 1
        BY <2>1, <3>1, <4>1
      <4>. QED  BY <4>2
    <3>7. CASE n > 1 /\ f[n - 1].id = f[n].id - 1
      <4>1. /\ n - 1 \in 1 .. Len(f) /\ i - 1 \in 1 .. i - 1
            /\ i - 1 = Len(taken) + (n - 1)
        BY <2>1, <3>1, <3>7
      <4>2. taken'[i - 1] = f[n - 1].id /\ taken'[i] = f[n].id
        BY <2>1, <3>1, <4>1
      <4>. QED  BY <3>7, <4>1, <4>2
    <3>. QED  BY <2>1, <3>4, <3>5, <3>6, <3>7 DEF Chain
  <2>. QED  BY <2>3, <2>4
<1>. QED  BY <1>5, <1>6, <1>7

\* All that is queued is posted.
LEMMA QueuePosted ==
    ASSUME TypeOK', Ending', posted'.frames = sendQueue'
    PROVE  Queued' /\ Chain(Arrived', posted'.frames)
<1>1. sendQueue' \in Seq(Upward) /\ packetCount' \in Nat
  BY DEF TypeOK
<1>2. Prefix'
  BY DEF Prefix
<1>3. /\ Len(sendQueue') <= packetCount'
      /\ \A i \in DOMAIN sendQueue' :
             sendQueue'[i].id = packetCount' - Len(sendQueue') + i
      /\ 1 .. packetCount' - Len(sendQueue') \subseteq Arrived'
  BY DEF Ending
<1>4. Chain(Arrived', sendQueue')
  BY <1>1, <1>3, QueueChain
<1>. QED  BY <1>2, <1>4 DEF Queued

\* What has arrived is left alone.
LEMMA ArrivedKept ==
    ASSUME Upstream, UNCHANGED <<toParse, taken>>
    PROVE  UpstreamInOrder' /\ Waiting' /\ Arrived' = Arrived
BY DEF Upstream, UpstreamInOrder, Waiting, Arrived

\* A page that is there queues a packet, and may post it.
LEMMA PushUpstream ==
    ASSUME TypeOK, TypeOK', Upstream, rs # "LEFT", rs' # "LEFT",
           NEW name, NEW ack, Push(name, ack),
           UNCHANGED <<toParse, taken, latePosts>>
    PROVE  Upstream'
<1>. DEFINE frame == [id |-> packetCount + 1, name |-> name]
            queue == Append(sendQueue, frame)
<1>1. UpstreamInOrder' /\ Waiting' /\ Arrived' = Arrived
  BY ArrivedKept
<1>2. /\ sendQueue \in Seq(Upward) /\ packetCount \in Nat
      /\ posted.frames \in Seq(Upward) /\ Len(sendQueue) \in Nat
  BY UpTypes
<1>3. /\ packetCount' = packetCount + 1 /\ sendQueue' = queue
      /\ \/ post' = post /\ posted' = posted
         \/ post' = "sent" /\ posted' = [ack |-> ack, frames |-> queue]
  BY DEF Push, DoSend
<1>4. /\ Len(queue) = Len(sendQueue) + 1 /\ DOMAIN queue = 1 .. Len(sendQueue) + 1
      /\ \A i \in 1 .. Len(sendQueue) : queue[i] = sendQueue[i]
      /\ queue[Len(sendQueue) + 1].id = packetCount + 1
      /\ DOMAIN sendQueue = 1 .. Len(sendQueue)
  BY <1>2
<1>. HIDE DEF queue
<1>5. Ending /\ Prefix
  BY DEF Upstream, Queued
<1>6. Ending'
  <2>1. Len(queue) <= packetCount + 1
    BY <1>2, <1>4, <1>5 DEF Ending
  <2>2. ASSUME NEW i \in 1 .. Len(sendQueue) + 1
        PROVE  queue[i].id = (packetCount + 1) - Len(queue) + i
    <3>1. CASE i \in 1 .. Len(sendQueue)
      <4>1. queue[i].id = packetCount - Len(sendQueue) + i
        BY <1>4, <1>5, <3>1 DEF Ending
      <4>. QED  BY <1>2, <1>4, <4>1
    <3>2. CASE i = Len(sendQueue) + 1
      BY <1>2, <1>4, <3>2
    <3>. QED  BY <1>2, <3>1, <3>2
  <2>3. (packetCount + 1) - Len(queue) = packetCount - Len(sendQueue)
    BY <1>2, <1>4
  <2>4. 1 .. packetCount - Len(sendQueue) \subseteq Arrived'
    BY <1>1, <1>5 DEF Ending
  <2>. QED  BY <1>3, <1>4, <2>1, <2>2, <2>3, <2>4 DEF Ending
<1>7. CASE post' = post /\ posted' = posted
  <2>1. OnTheWay'
    BY <1>1, <1>7 DEF Upstream, OnTheWay
  <2>2. Prefix'
    <3>1. /\ DOMAIN posted.frames = 1 .. Len(posted.frames)
          /\ Len(posted.frames) \in Nat
      BY <1>2
    <3>2. Len(posted.frames) <= Len(sendQueue)
      BY <1>5 DEF Prefix
    <3>3. ASSUME NEW i \in 1 .. Len(posted.frames)
          PROVE  posted.frames[i] = queue[i]
      <4>1. i \in 1 .. Len(sendQueue)
        BY <1>2, <3>1, <3>2
      <4>. QED  BY <1>4, <1>5, <3>1, <4>1 DEF Prefix
    <3>4. Len(posted.frames) <= Len(queue)
      BY <1>2, <1>4, <3>1, <3>2
    <3>. QED  BY <1>3, <1>7, <3>1, <3>3, <3>4 DEF Prefix
  <2>. QED  BY <1>1, <1>6, <2>1, <2>2 DEF Upstream, Queued
<1>8. CASE post' = "sent" /\ posted' = [ack |-> ack, frames |-> queue]
  <2>1. posted'.frames = sendQueue'
    BY <1>3, <1>8
  <2>2. Queued' /\ Chain(Arrived', posted'.frames)
    BY <1>6, <2>1, QueuePosted
  <2>3. OnTheWay'
    BY <1>1, <1>8, <2>2 DEF Upstream, OnTheWay
  <2>. QED  BY <1>1, <2>2, <2>3 DEF Upstream
<1>. QED  BY <1>3, <1>7, <1>8

\* A step of the page that reads frames.
LEMMA ReadUpstream ==
    ASSUME TypeOK, TypeOK', Upstream, rs # "LEFT", NEW frames,
           ReadFrames(frames), UNCHANGED <<toParse, taken, latePosts>>
    PROVE  Upstream'
<1>. DEFINE last    == IF Len(frames) = 0 THEN ackId ELSE frames[Len(frames)].id
            highest == Larger(lastPacketId, last)
<1>1. rs' # "LEFT"
  BY DEF ReadFrames
<1>2. Push("ping", highest) \/ UNCHANGED up
  BY DEF ReadFrames
<1>. HIDE DEF highest
<1>3. CASE Push("ping", highest)
  BY <1>1, <1>3, PushUpstream
<1>4. CASE UNCHANGED up
  BY <1>1, <1>4, UpKept DEF up
<1>. QED  BY <1>2, <1>3, <1>4

\* The service takes a POST that goes on from what has arrived.
LEMMA PostUpstream ==
    ASSUME TypeOK, Upstream, NEW p \in Post, Chain(Arrived, p.frames),
           PostRendered(p), latePosts' \subseteq latePosts,
           UNCHANGED <<rs, sendQueue, packetCount, posted, taken>>,
           post' = post \/ (post' = "answered" /\ p = posted /\ rs # "LEFT")
    PROVE  Upstream'
<1>1. p.frames \in Seq(Upward)
  BY PostType
<1>2. toParse' = Append(toParse, p.frames)
  BY DEF PostRendered
<1>3. UpstreamInOrder' /\ Waiting' /\ Arrived' = Arrived \cup IdsOf(p.frames)
  BY <1>1, <1>2, BodyArrives
<1>4. OnTheWay' /\ (Queued => Queued')
  BY <1>3, MoreArrived
<1>. QED  BY <1>3, <1>4 DEF Upstream

\* parseData changes nothing else of what is sent up.
LEMMA ParseUpstream ==
    ASSUME TypeOK, Upstream, ParseData
    PROVE  Upstream'
<1>1. UpstreamInOrder' /\ Waiting' /\ Arrived' = Arrived
  BY BodyTaken
<1>2. UNCHANGED <<rs, latePosts, sendQueue, packetCount, post, posted>>
  BY DEF ParseData, page, up, network
<1>3. OnTheWay' /\ (Queued => Queued')
  BY <1>1, <1>2, MoreArrived
<1>. QED  BY <1>1, <1>2, <1>3 DEF Upstream

\* What was answered leaves the queue, and the rest is posted.
LEMMA AnsweredUpstream ==
    ASSUME TypeOK, TypeOK', Upstream, PostAnswered
    PROVE  Upstream'
<1>. DEFINE n    == Len(posted.frames)
            rest == Drop(sendQueue, n)
<1>1. UpstreamInOrder' /\ Waiting' /\ Arrived' = Arrived
  BY ArrivedKept DEF PostAnswered
<1>2. /\ sendQueue \in Seq(Upward) /\ packetCount \in Nat
      /\ posted.frames \in Seq(Upward) /\ Len(sendQueue) \in Nat
      /\ n \in Nat /\ DOMAIN posted.frames = 1 .. n
      /\ DOMAIN sendQueue = 1 .. Len(sendQueue)
  BY UpTypes
<1>3. post = "answered" /\ rs # "LEFT"
  BY DEF PostAnswered, Upstream
<1>4. Ending /\ Prefix /\ IdsOf(posted.frames) \subseteq Arrived
  BY <1>3 DEF Upstream, Queued, OnTheWay
<1>5. n <= Len(sendQueue)
  BY <1>4 DEF Prefix
<1>6. /\ rest \in Seq(Upward) /\ Len(rest) = Len(sendQueue) - n
      /\ \A i \in 1 .. Len(sendQueue) - n : rest[i] = sendQueue[n + i]
  BY <1>2, <1>5, DropFacts
<1>7. /\ sendQueue' = rest /\ packetCount' = packetCount /\ rs' = rs
      /\ latePosts' = latePosts
      /\ \/ post' = "idle" /\ posted' = NoPost
         \/ post' = "sent" /\ posted' = [ack |-> lastPacketId, frames |-> rest]
  BY DEF PostAnswered, page, network
<1>. HIDE DEF n, rest
<1>8. Ending'
  <2>1. Len(rest) <= packetCount /\ Len(rest) \in Nat
    BY <1>2, <1>4, <1>5, <1>6 DEF Ending
  <2>2. ASSUME NEW i \in 1 .. Len(rest)
        PROVE  rest[i].id = packetCount - Len(rest) + i
    <3>1. n + i \in 1 .. Len(sendQueue)
      BY <1>2, <1>6, <2>1
    <3>2. sendQueue[n + i].id = packetCount - Len(sendQueue) + (n + i)
      BY <1>2, <1>4, <3>1 DEF Ending
    <3>3. rest[i] = sendQueue[n + i]
      BY <1>6
    <3>. QED  BY <1>2, <1>6, <3>2, <3>3
  <2>3. ASSUME NEW id \in 1 .. packetCount - Len(rest) PROVE id \in Arrived
    <3>1. CASE id <= packetCount - Len(sendQueue)
      BY <1>2, <1>4, <3>1 DEF Ending
    <3>2. CASE id > packetCount - Len(sendQueue)
      <4>1. PICK i \in 1 .. n : id = packetCount - Len(sendQueue) + i
        <5>1. /\ id - (packetCount - Len(sendQueue)) \in 1 .. n
              /\ id = packetCount - Len(sendQueue)
                          + (id - (packetCount - Len(sendQueue)))
          BY <1>2, <1>4, <1>6, <3>2 DEF Ending
        <5>. QED  BY <5>1
      <4>2. i \in 1 .. Len(sendQueue) /\ posted.frames[i] = sendQueue[i]
        BY <1>2, <1>4, <1>5 DEF Prefix
      <4>3. posted.frames[i].id = id
        BY <1>2, <1>4, <4>1, <4>2 DEF Ending
      <4>. QED  BY <1>2, <1>4, <4>3 DEF IdsOf
    <3>. QED  BY <1>2, <1>4, <3>1, <3>2 DEF Ending
  <2>4. DOMAIN rest = 1 .. Len(rest)
    BY <1>6
  <2>. QED  BY <1>1, <1>7, <2>1, <2>2, <2>3, <2>4 DEF Ending
<1>9. CASE post' = "idle" /\ posted' = NoPost
  <2>1. posted'.frames = <<>>
    BY <1>9 DEF NoPost
  <2>2. Prefix'
    <3>1. sendQueue' \in Seq(Upward)
      BY UpTypes, <1>6, <1>7
    <3>. QED  BY <2>1, <3>1 DEF Prefix
  <2>3. Chain(Arrived', posted'.frames)
    BY <2>1, ChainNone
  <2>4. OnTheWay'
    BY <1>1, <1>7, <1>9, <2>3 DEF Upstream, OnTheWay
  <2>. QED  BY <1>1, <1>3, <1>7, <1>8, <2>2, <2>4 DEF Upstream, Queued
<1>10. CASE post' = "sent" /\ posted' = [ack |-> lastPacketId, frames |-> rest]
  <2>1. posted'.frames = sendQueue'
    BY <1>7, <1>10
  <2>2. Queued' /\ Chain(Arrived', posted'.frames)
    BY <1>8, <2>1, QueuePosted
  <2>3. OnTheWay'
    BY <1>1, <1>7, <1>10, <2>2 DEF Upstream, OnTheWay
  <2>. QED  BY <1>1, <1>3, <1>7, <2>2, <2>3 DEF Upstream
<1>. QED  BY <1>7, <1>9, <1>10

\* A POST that failed is sent again with all that is queued, or given up.
LEMMA RetryUpstream ==
    ASSUME TypeOK, TypeOK', Upstream, Retry
    PROVE  Upstream'
<1>1. UpstreamInOrder' /\ Waiting' /\ Arrived' = Arrived
  BY ArrivedKept DEF Retry
<1>2. rs # "LEFT" /\ Ending /\ Prefix
  BY DEF Retry, Upstream, Queued
<1>3. /\ UNCHANGED <<sendQueue, packetCount, latePosts>>
      /\ \/ post' = "idle" /\ posted' = NoPost /\ DoClose("CLOSED")
         \/ /\ post' = "sent" /\ rs' = rs
            /\ posted' = [ack |-> lastPacketId, frames |-> sendQueue]
  BY DEF Retry, page
<1>4. rs' # "LEFT"
  BY <1>2, <1>3 DEF DoClose
<1>5. Ending'
  BY <1>1, <1>2, <1>3 DEF Ending
<1>6. CASE post' = "idle" /\ posted' = NoPost
  <2>1. posted'.frames = <<>>
    BY <1>6 DEF NoPost
  <2>2. Prefix'
    <3>1. sendQueue' \in Seq(Upward)
      BY UpTypes, <1>3
    <3>. QED  BY <2>1, <3>1 DEF Prefix
  <2>3. Chain(Arrived', posted'.frames)
    BY <2>1, ChainNone
  <2>4. OnTheWay'
    BY <1>1, <1>3, <1>6, <2>3 DEF Upstream, OnTheWay
  <2>. QED  BY <1>1, <1>4, <1>5, <2>2, <2>4 DEF Upstream, Queued
<1>7. CASE post' = "sent" /\ posted' = [ack |-> lastPacketId, frames |-> sendQueue]
  <2>1. posted'.frames = sendQueue'
    BY <1>3, <1>7
  <2>2. Queued' /\ Chain(Arrived', posted'.frames)
    BY <1>5, <2>1, QueuePosted
  <2>3. OnTheWay'
    BY <1>1, <1>3, <1>7, <2>2 DEF Upstream, OnTheWay
  <2>. QED  BY <1>1, <1>4, <2>2, <2>3 DEF Upstream
<1>. QED  BY <1>3, <1>6, <1>7

\* A POST that is given up may still arrive.
LEMMA FailsUpstream ==
    ASSUME TypeOK, Upstream, PostFails
    PROVE  Upstream'
<1>1. UpstreamInOrder' /\ Waiting' /\ Arrived' = Arrived
  BY ArrivedKept DEF PostFails
<1>2. /\ UNCHANGED <<sendQueue, packetCount, posted>> /\ rs' = rs
      /\ post # "idle" /\ post' \in {"stuck", "waiting"}
      /\ latePosts' \in {latePosts, latePosts \cup {posted}}
  BY DEF PostFails, page
<1>3. rs # "LEFT"
  BY <1>2 DEF Upstream
<1>4. OnTheWay'
  BY <1>1, <1>2 DEF Upstream, OnTheWay
<1>5. Queued'
  BY <1>1, <1>2, <1>3 DEF Upstream, Queued, Ending, Prefix
<1>. QED  BY <1>1, <1>2, <1>3, <1>4, <1>5 DEF Upstream

\* A page that goes away leaves its POST behind.
LEMMA LeavesUpstream ==
    ASSUME TypeOK, Upstream, PageLeaves
    PROVE  Upstream'
<1>1. UpstreamInOrder' /\ Waiting' /\ Arrived' = Arrived
  BY ArrivedKept DEF PageLeaves
<1>2. /\ rs' = "LEFT" /\ post' = "idle" /\ posted' = NoPost
      /\ latePosts' \in {latePosts, latePosts \cup {posted}}
  BY DEF PageLeaves, DoClose
<1>3. posted'.frames = <<>>
  BY <1>2 DEF NoPost
<1>4. Chain(Arrived', posted'.frames)
  BY <1>3, ChainNone
<1>5. OnTheWay'
  BY <1>1, <1>2, <1>4 DEF Upstream, OnTheWay
<1>. QED  BY <1>1, <1>2, <1>5 DEF Upstream

LEMMA UpstreamInit == Init => Upstream
<1>. SUFFICES ASSUME Init PROVE Upstream
  OBVIOUS
<1>1. /\ taken = <<>> /\ toParse = <<>> /\ sendQueue = <<>> /\ packetCount = 0
      /\ posted.frames = <<>> /\ latePosts = {} /\ rs = "INITIALIZED"
      /\ post = "idle"
  BY DEF Init, NoPost
<1>2. UpstreamInOrder /\ Waiting
  BY <1>1 DEF UpstreamInOrder, Waiting
<1>3. OnTheWay
  BY <1>1, ChainNone DEF OnTheWay
<1>4. Queued
  BY <1>1 DEF Queued, Ending, Prefix
<1>. QED  BY <1>1, <1>2, <1>3, <1>4 DEF Upstream

LEMMA UpstreamStep ==
    ASSUME TypeOK, TypeOK', Control, Upstream, [Next]_vars
    PROVE  Upstream'
<1>1. ASSUME Create PROVE Upstream'
  BY <1>1, UpKept DEF Create, page, network, Control
<1>2. ASSUME Write PROVE Upstream'
  BY <1>2, UpKept DEF Write, page, up, network
<1>3. ASSUME LoseConnection PROVE Upstream'
  BY <1>3, UpKept DEF LoseConnection, page, up, network
<1>4. ASSUME GetArrives PROVE Upstream'
  <2>1. UNCHANGED <<page, up, network, taken, toParse>>
    BY <1>4 DEF GetArrives, TransportOpened
  <2>. QED  BY <2>1, UpKept DEF page, up, network
<1>5. ASSUME LateGetArrives PROVE Upstream'
  <2>1. UNCHANGED <<page, up, latePosts, taken, toParse>>
    BY <1>5 DEF LateGetArrives, TransportOpened
  <2>. QED  BY <2>1, UpKept DEF page, up
<1>6. ASSUME EmptyAnswer PROVE Upstream'
  BY <1>6, UpKept DEF EmptyAnswer, page, up, network
<1>7. ASSUME ConnectionAborted PROVE Upstream'
  BY <1>7, UpKept DEF ConnectionAborted, page, up, network
<1>8. ASSUME SendPing PROVE Upstream'
  BY <1>8, UpKept DEF SendPing, page, up, network
<1>9. ASSUME Timeout PROVE Upstream'
  BY <1>9, UpKept DEF Timeout, page, up, network
<1>10. ASSUME PostArrives PROVE Upstream'
  <2>1. /\ post = "sent" /\ UNCHANGED <<page, network, taken>>
        /\ UNCHANGED <<sendQueue, packetCount, posted>>
    BY <1>10 DEF PostArrives
  <2>2. rs # "LEFT"
    BY <2>1 DEF Upstream
  <2>3. CASE conn = "live"
    <3>1. PostRendered(posted) /\ post' = "answered"
      BY <1>10, <2>3 DEF PostArrives
    <3>2. posted \in Post /\ Chain(Arrived, posted.frames)
      BY UpTypes DEF Upstream, OnTheWay
    <3>. QED  BY <2>1, <2>2, <3>1, <3>2, PostUpstream DEF page, network
  <2>4. CASE conn # "live"
    <3>1. post' = "refused" /\ toParse' = toParse
      BY <1>10, <2>4 DEF PostArrives
    <3>. QED  BY <2>1, <2>2, <3>1, UpKept DEF page, network
  <2>. QED  BY <2>3, <2>4
<1>11. ASSUME LatePostArrives PROVE Upstream'
  <2>1. PICK p \in latePosts :
            /\ latePosts' = latePosts \ {p}
            /\ IF conn = "live" THEN PostRendered(p) ELSE toParse' = toParse
    BY <1>11 DEF LatePostArrives
  <2>2. UNCHANGED <<page, up, taken>>
    BY <1>11 DEF LatePostArrives
  <2>3. CASE conn = "live"
    <3>1. p \in Post /\ Chain(Arrived, p.frames)
      BY UpTypes DEF Upstream, OnTheWay
    <3>. QED  BY <2>1, <2>2, <2>3, <3>1, PostUpstream DEF page, up
  <2>4. CASE conn # "live"
    <3>1. UpstreamInOrder' /\ Waiting' /\ Arrived' = Arrived
      BY <2>1, <2>2, <2>4, ArrivedKept
    <3>2. OnTheWay' /\ (Queued => Queued')
      BY <2>1, <2>2, <3>1, MoreArrived DEF up
    <3>. QED  BY <2>2, <3>1, <3>2 DEF Upstream, page, up
  <2>. QED  BY <2>3, <2>4
<1>12. ASSUME ParseData PROVE Upstream'
  BY <1>12, ParseUpstream
<1>13. ASSUME OpenSession PROVE Upstream'
  BY <1>13, UpKept DEF OpenSession, network
<1>14. ASSUME KeyAnswered PROVE Upstream'
  BY <1>14, UpKept DEF KeyAnswered, network, Control
<1>15. ASSUME KeyFails PROVE Upstream'
  BY <1>15, UpKept DEF KeyFails, Control
<1>16. ASSUME Send PROVE Upstream'
  BY <1>16, PushUpstream DEF Send, page, network
<1>17. ASSUME Close PROVE Upstream'
  BY <1>17, PushUpstream DEF Close, network
<1>18. ASSUME TimedOut PROVE Upstream'
  BY <1>18, UpKept DEF TimedOut, DoClose, Ongoing, up
<1>19. ASSUME PageLeaves PROVE Upstream'
  BY <1>19, LeavesUpstream
<1>20. ASSUME GetOpens PROVE Upstream'
  BY <1>20, UpKept DEF GetOpens, page, up, network
<1>21. ASSUME ReadAnswer PROVE Upstream'
  <2>1. rs # "LEFT" /\ ReadFrames(body) /\ UNCHANGED <<toParse, taken, latePosts>>
    BY <1>21 DEF ReadAnswer, Control, network
  <2>. QED  BY <2>1, ReadUpstream
<1>22. ASSUME ReadFrame PROVE Upstream'
  <2>1. /\ rs # "LEFT" /\ ReadFrames(<<Head(body)>>)
        /\ UNCHANGED <<toParse, taken, latePosts>>
    BY <1>22 DEF ReadFrame, Control
  <2>. QED  BY <2>1, ReadUpstream
<1>23. ASSUME MissFrame PROVE Upstream'
  BY <1>23, UpKept DEF MissFrame, page, up, network
<1>24. ASSUME ReadPart PROVE Upstream'
  BY <1>24, UpKept DEF ReadPart, page, up, network
<1>25. ASSUME ReadEnd PROVE Upstream'
  BY <1>25, UpKept DEF ReadEnd, page, up, network
<1>26. ASSUME GetFails PROVE Upstream'
  <2>1. /\ rs # "LEFT" /\ rs' # "LEFT"
        /\ UNCHANGED <<toParse, up, latePosts, taken>>
    BY <1>26 DEF GetFails, DoClose, page, Control
  <2>. QED  BY <2>1, UpKept DEF up
<1>27. ASSUME GetMissing PROVE Upstream'
  <2>1. /\ rs # "LEFT" /\ rs' # "LEFT"
        /\ UNCHANGED <<toParse, up, latePosts, taken>>
    BY <1>27 DEF GetMissing, DoClose, Control
  <2>. QED  BY <2>1, UpKept DEF up
<1>28. ASSUME PostAnswered PROVE Upstream'
  BY <1>28, AnsweredUpstream
<1>29. ASSUME PostFails PROVE Upstream'
  BY <1>29, FailsUpstream
<1>30. ASSUME Retry PROVE Upstream'
  BY <1>30, RetryUpstream
<1>31. ASSUME UNCHANGED vars PROVE Upstream'
  BY <1>31, UpKept DEF vars, page, up, network
<1>. QED  BY <1>1, <1>2, <1>3, <1>4, <1>5, <1>6, <1>7, <1>8, <1>9, <1>10, <1>11,
     <1>12, <1>13, <1>14, <1>15, <1>16, <1>17, <1>18, <1>19, <1>20, <1>21, <1>22,
     <1>23, <1>24, <1>25, <1>26, <1>27, <1>28, <1>29, <1>30, <1>31 DEF Next,
     Service, Page

-----------------------------------------------------------------------------
(* The theorems *)

\* Upstream holds in every state.
THEOREM UpstreamInvariance == Spec => []Upstream
<1>1. Init => Upstream
  BY UpstreamInit
<1>2. IInv /\ IInv' /\ Upstream /\ [Next]_vars => Upstream'
  BY UpstreamStep DEF IInv
<1>. QED  BY <1>1, <1>2, Invariance, PTL DEF Spec

\* parseData takes the page's frames without a gap, although POSTs are lost,
\* sent again with more, and arrive late.
THEOREM FramesTakenInOrder == Spec => []UpstreamInOrder
<1>1. Upstream => UpstreamInOrder
  BY DEF Upstream
<1>. QED  BY <1>1, UpstreamInvariance, PTL

\* A frame leaves the sendQueue only when it has reached the service.
THEOREM QueueLeavesLast == Spec => []AcknowledgedTaken
<1>1. TypeOK /\ Upstream => AcknowledgedTaken
  <2>1. SUFFICES ASSUME TypeOK, Upstream, rs # "LEFT",
                        NEW id \in 1 .. packetCount - Len(sendQueue)
                 PROVE  \/ \E i \in DOMAIN taken : taken[i] = id
                        \/ \E i \in DOMAIN toParse :
                               \E j \in DOMAIN toParse[i] : toParse[i][j].id = id
    BY DEF AcknowledgedTaken
  <2>2. id \in Arrived
    BY <2>1 DEF Upstream, Queued, Ending
  <2>3. /\ toParse \in Seq(Seq(Upward)) /\ Len(toParse) \in Nat
        /\ DOMAIN toParse = 1 .. Len(toParse)
        /\ (Len(toParse) + 1) - 1 = Len(toParse)
    BY <2>1, UpTypes
  <2>4. id \in Range(taken) \/ \E i \in 1 .. Len(toParse) : id \in IdsOf(toParse[i])
    BY <2>2, <2>3 DEF Arrived, Before
  <2>. QED  BY <2>3, <2>4 DEF Range, IdsOf
<1>. QED  BY <1>1, TypeCorrect, UpstreamInvariance, PTL

=============================================================================
