----------------------- MODULE CometSessionProofs -----------------------
(***************************************************************************)
(* Proofs about CometSession: types, the window of unacknowledged packets,  *)
(* that nothing unread is forgotten, and that a session implements          *)
(* ReliableStream, for every set of data and every bound.                   *)
(***************************************************************************)
EXTENDS CometSession, SequenceTheorems, TLAPS

-----------------------------------------------------------------------------
(* The inductive invariant *)

\* What the states of the two ends say of one another.
Control ==
    /\ get # "none" => ct = "open"
    /\ ct = "open" => rs \in {"OPENING", "OPEN", "CLOSING"}
    /\ post \in {"key", "keyback"} => rs = "OPENING" /\ ct = "none"
    /\ post = "key" => conn = "none"
    /\ rs = "INITIALIZED" => post = "idle" /\ ct = "none" /\ conn = "none"
    /\ conn = "none" => log = <<>>
    /\ cur # "none" \/ timer # "none" => conn = "live"
    /\ cur = "page" <=> get = "held"
    /\ get \notin {"held", "done"} => body = <<>>

\* The packets from a + 1 to p under their ids, for a log l.
Window(a, p, l) == [i \in 1 .. p - a |-> [id |-> a + i, what |-> l[a + i]]]

\* AckWindow with what it needs.
Queues ==
    /\ packetId <= Len(log)
    /\ unackQueue = Window(lastAckId, packetId, log)
    /\ msgQueue = Drop(log, packetId)
    /\ cur # "none" => msgQueue = <<>>

\* NothingUnreadForgotten, in an order that lets SMT use it.
Acks ==
    /\ lastAckId <= ackId
    /\ ackId <= packetId
    /\ lastPacketId = ackId
    /\ \A a \in late : a <= ackId
    /\ \A p \in latePosts : p.ack <= ackId
    /\ posted.ack <= ackId

\* How far the id of a frame is from that of the frame before it.
Step(f) == IF f.what = "open" THEN 0 ELSE 1

\* The body holds packets that were sent, under their ids.
BodySent ==
    \A i \in DOMAIN body :
        /\ body[i].id <= packetId
        /\ body[i].what # "open" =>
                body[i].id \in 1 .. Len(log) /\ body[i].what = log[body[i].id]

\* The body of a stream goes on from what was read, one packet after the
\* other, up to the last one while it is held.
StreamBody ==
    transport = "xhrstream" =>
        /\ \A i \in 2 .. Len(body) : body[i].id = body[i - 1].id + Step(body[i])
        /\ body # <<>> =>
            /\ body[1].id >= ackId
            /\ ~torn => body[1].id = ackId + Step(body[1])
        /\ get = "held" =>
            /\ body # <<>> => body[Len(body)].id = packetId
            /\ body = <<>> /\ ~torn => ackId = packetId

\* An answer to a long poll holds all there was, and then 'open' perhaps.
PollBody ==
    transport = "longpoll" =>
        /\ ~torn /\ ~part
        /\ \A i \in DOMAIN body :
            /\ body[i].id = ackId + i - 1 + Step(body[i])
            /\ body[i].what = "open" => i = Len(body)
        /\ get = "held" => body = <<>> /\ ackId = packetId

Body == BodySent /\ StreamBody /\ PollBody

\* The page has read the packets up to ackId.
GotRead == ~torn => got = SubSeq(log, 1, ackId)

IInv == TypeOK /\ Control /\ Queues /\ Acks /\ Body /\ GotRead

-----------------------------------------------------------------------------
(* Sequences *)

\* The elements of a sequence without its first n.
LEMMA DropFacts ==
    ASSUME NEW S, NEW s \in Seq(S), NEW n \in Nat, n <= Len(s)
    PROVE  /\ Drop(s, n) \in Seq(S)
           /\ Len(Drop(s, n)) = Len(s) - n
           /\ \A i \in 1 .. Len(s) - n : Drop(s, n)[i] = s[n + i]
BY DEF Drop

LEMMA DropAppend ==
    ASSUME NEW S, NEW s \in Seq(S), NEW n \in Nat, n <= Len(s), NEW x \in S
    PROVE  Drop(Append(s, x), n) = Append(Drop(s, n), x)
<1>. DEFINE t == Append(s, x)
            d == Drop(s, n)
            u == Append(d, x)
            v == Drop(t, n)
<1>1. /\ t \in Seq(S) /\ Len(t) = Len(s) + 1
      /\ t[Len(s) + 1] = x
      /\ \A i \in 1 .. Len(s) : t[i] = s[i]
  OBVIOUS
<1>2. /\ d \in Seq(S)
      /\ Len(d) = Len(s) - n
      /\ \A i \in 1 .. Len(s) - n : d[i] = s[n + i]
  BY DropFacts
<1>. HIDE DEF t, d
<1>3. /\ u \in Seq(S) /\ Len(u) = Len(s) + 1 - n
      /\ u[Len(s) + 1 - n] = x
      /\ \A i \in 1 .. Len(s) - n : u[i] = d[i]
  BY <1>2
<1>4. /\ v \in Seq(S) /\ Len(v) = Len(s) + 1 - n
      /\ \A i \in 1 .. Len(s) + 1 - n : v[i] = t[n + i]
  <2>1. t \in Seq(S)
    BY <1>1
  <2>0. n <= Len(t)
    BY <1>1
  <2>2. /\ v \in Seq(S) /\ Len(v) = Len(t) - n
        /\ \A i \in 1 .. Len(t) - n : v[i] = t[n + i]
    BY <2>0, <2>1, DropFacts
  <2>. HIDE DEF v
  <2>. QED  BY <1>1, <2>2
<1>. HIDE DEF u, v
<1>5. ASSUME NEW i \in 1 .. Len(s) + 1 - n
      PROVE  v[i] = u[i]
  <2>1. CASE i = Len(s) + 1 - n
    BY <1>1, <1>3, <1>4, <2>1
  <2>2. CASE i < Len(s) + 1 - n
    <3>1. i \in 1 .. Len(s) - n /\ n + i \in 1 .. Len(s)
      BY <2>2
    <3>. QED  BY <1>1, <1>2, <1>3, <1>4, <3>1
  <2>. QED  BY <2>1, <2>2
<1>6. v = u
  BY <1>3, <1>4, <1>5, SeqEqual
<1>. QED  BY <1>6 DEF t, d, u, v

\* What a window holds.
LEMMA WindowFacts ==
    ASSUME NEW S, NEW l \in Seq(S),
           NEW a \in Nat, NEW p \in Nat, a <= p, p <= Len(l)
    PROVE  /\ Window(a, p, l) \in Seq([id : Nat, what : S])
           /\ Len(Window(a, p, l)) = p - a
           /\ \A i \in 1 .. p - a :
                Window(a, p, l)[i] = [id |-> a + i, what |-> l[a + i]]
<1>1. \A i \in 1 .. p - a : [id |-> a + i, what |-> l[a + i]] \in [id : Nat, what : S]
  BY ElementOfSeq
<1>2. p - a \in Nat
  OBVIOUS
<1>. QED  BY <1>1, <1>2 DEF Window

\* A window does not see what is appended after it.
LEMMA WindowKept ==
    ASSUME NEW S, NEW l \in Seq(S), NEW x \in S,
           NEW a \in Nat, NEW p \in Nat, a <= p, p <= Len(l)
    PROVE  Window(a, p, Append(l, x)) = Window(a, p, l)
BY DEF Window

\* A window up to the end grows with the log.
LEMMA WindowNext ==
    ASSUME NEW S, NEW l \in Seq(S), NEW x \in S, NEW a \in Nat, a <= Len(l)
    PROVE  Append(Window(a, Len(l), l), [id |-> Len(l) + 1, what |-> x])
                = Window(a, Len(l) + 1, Append(l, x))
<1>. DEFINE T == [id : Nat, what : S]
            w == Window(a, Len(l), l)
            k == Append(l, x)
            v == Window(a, Len(l) + 1, k)
            f == [id |-> Len(l) + 1, what |-> x]
<1>0. /\ Len(l) \in Nat /\ Len(l) <= Len(l)
      /\ Len(l) + 1 \in Nat /\ a <= Len(l) + 1
  OBVIOUS
<1>1. /\ k \in Seq(S) /\ Len(k) = Len(l) + 1
      /\ k[Len(l) + 1] = x
      /\ \A i \in 1 .. Len(l) : k[i] = l[i]
      /\ Len(l) + 1 <= Len(k)
  OBVIOUS
<1>2. k \in Seq(S) /\ Len(l) + 1 <= Len(k)
  BY <1>1
<1>. HIDE DEF k
<1>3. /\ w \in Seq(T) /\ Len(w) = Len(l) - a
      /\ \A i \in 1 .. Len(l) - a : w[i] = [id |-> a + i, what |-> l[a + i]]
  BY <1>0, WindowFacts
<1>4. /\ v \in Seq(T) /\ Len(v) = Len(l) + 1 - a
      /\ \A i \in 1 .. Len(l) + 1 - a :
            v[i] = [id |-> a + i, what |-> k[a + i]]
  <2>. DEFINE p == Len(l) + 1
  <2>1. p \in Nat /\ a <= p /\ p <= Len(k) /\ k \in Seq(S)
    BY <1>0, <1>2
  <2>. HIDE DEF p
  <2>2. /\ Window(a, p, k) \in Seq([id : Nat, what : S])
        /\ Len(Window(a, p, k)) = p - a
        /\ \A i \in 1 .. p - a : Window(a, p, k)[i] = [id |-> a + i, what |-> k[a + i]]
    BY <2>1, WindowFacts
  <2>. QED  BY <2>2 DEF p
<1>5. f \in T
  OBVIOUS
<1>. DEFINE g == Append(w, f)
<1>. HIDE DEF w, v, T, f
<1>6. /\ g \in Seq(T) /\ Len(g) = Len(l) + 1 - a
      /\ g[Len(l) + 1 - a] = f
      /\ \A i \in 1 .. Len(l) - a : g[i] = w[i]
  BY <1>0, <1>3, <1>5
<1>. HIDE DEF g
<1>7. ASSUME NEW i \in 1 .. Len(l) + 1 - a
      PROVE  g[i] = v[i]
  <2>1. CASE i = Len(l) + 1 - a
    <3>1. a + i = Len(l) + 1
      BY <1>0, <2>1
    <3>2. v[i] = [id |-> Len(l) + 1, what |-> x]
      BY <1>1, <1>4, <3>1
    <3>. QED  BY <1>6, <2>1, <3>2 DEF f
  <2>2. CASE i < Len(l) + 1 - a
    <3>1. i \in 1 .. Len(l) - a /\ a + i \in 1 .. Len(l)
      BY <1>0, <2>2
    <3>. QED  BY <1>1, <1>3, <1>4, <1>6, <3>1
  <2>. QED  BY <1>0, <2>1, <2>2
<1>8. g = v
  BY <1>4, <1>6, <1>7, SeqEqual
<1>. QED  BY <1>8 DEF g, w, v, k, f, T

\* Acknowledging moves the start of a window.
LEMMA WindowDrop ==
    ASSUME NEW S, NEW l \in Seq(S), NEW a \in Nat, NEW b \in Nat, NEW p \in Nat,
           a <= b, b <= p, p <= Len(l)
    PROVE  Drop(Window(a, p, l), b - a) = Window(b, p, l)
<1>. DEFINE T == [id : Nat, what : S]
            w == Window(a, p, l)
            v == Window(b, p, l)
<1>1. a <= p
  OBVIOUS
<1>2. /\ w \in Seq(T) /\ Len(w) = p - a
      /\ \A i \in 1 .. p - a : w[i] = [id |-> a + i, what |-> l[a + i]]
  BY <1>1, WindowFacts
<1>3. /\ v \in Seq(T) /\ Len(v) = p - b
      /\ \A i \in 1 .. p - b : v[i] = [id |-> b + i, what |-> l[b + i]]
  BY WindowFacts
<1>. HIDE DEF w, v, T
<1>0. b - a \in Nat /\ b - a <= Len(w)
  BY <1>2
<1>9. w \in Seq(T)
  BY <1>2
<1>4. /\ Drop(w, b - a) \in Seq(T) /\ Len(Drop(w, b - a)) = Len(w) - (b - a)
      /\ \A i \in 1 .. Len(w) - (b - a) : Drop(w, b - a)[i] = w[b - a + i]
  BY <1>0, <1>9, DropFacts
<1>. HIDE DEF Drop
<1>5. ASSUME NEW i \in 1 .. p - b
      PROVE  Drop(w, b - a)[i] = v[i]
  <2>1. /\ b - a + i \in 1 .. p - a /\ a + (b - a + i) = b + i
        /\ i \in 1 .. Len(w) - (b - a)
    BY <1>2
  <2>. QED  BY <1>2, <1>3, <1>4, <2>1
<1>6. /\ Drop(w, b - a) \in Seq(T) /\ v \in Seq(T)
      /\ Len(Drop(w, b - a)) = Len(v)
      /\ \A i \in 1 .. Len(Drop(w, b - a)) : Drop(w, b - a)[i] = v[i]
  <2>1. Len(Drop(w, b - a)) = p - b
    <3>1. Len(Drop(w, b - a)) = (p - a) - (b - a)
      BY <1>2, <1>4
    <3>. QED  BY <3>1
  <2>2. \A i \in 1 .. Len(Drop(w, b - a)) : Drop(w, b - a)[i] = v[i]
    BY <1>5, <2>1
  <2>. QED  BY <1>3, <1>4, <2>1, <2>2
<1>7. Drop(w, b - a) = v
  BY <1>6, SeqEqual
<1>. QED  BY <1>7 DEF w, v

\* What waited in msgQueue, numbered, continues the window up to the end.
LEMMA WindowJoin ==
    ASSUME NEW S, NEW l \in Seq(S), NEW a \in Nat, NEW p \in Nat,
           a <= p, p <= Len(l)
    PROVE  Window(a, p, l) \o [i \in 1 .. Len(Drop(l, p)) |->
                                  [id |-> p + i, what |-> Drop(l, p)[i]]]
                = Window(a, Len(l), l)
<1>. DEFINE T == [id : Nat, what : S]
            w == Window(a, p, l)
            v == Window(a, Len(l), l)
            n == Window(p, Len(l), l)
<1>0. Len(l) \in Nat /\ Len(l) <= Len(l) /\ a <= Len(l)
  OBVIOUS
<1>1. [i \in 1 .. Len(Drop(l, p)) |-> [id |-> p + i, what |-> Drop(l, p)[i]]] = n
  BY DropFacts DEF Window
<1>2. /\ w \in Seq(T) /\ Len(w) = p - a
      /\ \A i \in 1 .. p - a : w[i] = [id |-> a + i, what |-> l[a + i]]
  BY <1>0, WindowFacts
<1>3. /\ v \in Seq(T) /\ Len(v) = Len(l) - a
      /\ \A i \in 1 .. Len(l) - a : v[i] = [id |-> a + i, what |-> l[a + i]]
  BY <1>0, WindowFacts
<1>4. /\ n \in Seq(T) /\ Len(n) = Len(l) - p
      /\ \A i \in 1 .. Len(l) - p : n[i] = [id |-> p + i, what |-> l[p + i]]
  BY <1>0, WindowFacts
<1>. HIDE DEF w, v, n, T
<1>5. /\ w \o n \in Seq(T) /\ Len(w \o n) = Len(l) - a
      /\ \A i \in 1 .. Len(l) - a :
            (w \o n)[i] = IF i <= p - a THEN w[i] ELSE n[i - (p - a)]
  <2>1. (p - a) + (Len(l) - p) = Len(l) - a
    BY <1>0
  <2>2. w \in Seq(T) /\ n \in Seq(T)
    BY <1>2, <1>4
  <2>3. /\ w \o n \in Seq(T) /\ Len(w \o n) = Len(w) + Len(n)
        /\ \A i \in 1 .. Len(w) + Len(n) :
              (w \o n)[i] = IF i <= Len(w) THEN w[i] ELSE n[i - Len(w)]
    BY <2>2, ConcatProperties
  <2>4. Len(w) = p - a /\ Len(w) + Len(n) = Len(l) - a
    BY <1>2, <1>4, <2>1
  <2>. HIDE DEF Drop
  <2>. QED  BY <2>3, <2>4
<1>6. ASSUME NEW i \in 1 .. Len(l) - a
      PROVE  (w \o n)[i] = v[i]
  <2>1. CASE i <= p - a
    <3>1. i \in 1 .. p - a
      BY <2>1
    <3>. QED  BY <1>2, <1>3, <1>5, <2>1, <3>1
  <2>2. CASE ~(i <= p - a)
    <3>1. i - (p - a) \in 1 .. Len(l) - p /\ p + (i - (p - a)) = a + i
      BY <2>2
    <3>. QED  BY <1>3, <1>4, <1>5, <2>2, <3>1
  <2>. QED  BY <2>1, <2>2
<1>7. w \o n = v
  BY <1>3, <1>5, <1>6, SeqEqual
<1>. QED  BY <1>1, <1>7 DEF w, v, n

-----------------------------------------------------------------------------
(* Types *)

\* TypeOK in parts.
ServiceTyped ==
    /\ conn \in {"none", "live", "closed"} /\ opened \in BOOLEAN
    /\ timer \in {"none", "ping", "timeout"}
    /\ toParse \in Seq(Seq(Upward))
    /\ taken \in Seq(Nat)

QueuesTyped ==
    /\ msgQueue \in Seq(Packet) /\ unackQueue \in Seq(Frame)
    /\ lastAckId \in Nat /\ packetId \in Nat /\ log \in Seq(Packet)

AnswerTyped ==
    /\ cur \in {"none", "page", "stale"}
    /\ get \in {"none", "sent", "held", "done", "missing"}
    /\ body \in Seq(Frame) /\ part \in BOOLEAN /\ torn \in BOOLEAN

ReadTyped ==
    /\ rs \in {"INITIALIZED", "OPENING", "OPEN", "CLOSING", "CLOSED", "LEFT"}
    /\ ct \in {"none", "open", "closed"}
    /\ ackId \in Nat /\ lastPacketId \in Nat /\ got \in Seq(Packet)

UpTyped ==
    /\ sendQueue \in Seq(Upward) /\ packetCount \in Nat
    /\ post \in {"idle", "key", "keyback", "sent", "answered", "refused",
                 "waiting", "stuck"}
    /\ posted \in Post /\ retries \in Nat

NetworkTyped == late \subseteq Nat /\ latePosts \subseteq Post /\ faults \in Nat

Typed ==
    /\ ServiceTyped /\ QueuesTyped /\ AnswerTyped /\ ReadTyped
    /\ UpTyped /\ NetworkTyped
    /\ transport \in {"longpoll", "xhrstream"}

LEMMA TypeParts == TypeOK => Typed
BY DEF TypeOK, ServiceTyped, QueuesTyped, AnswerTyped, ReadTyped, UpTyped,
       NetworkTyped, Typed

LEMMA TypedNext == Typed' => TypeOK'
BY DEF TypeOK, ServiceTyped, QueuesTyped, AnswerTyped, ReadTyped, UpTyped,
       NetworkTyped, Typed

LEMMA DropType ==
    ASSUME NEW S, NEW s \in Seq(S), NEW n \in Nat
    PROVE  Drop(s, n) \in Seq(S)
<1>1. CASE n <= Len(s)
  BY <1>1, DropFacts
<1>2. CASE ~(n <= Len(s))
  BY <1>2 DEF Drop
<1>. QED  BY <1>1, <1>2

\* An acknowledgement moves lastAckId up, never above packetId.
LEMMA AckedFacts ==
    ASSUME TypeOK, NEW a \in Nat
    PROVE  /\ Acked(a) \in Nat
           /\ lastAckId <= Acked(a)
           /\ Acked(a) - lastAckId \in Nat
           /\ Unacked(a) \in Seq(Frame)
<1>1. /\ Acked(a) \in Nat /\ lastAckId <= Acked(a)
      /\ Acked(a) - lastAckId \in Nat
  BY DEF TypeOK, Acked, Larger, Smaller
<1>2. Unacked(a) \in Seq(Frame)
  BY <1>1, DropType DEF TypeOK, Unacked
<1>. QED  BY <1>1, <1>2

LEMMA WriteToTyped ==
    ASSUME TypeOK, NEW t \in {"page", "stale"}, NEW frames \in Seq(Frame),
           WriteTo(t, frames)
    PROVE  /\ cur' \in {"none", "page", "stale"}
           /\ get' \in {"none", "sent", "held", "done", "missing"}
           /\ body' \in Seq(Frame)
<1>1. PICK ends \in BOOLEAN :
        /\ cur' = IF ends THEN "none" ELSE t
        /\ IF t = "page"
           THEN body' = body \o frames /\ get' = IF ends THEN "done" ELSE "held"
           ELSE UNCHANGED <<body, get>>
  BY DEF WriteTo
<1>2. /\ body \in Seq(Frame) /\ body \o frames \in Seq(Frame)
      /\ get \in {"none", "sent", "held", "done", "missing"}
  BY DEF TypeOK
<1>3. cur' \in {"none", "page", "stale"}
  BY <1>1
<1>4. CASE t = "page"
  BY <1>1, <1>2, <1>3, <1>4
<1>5. CASE t = "stale"
  BY <1>1, <1>2, <1>3, <1>5
<1>. QED  BY <1>4, <1>5

LEMMA SendPacketTyped ==
    ASSUME TypeOK, NEW what \in Packet, SendPacket(what)
    PROVE  QueuesTyped' /\ AnswerTyped'
<1>. DEFINE frame == [id |-> packetId + 1, what |-> what]
<1>1. frame \in Frame /\ <<frame>> \in Seq(Frame)
  BY DEF TypeOK, Frame
<1>2. log' \in Seq(Packet) /\ lastAckId' \in Nat /\ part' \in BOOLEAN /\ torn' \in BOOLEAN
  BY DEF TypeOK, SendPacket
<1>3. CASE cur = "none"
  <2>1. UNCHANGED <<packetId, unackQueue, cur, body, get>>
    BY <1>3 DEF SendPacket
  <2>2. msgQueue' \in Seq(Packet)
    <3>1. msgQueue' = Append(msgQueue, what)
      BY <1>3 DEF SendPacket
    <3>2. msgQueue \in Seq(Packet)
      BY DEF TypeOK
    <3>. QED  BY <3>1, <3>2
  <2>. QED  BY <1>2, <2>1, <2>2, TypeParts DEF Typed, QueuesTyped, AnswerTyped
<1>4. CASE cur # "none"
  <2>1. WriteTo(cur, <<frame>>) /\ cur \in {"page", "stale"}
    BY <1>4 DEF SendPacket, TypeOK
  <2>2. packetId' \in Nat /\ unackQueue' \in Seq(Frame) /\ msgQueue' \in Seq(Packet)
    <3>1. /\ packetId' = packetId + 1
          /\ unackQueue' = Append(unackQueue, frame)
          /\ msgQueue' = msgQueue
      BY <1>4 DEF SendPacket
    <3>2. packetId \in Nat /\ unackQueue \in Seq(Frame) /\ msgQueue \in Seq(Packet)
      BY DEF TypeOK
    <3>. HIDE DEF frame
    <3>. QED  BY <1>1, <3>1, <3>2
  <2>. QED  BY <1>1, <1>2, <2>1, <2>2, WriteToTyped DEF QueuesTyped, AnswerTyped
<1>. QED  BY <1>3, <1>4

LEMMA CloseConnTyped ==
    ASSUME TypeOK, NEW t \in {cur, "none"}, CloseConn(t)
    PROVE  /\ QueuesTyped' /\ AnswerTyped'
           /\ conn' = "closed" /\ timer' = "none"
<1>. DEFINE frame == [id |-> packetId + 1, what |-> "close"]
<1>1. frame \in Frame /\ "close" \in Packet
  BY DEF TypeOK, Frame, Packet
<1>2. QueuesTyped /\ AnswerTyped
  BY TypeParts DEF Typed
<1>3. QueuesTyped'
  <2>1. /\ log' = Append(log, "close") /\ lastAckId' = lastAckId
        /\ \/ /\ msgQueue' = Append(msgQueue, "close")
              /\ packetId' = packetId /\ unackQueue' = unackQueue
           \/ /\ packetId' = packetId + 1
              /\ unackQueue' = Append(unackQueue, frame)
              /\ msgQueue' = msgQueue
    BY DEF CloseConn
  <2>. HIDE DEF frame
  <2>2. CASE msgQueue' = Append(msgQueue, "close") /\ packetId' = packetId /\ unackQueue' = unackQueue
    BY <1>1, <1>2, <2>1, <2>2 DEF QueuesTyped
  <2>3. CASE /\ packetId' = packetId + 1 /\ unackQueue' = Append(unackQueue, frame)
             /\ msgQueue' = msgQueue
    BY <1>1, <1>2, <2>1, <2>3 DEF QueuesTyped
  <2>. QED  BY <2>1, <2>2, <2>3
<1>4. AnswerTyped'
  BY <1>1, <1>2 DEF CloseConn, AnswerTyped
<1>. QED  BY <1>3, <1>4 DEF CloseConn

\* The frames of msgQueue under the ids that they get.
Numbered == [i \in 1 .. Len(msgQueue) |-> [id |-> packetId + i, what |-> msgQueue[i]]]

\* 'open', when it was not written yet, with the id of the last packet.
First == IF opened THEN <<>> ELSE <<[id |-> packetId + Len(msgQueue), what |-> "open"]>>

LEMMA NumberedTyped ==
    ASSUME TypeOK
    PROVE  /\ Numbered \in Seq(Frame) /\ First \in Seq(Frame)
           /\ packetId + Len(msgQueue) \in Nat
<1>1. \A i \in 1 .. Len(msgQueue) : [id |-> packetId + i, what |-> msgQueue[i]] \in Frame
  BY ElementOfSeq DEF TypeOK, Frame
<1>2. Len(msgQueue) \in Nat /\ packetId + Len(msgQueue) \in Nat
  BY DEF TypeOK
<1>3. Numbered \in Seq(Frame)
  BY <1>1, <1>2 DEF Numbered
<1>4. First \in Seq(Frame)
  <2>1. [id |-> packetId + Len(msgQueue), what |-> "open"] \in Frame
    BY <1>2 DEF Frame
  <2>. QED  BY <2>1 DEF First
<1>. QED  BY <1>2, <1>3, <1>4

LEMMA TransportOpenedTyped ==
    ASSUME TypeOK, NEW a \in Nat, NEW whose \in {"page", "stale"},
           TransportOpened(a, whose)
    PROVE  /\ QueuesTyped' /\ AnswerTyped'
           /\ opened' \in BOOLEAN /\ timer' = "ping" /\ conn' = conn
           /\ toParse' = toParse
<1>. DEFINE frames == Unacked(a) \o Numbered \o First
<1>1. frames \in Seq(Frame) /\ Unacked(a) \o Numbered \in Seq(Frame)
  BY AckedFacts, NumberedTyped
<1>2. QueuesTyped'
  <2>1. lastAckId' \in Nat
    BY AckedFacts DEF TransportOpened
  <2>2. packetId' \in Nat
    BY NumberedTyped DEF TransportOpened
  <2>3. unackQueue' \in Seq(Frame)
    BY <1>1 DEF TransportOpened, Numbered
  <2>4. msgQueue' = <<>> /\ log' = log
    BY DEF TransportOpened
  <2>. QED  BY <2>1, <2>2, <2>3, <2>4, TypeParts DEF Typed, QueuesTyped
<1>3. AnswerTyped'
  <2>1. CASE whose = "page"
    <3>1. WriteTo("page", frames)
      BY <2>1 DEF TransportOpened, Numbered, First
    <3>. HIDE DEF frames
    <3>. QED  BY <1>1, <3>1, WriteToTyped DEF AnswerTyped, TransportOpened,
                 TypeOK
  <2>2. CASE whose = "stale"
    BY <2>2 DEF AnswerTyped, TransportOpened, FinishCurrent, TypeOK
  <2>. QED  BY <2>1, <2>2
<1>. QED  BY <1>2, <1>3 DEF TransportOpened

LEMMA PostRenderedTyped ==
    ASSUME TypeOK, NEW p \in Post, PostRendered(p)
    PROVE  /\ QueuesTyped' /\ AnswerTyped'
           /\ timer' = "ping" /\ toParse' \in Seq(Seq(Upward))
           /\ conn' = conn /\ opened' = opened
<1>1. p.ack \in Nat /\ p.frames \in Seq(Upward)
  BY DEF Post
<1>2. lastAckId' \in Nat /\ unackQueue' \in Seq(Frame)
  BY <1>1, AckedFacts DEF PostRendered
<1>3. QueuesTyped'
  BY <1>2, TypeParts DEF Typed, PostRendered, QueuesTyped
<1>4. AnswerTyped'
  BY TypeParts DEF Typed, PostRendered, AnswerTyped, answer
<1>5. toParse' \in Seq(Seq(Upward))
  BY <1>1, TypeParts DEF Typed, PostRendered, ServiceTyped
<1>. QED  BY <1>3, <1>4, <1>5 DEF PostRendered

LEMMA PushTyped ==
    ASSUME TypeOK, NEW name \in {"data", "ping", "close"}, NEW ack \in Nat,
           Push(name, ack)
    PROVE  UpTyped'
<1>. DEFINE frame == [id |-> packetCount + 1, name |-> name]
            queue == Append(sendQueue, frame)
<1>1. frame \in Upward /\ packetCount + 1 \in Nat
  BY DEF TypeOK, Upward
<1>2. queue \in Seq(Upward)
  BY <1>1 DEF TypeOK
<1>3. DoSend(queue, ack) /\ packetCount' = packetCount + 1
  BY DEF Push
<1>. HIDE DEF queue
<1>4. [ack |-> ack, frames |-> queue] \in Post
  BY <1>2 DEF Post
<1>. QED  BY <1>1, <1>2, <1>3, <1>4 DEF DoSend, TypeOK, UpTyped

LEMMA ReadFramesTyped ==
    ASSUME TypeOK, NEW frames \in Seq(Frame), ReadFrames(frames),
           ~torn => \A i \in 1 .. Len(frames) : frames[i].what = "open" => i = Len(frames)
    PROVE  UpTyped' /\ ReadTyped'
<1>. DEFINE named(name) == \E i \in 1 .. Len(frames) : frames[i].what = name
            packets == IF named("open") THEN Len(frames) - 1 ELSE Len(frames)
            last == IF Len(frames) = 0 THEN ackId ELSE frames[Len(frames)].id
            read1 == [i \in 1 .. packets |-> frames[i].what]
<1>1. /\ Len(frames) \in Nat
      /\ \A i \in 1 .. Len(frames) : frames[i] \in Frame
  BY ElementOfSeq
<1>2. last \in Nat /\ Larger(lastPacketId, last) \in Nat
  BY <1>1 DEF TypeOK, Larger, Frame
<1>3. packets \in Nat
  BY <1>1
<1>4. ~torn => read1 \in Seq(Packet)
  <2>1. ASSUME ~torn, NEW i \in 1 .. packets
        PROVE  frames[i].what \in Packet
    BY <1>1, <2>1 DEF Frame
  <2>. HIDE DEF packets
  <2>. QED  BY <1>3, <2>1
<1>5. UpTyped'
  <2>1. CASE transport = "xhrstream" /\ named("ping")
    <3>1. Push("ping", Larger(lastPacketId, last))
      BY <2>1 DEF ReadFrames
    <3>. QED  BY <1>2, <3>1, PushTyped
  <2>2. CASE ~(transport = "xhrstream" /\ named("ping"))
    <3>1. UNCHANGED up
      BY <2>2 DEF ReadFrames
    <3>. QED  BY <3>1 DEF up, UpTyped, TypeOK
  <2>. QED  BY <2>1, <2>2
<1>6. ReadTyped'
  <2>1. got' = IF torn THEN got ELSE got \o read1
    BY DEF ReadFrames
  <2>2. got' \in Seq(Packet)
    <3>. HIDE DEF read1
    <3>. QED  BY <1>4, <2>1 DEF TypeOK
  <2>3. ackId' \in Nat /\ lastPacketId' \in Nat
    BY <1>2 DEF ReadFrames
  <2>4. /\ rs' \in {"INITIALIZED", "OPENING", "OPEN", "CLOSING", "CLOSED", "LEFT"}
        /\ ct' \in {"none", "open", "closed"}
    BY DEF ReadFrames, TypeOK
  <2>. QED  BY <2>2, <2>3, <2>4 DEF ReadTyped
<1>. QED  BY <1>5, <1>6

LEMMA TypeInit == Init => TypeOK
<1>. SUFFICES ASSUME Init PROVE TypeOK
  OBVIOUS
<1>1. /\ <<>> \in Seq(Packet) /\ <<>> \in Seq(Frame) /\ <<>> \in Seq(Upward)
      /\ <<>> \in Seq(Seq(Upward)) /\ <<>> \in Seq(Nat)
  BY EmptySeq
<1>2. NoPost \in Post
  BY <1>1 DEF NoPost, Post
<1>. QED  BY <1>1, <1>2, TransportsAssumption DEF Init, TypeOK

LEMMA GiveUpGetTyped ==
    ASSUME TypeOK, GiveUpGet
    PROVE  /\ cur' \in {"none", "page", "stale"} /\ get' = "none" /\ body' = <<>>
           /\ late' \subseteq Nat
BY EmptySeq DEF TypeOK, GiveUpGet

LEMMA DoCloseTyped ==
    ASSUME TypeOK, NEW state \in {"CLOSED", "LEFT"}, DoClose(state)
    PROVE  /\ AnswerTyped' /\ rs' = state /\ ct' = "closed"
           /\ late' \subseteq Nat /\ transport' = transport
<1>1. GiveUpGet
  BY DEF DoClose
<1>2. /\ cur' \in {"none", "page", "stale"} /\ get' = "none" /\ body' = <<>>
      /\ late' \subseteq Nat
  BY <1>1, GiveUpGetTyped
<1>3. part' = FALSE /\ torn' = torn /\ rs' = state /\ ct' = "closed" /\ transport' = transport
  BY DEF DoClose
<1>4. AnswerTyped'
  BY <1>2, <1>3, EmptySeq, TypeParts DEF Typed, AnswerTyped
<1>. QED  BY <1>2, <1>3, <1>4

\* Every step leaves every variable a value of its kind.
LEMMA TypeStep ==
    ASSUME TypeOK, PollBody, [Next]_vars
    PROVE  TypeOK'
<1>0. /\ ServiceTyped /\ QueuesTyped /\ AnswerTyped /\ ReadTyped /\ UpTyped
      /\ NetworkTyped /\ transport \in {"longpoll", "xhrstream"}
  BY TypeParts DEF Typed
<1>p. /\ {"opt", "ping", "close"} \subseteq Packet /\ Data \subseteq Packet
      /\ NoPost \in Post
  BY EmptySeq DEF Packet, NoPost, Post
<1>1. ASSUME Create PROVE Typed'
  BY <1>0, <1>p, <1>1 DEF Create, queues, answer, page, read, up, network,
     Typed, ServiceTyped, QueuesTyped, AnswerTyped, ReadTyped, UpTyped,
     NetworkTyped
<1>2. ASSUME Write PROVE Typed'
  <2>1. \E d \in Data : SendPacket(d)
    BY <1>2 DEF Write
  <2>2. QueuesTyped' /\ AnswerTyped'
    BY <1>p, <2>1, SendPacketTyped
  <2>. QED  BY <1>0, <1>2, <2>2 DEF Write, queues, answer, page, read, up,
               network, Typed, ServiceTyped, QueuesTyped, AnswerTyped,
               ReadTyped, UpTyped, NetworkTyped
<1>3. ASSUME LoseConnection PROVE Typed'
  <2>1. CloseConn(cur)
    BY <1>3 DEF LoseConnection
  <2>2. QueuesTyped' /\ AnswerTyped' /\ conn' = "closed" /\ timer' = "none"
    BY <1>p, <2>1, CloseConnTyped
  <2>. QED  BY <1>0, <1>3, <2>2 DEF LoseConnection, queues, answer, page, read,
               up, network, Typed, ServiceTyped, QueuesTyped, AnswerTyped,
               ReadTyped, UpTyped, NetworkTyped
<1>4. ASSUME GetArrives PROVE Typed'
  <2>1. CASE conn = "live"
    <3>1. TransportOpened(ackId, "page") /\ ackId \in Nat
      BY <1>0, <1>4, <2>1 DEF GetArrives, ReadTyped
    <3>2. /\ QueuesTyped' /\ AnswerTyped' /\ opened' \in BOOLEAN /\ timer' = "ping"
          /\ conn' = conn /\ toParse' = toParse
      BY <3>1, TransportOpenedTyped
    <3>. QED  BY <1>0, <1>4, <3>2 DEF GetArrives, queues, answer, page, read,
                 up, network, Typed, ServiceTyped, QueuesTyped, AnswerTyped,
                 ReadTyped, UpTyped, NetworkTyped
  <2>2. CASE conn # "live"
    BY <1>0, <1>4, <2>2 DEF GetArrives, queues, answer, page, read, up, network,
       Typed, ServiceTyped, QueuesTyped, AnswerTyped, ReadTyped, UpTyped,
       NetworkTyped
  <2>. QED  BY <2>1, <2>2
<1>5. ASSUME LateGetArrives PROVE Typed'
  <2>1. PICK a \in late :
            /\ late' = late \ {a}
            /\ IF conn = "live"
               THEN TransportOpened(a, "stale")
               ELSE UNCHANGED <<conn, opened, queues, cur, timer, toParse, answer>>
    BY <1>5 DEF LateGetArrives
  <2>2. NetworkTyped'
    BY <1>0, <1>5, <2>1 DEF LateGetArrives, NetworkTyped
  <2>3. CASE conn = "live"
    <3>1. TransportOpened(a, "stale") /\ a \in Nat
      BY <1>0, <2>1, <2>3 DEF NetworkTyped
    <3>2. /\ QueuesTyped' /\ AnswerTyped' /\ opened' \in BOOLEAN /\ timer' = "ping"
          /\ conn' = conn /\ toParse' = toParse
      BY <3>1, TransportOpenedTyped
    <3>. QED  BY <1>0, <1>5, <2>2, <3>2 DEF LateGetArrives, queues, answer,
                 page, read, up, network, Typed, ServiceTyped, QueuesTyped,
                 AnswerTyped, ReadTyped, UpTyped, NetworkTyped
  <2>4. CASE conn # "live"
    BY <1>0, <1>5, <2>1, <2>2, <2>4 DEF LateGetArrives, queues, answer, page,
       read, up, network, Typed, ServiceTyped, QueuesTyped, AnswerTyped,
       ReadTyped, UpTyped, NetworkTyped
  <2>. QED  BY <2>3, <2>4
<1>6. ASSUME EmptyAnswer PROVE Typed'
  BY <1>0, <1>p, <1>6 DEF EmptyAnswer, FinishCurrent, queues, answer, page,
     read, up, network, Typed, ServiceTyped, QueuesTyped, AnswerTyped,
     ReadTyped, UpTyped, NetworkTyped
<1>7. ASSUME ConnectionAborted PROVE Typed'
  <2>1. CloseConn("none")
    BY <1>7 DEF ConnectionAborted
  <2>2. QueuesTyped' /\ AnswerTyped' /\ conn' = "closed" /\ timer' = "none"
    BY <1>p, <2>1, CloseConnTyped
  <2>. QED  BY <1>0, <1>7, <2>2 DEF ConnectionAborted, queues, answer, page,
               read, up, network, Typed, ServiceTyped, QueuesTyped, AnswerTyped,
               ReadTyped, UpTyped, NetworkTyped
<1>8. ASSUME SendPing PROVE Typed'
  <2>1. SendPacket("ping")
    BY <1>8 DEF SendPing
  <2>2. QueuesTyped' /\ AnswerTyped'
    BY <1>p, <2>1, SendPacketTyped
  <2>. QED  BY <1>0, <1>8, <2>2 DEF SendPing, queues, answer, page, read, up,
               network, Typed, ServiceTyped, QueuesTyped, AnswerTyped,
               ReadTyped, UpTyped, NetworkTyped
<1>9. ASSUME Timeout PROVE Typed'
  <2>1. CloseConn(cur)
    BY <1>9 DEF Timeout
  <2>2. QueuesTyped' /\ AnswerTyped' /\ conn' = "closed" /\ timer' = "none"
    BY <1>p, <2>1, CloseConnTyped
  <2>. QED  BY <1>0, <1>9, <2>2 DEF Timeout, queues, answer, page, read, up,
               network, Typed, ServiceTyped, QueuesTyped, AnswerTyped,
               ReadTyped, UpTyped, NetworkTyped
<1>10. ASSUME PostArrives PROVE Typed'
  <2>1. CASE conn = "live"
    <3>1. PostRendered(posted) /\ posted \in Post
      BY <1>0, <1>10, <2>1 DEF PostArrives, UpTyped
    <3>2. /\ QueuesTyped' /\ AnswerTyped' /\ timer' = "ping"
          /\ toParse' \in Seq(Seq(Upward)) /\ conn' = conn /\ opened' = opened
      BY <3>1, PostRenderedTyped
    <3>. QED  BY <1>0, <1>10, <2>1, <3>2 DEF PostArrives, queues, answer, page,
                 read, up, network, Typed, ServiceTyped, QueuesTyped,
                 AnswerTyped, ReadTyped, UpTyped, NetworkTyped
  <2>2. CASE conn # "live"
    BY <1>0, <1>10, <2>2 DEF PostArrives, queues, answer, page, read, up,
       network, Typed, ServiceTyped, QueuesTyped, AnswerTyped, ReadTyped,
       UpTyped, NetworkTyped
  <2>. QED  BY <2>1, <2>2
<1>11. ASSUME LatePostArrives PROVE Typed'
  <2>1. PICK p \in latePosts :
            /\ latePosts' = latePosts \ {p}
            /\ IF conn = "live" THEN PostRendered(p)
               ELSE UNCHANGED <<conn, opened, queues, cur, timer, toParse, answer>>
    BY <1>11 DEF LatePostArrives
  <2>2. NetworkTyped'
    BY <1>0, <1>11, <2>1 DEF LatePostArrives, NetworkTyped
  <2>3. CASE conn = "live"
    <3>1. PostRendered(p) /\ p \in Post
      BY <1>0, <2>1, <2>3 DEF NetworkTyped
    <3>2. /\ QueuesTyped' /\ AnswerTyped' /\ timer' = "ping"
          /\ toParse' \in Seq(Seq(Upward)) /\ conn' = conn /\ opened' = opened
      BY <3>1, PostRenderedTyped
    <3>. QED  BY <1>0, <1>11, <2>2, <3>2 DEF LatePostArrives, queues, answer,
                 page, read, up, network, Typed, ServiceTyped, QueuesTyped,
                 AnswerTyped, ReadTyped, UpTyped, NetworkTyped
  <2>4. CASE conn # "live"
    BY <1>0, <1>11, <2>1, <2>2, <2>4 DEF LatePostArrives, queues, answer, page,
       read, up, network, Typed, ServiceTyped, QueuesTyped, AnswerTyped,
       ReadTyped, UpTyped, NetworkTyped
  <2>. QED  BY <2>3, <2>4
<1>12. ASSUME ParseData PROVE Typed'
  <2>. DEFINE frames == Head(toParse)
              ids    == [i \in DOMAIN frames |-> frames[i].id]
  <2>1. toParse \in Seq(Seq(Upward)) /\ toParse # <<>> /\ taken \in Seq(Nat)
    BY <1>0, <1>12 DEF ParseData, ServiceTyped
  <2>2. frames \in Seq(Upward) /\ Tail(toParse) \in Seq(Seq(Upward))
    BY <2>1
  <2>3. toParse' = Tail(toParse) /\ taken' = taken \o ids
    BY <1>12 DEF ParseData
  <2>4. ids \in Seq(Nat)
    <3>. HIDE DEF frames
    <3>1. DOMAIN frames = 1 .. Len(frames) /\ Len(frames) \in Nat
      BY <2>2
    <3>2. ASSUME NEW i \in 1 .. Len(frames) PROVE frames[i].id \in Nat
      <4>1. frames[i] \in Upward
        BY <2>2, ElementOfSeq
      <4>. QED  BY <4>1 DEF Upward
    <3>. QED  BY <3>1, <3>2
  <2>5. taken' \in Seq(Nat)
    <3>. HIDE DEF ids
    <3>. QED  BY <2>1, <2>3, <2>4
  <2>6. CASE CloseConn(cur)
    <3>1. /\ QueuesTyped' /\ AnswerTyped' /\ conn' = "closed" /\ timer' = "none"
      BY <2>6, CloseConnTyped
    <3>. QED  BY <1>0, <1>12, <2>2, <2>3, <2>5, <3>1 DEF ParseData, page, read,
                 up, network, Typed, ServiceTyped, QueuesTyped, AnswerTyped,
                 ReadTyped, UpTyped, NetworkTyped
  <2>7. CASE UNCHANGED <<conn, queues, cur, timer, answer>>
    BY <1>0, <1>12, <2>2, <2>3, <2>5, <2>7 DEF ParseData, queues, answer, page,
       read, up, network, Typed, ServiceTyped, QueuesTyped, AnswerTyped,
       ReadTyped, UpTyped, NetworkTyped
  <2>. QED  BY <1>12, <2>6, <2>7 DEF ParseData
<1>13. ASSUME OpenSession PROVE Typed'
  BY <1>0, <1>p, <1>13 DEF OpenSession, queues, answer, page, read, up, network,
     Typed, ServiceTyped, QueuesTyped, AnswerTyped, ReadTyped, UpTyped,
     NetworkTyped
<1>14. ASSUME KeyAnswered PROVE Typed'
  BY <1>0, <1>p, <1>14 DEF KeyAnswered, queues, answer, page, read, up, network,
     Typed, ServiceTyped, QueuesTyped, AnswerTyped, ReadTyped, UpTyped,
     NetworkTyped
<1>15. ASSUME KeyFails PROVE Typed'
  BY <1>0, <1>p, <1>15 DEF KeyFails, queues, answer, page, read, up, network,
     Typed, ServiceTyped, QueuesTyped, AnswerTyped, ReadTyped, UpTyped,
     NetworkTyped
<1>16. ASSUME Send PROVE Typed'
  <2>1. Push("data", lastPacketId) /\ lastPacketId \in Nat
    BY <1>0, <1>16 DEF Send, ReadTyped
  <2>2. UpTyped'
    BY <2>1, PushTyped
  <2>. QED  BY <1>0, <1>16, <2>2 DEF Send, queues, answer, page, read, network,
               Typed, ServiceTyped, QueuesTyped, AnswerTyped, ReadTyped,
               UpTyped, NetworkTyped
<1>17. ASSUME Close PROVE Typed'
  <2>1. Push("close", lastPacketId) /\ lastPacketId \in Nat
    BY <1>0, <1>17 DEF Close, ReadTyped
  <2>2. UpTyped'
    BY <2>1, PushTyped
  <2>. QED  BY <1>0, <1>17, <2>2 DEF Close, queues, answer, page, read, network,
               Typed, ServiceTyped, QueuesTyped, AnswerTyped, ReadTyped,
               UpTyped, NetworkTyped
<1>18. ASSUME TimedOut PROVE Typed'
  <2>1. DoClose("CLOSED")
    BY <1>18 DEF TimedOut
  <2>2. /\ AnswerTyped' /\ rs' = "CLOSED" /\ ct' = "closed"
        /\ late' \subseteq Nat /\ transport' = transport
    BY <1>p, <2>1, DoCloseTyped
  <2>. QED  BY <1>0, <1>18, <2>2 DEF TimedOut, queues, answer, page, read, up,
               network, Typed, ServiceTyped, QueuesTyped, AnswerTyped,
               ReadTyped, UpTyped, NetworkTyped
<1>19. ASSUME PageLeaves PROVE Typed'
  <2>1. DoClose("LEFT")
    BY <1>19 DEF PageLeaves
  <2>2. /\ AnswerTyped' /\ rs' = "LEFT" /\ ct' = "closed"
        /\ late' \subseteq Nat /\ transport' = transport
    BY <2>1, DoCloseTyped
  <2>3. latePosts' \subseteq Post
    BY <1>0, <1>19 DEF PageLeaves, NetworkTyped, UpTyped
  <2>. QED  BY <1>0, <1>p, <1>19, <2>2, <2>3, EmptySeq DEF PageLeaves, queues,
               read, Typed, ServiceTyped, QueuesTyped, AnswerTyped, ReadTyped,
               UpTyped, NetworkTyped
<1>20. ASSUME GetOpens PROVE Typed'
  BY <1>0, <1>p, <1>20 DEF GetOpens, queues, answer, page, read, up, network,
     Typed, ServiceTyped, QueuesTyped, AnswerTyped, ReadTyped, UpTyped,
     NetworkTyped
<1>21. ASSUME ReadAnswer PROVE Typed'
  <2>1. ReadFrames(body) /\ body \in Seq(Frame)
    BY <1>0, <1>21 DEF ReadAnswer, AnswerTyped
  <2>2. \A i \in 1 .. Len(body) : body[i].what = "open" => i = Len(body)
    BY <1>21, <2>1 DEF ReadAnswer, PollBody
  <2>3. UpTyped' /\ ReadTyped'
    BY <2>1, <2>2, ReadFramesTyped
  <2>. QED  BY <1>0, <1>21, <2>3, EmptySeq DEF ReadAnswer, queues, network,
               Typed, ServiceTyped, QueuesTyped, AnswerTyped, NetworkTyped
<1>22. ASSUME ReadFrame PROVE Typed'
  <2>1. /\ ReadFrames(<<Head(body)>>) /\ body \in Seq(Frame) /\ body # <<>>
        /\ part' = FALSE
    BY <1>0, <1>22 DEF ReadFrame, AnswerTyped
  <2>2. Head(body) \in Frame /\ Tail(body) \in Seq(Frame)
    BY <2>1
  <2>3. UpTyped' /\ ReadTyped'
    <3>. DEFINE frames == <<Head(body)>>
    <3>1. /\ frames \in Seq(Frame)
          /\ \A i \in 1 .. Len(frames) : frames[i].what = "open" => i = Len(frames)
      BY <2>2
    <3>2. ReadFrames(frames)
      BY <2>1
    <3>. HIDE DEF frames
    <3>. QED  BY <3>1, <3>2, ReadFramesTyped
  <2>4. AnswerTyped' /\ late' \subseteq Nat
    <3>1. CASE GiveUpGet
      BY <1>0, <1>22, <2>1, <3>1, GiveUpGetTyped, EmptySeq DEF ReadFrame,
         AnswerTyped
    <3>2. CASE body' = Tail(body) /\ UNCHANGED <<get, cur, late>>
      BY <1>0, <1>22, <2>1, <2>2, <3>2 DEF ReadFrame, AnswerTyped, NetworkTyped
    <3>. QED  BY <1>22, <3>1, <3>2 DEF ReadFrame
  <2>. QED  BY <1>0, <1>22, <2>3, <2>4 DEF ReadFrame, queues, Typed,
               ServiceTyped, QueuesTyped, NetworkTyped
<1>23. ASSUME MissFrame PROVE Typed'
  <2>1. body' \in Seq(Frame)
    BY <1>0, <1>23 DEF MissFrame, AnswerTyped
  <2>2. /\ cur' = cur /\ get' = get /\ torn' = torn /\ part' = FALSE
    BY <1>23 DEF MissFrame
  <2>3. AnswerTyped'
    BY <1>0, <2>1, <2>2 DEF AnswerTyped
  <2>. QED  BY <1>0, <1>23, <2>3 DEF MissFrame, queues, page, read, up, network,
               Typed, ServiceTyped, QueuesTyped, ReadTyped, UpTyped,
               NetworkTyped
<1>24. ASSUME ReadPart PROVE Typed'
  BY <1>0, <1>p, <1>24 DEF ReadPart, queues, answer, page, read, up, network,
     Typed, ServiceTyped, QueuesTyped, AnswerTyped, ReadTyped, UpTyped,
     NetworkTyped
<1>25. ASSUME ReadEnd PROVE Typed'
  BY <1>0, <1>p, <1>25 DEF ReadEnd, queues, answer, page, read, up, network,
     Typed, ServiceTyped, QueuesTyped, AnswerTyped, ReadTyped, UpTyped,
     NetworkTyped
<1>26. ASSUME GetFails PROVE Typed'
  <2>1. CASE DoClose("CLOSED")
    <3>1. /\ AnswerTyped' /\ rs' = "CLOSED" /\ ct' = "closed"
          /\ late' \subseteq Nat /\ transport' = transport
      BY <2>1, DoCloseTyped
    <3>. QED  BY <1>0, <1>26, <3>1 DEF GetFails, queues, read, up, Typed,
                 ServiceTyped, QueuesTyped, AnswerTyped, ReadTyped, UpTyped,
                 NetworkTyped
  <2>2. CASE GiveUpGet /\ torn' = (torn \/ part) /\ part' = FALSE /\ UNCHANGED page
    <3>1. /\ cur' \in {"none", "page", "stale"} /\ get' = "none" /\ body' = <<>>
          /\ late' \subseteq Nat
      BY <2>2, GiveUpGetTyped
    <3>2. AnswerTyped'
      BY <1>0, <2>2, <3>1, EmptySeq DEF AnswerTyped
    <3>. QED  BY <1>0, <1>26, <2>2, <3>1, <3>2 DEF GetFails, queues, page, read,
                 up, Typed, ServiceTyped, QueuesTyped, ReadTyped, UpTyped,
                 NetworkTyped
  <2>. QED  BY <1>26, <2>1, <2>2 DEF GetFails
<1>27. ASSUME GetMissing PROVE Typed'
  <2>1. DoClose("CLOSED")
    BY <1>27 DEF GetMissing
  <2>2. /\ AnswerTyped' /\ rs' = "CLOSED" /\ ct' = "closed"
        /\ late' \subseteq Nat /\ transport' = transport
    BY <1>p, <2>1, DoCloseTyped
  <2>. QED  BY <1>0, <1>27, <2>2 DEF GetMissing, queues, answer, page, read, up,
               network, Typed, ServiceTyped, QueuesTyped, AnswerTyped,
               ReadTyped, UpTyped, NetworkTyped
<1>28. ASSUME PostAnswered PROVE Typed'
  <2>. DEFINE rest == Drop(sendQueue, Len(posted.frames))
  <2>1. posted.frames \in Seq(Upward) /\ Len(posted.frames) \in Nat
    BY <1>0 DEF UpTyped, Post
  <2>2. rest \in Seq(Upward)
    BY <1>0, <2>1, DropType DEF UpTyped
  <2>3. [ack |-> lastPacketId, frames |-> rest] \in Post
    BY <1>0, <2>2 DEF ReadTyped, Post
  <2>4. /\ sendQueue' = rest /\ retries' = 0
        /\ \/ post' = "idle" /\ posted' = NoPost
           \/ post' = "sent" /\ posted' = [ack |-> lastPacketId, frames |-> rest]
        /\ packetCount' = packetCount
    BY <1>28 DEF PostAnswered
  <2>. HIDE DEF rest
  <2>5. UpTyped'
    BY <1>0, <1>p, <2>2, <2>3, <2>4 DEF UpTyped
  <2>. QED  BY <1>0, <1>28, <2>5 DEF PostAnswered, queues, answer, page, read,
               network, Typed, ServiceTyped, QueuesTyped, AnswerTyped,
               ReadTyped, NetworkTyped
<1>29. ASSUME PostFails PROVE Typed'
  <2>1. latePosts' \subseteq Post
    BY <1>0, <1>29 DEF PostFails, NetworkTyped, UpTyped
  <2>2. post' \in {"stuck", "waiting"}
    BY <1>29 DEF PostFails
  <2>. QED  BY <1>0, <1>29, <2>1, <2>2 DEF PostFails, queues, answer, page,
               read, Typed, ServiceTyped, QueuesTyped, AnswerTyped, ReadTyped,
               UpTyped, NetworkTyped
<1>30. ASSUME Retry PROVE Typed'
  <2>1. CASE /\ DoClose("CLOSED") /\ post' = "idle" /\ posted' = NoPost /\ retries' = 0
    <3>1. /\ AnswerTyped' /\ rs' = "CLOSED" /\ ct' = "closed"
          /\ late' \subseteq Nat /\ transport' = transport
      BY <2>1, DoCloseTyped
    <3>. QED  BY <1>0, <1>p, <1>30, <2>1, <3>1 DEF Retry, queues, read, Typed,
                 ServiceTyped, QueuesTyped, AnswerTyped, ReadTyped, UpTyped,
                 NetworkTyped
  <2>2. CASE /\ post' = "sent"
             /\ posted' = [ack |-> lastPacketId, frames |-> sendQueue]
             /\ retries' = retries + 1
             /\ UNCHANGED <<answer, page, cur, late>>
    <3>1. [ack |-> lastPacketId, frames |-> sendQueue] \in Post
      BY <1>0 DEF ReadTyped, UpTyped, Post
    <3>. QED  BY <1>0, <1>30, <2>2, <3>1 DEF Retry, queues, answer, page, read,
                 Typed, ServiceTyped, QueuesTyped, AnswerTyped, ReadTyped,
                 UpTyped, NetworkTyped
  <2>. QED  BY <1>30, <2>1, <2>2 DEF Retry
<1>31. ASSUME UNCHANGED vars PROVE Typed'
  BY <1>0, <1>31 DEF vars, queues, answer, page, read, up, network, Typed,
     ServiceTyped, QueuesTyped, AnswerTyped, ReadTyped, UpTyped, NetworkTyped
<1>. QED
  BY TypedNext, <1>1, <1>2, <1>3, <1>4, <1>5, <1>6, <1>7, <1>8, <1>9, <1>10,
     <1>11, <1>12, <1>13, <1>14, <1>15, <1>16, <1>17, <1>18, <1>19, <1>20,
     <1>21, <1>22, <1>23, <1>24, <1>25, <1>26, <1>27, <1>28, <1>29, <1>30, <1>31
     DEF Next, Service, Page

-----------------------------------------------------------------------------
(* Control *)

LEMMA ControlInit == Init => Control
BY DEF Init, Control

\* Writing a packet or closing leaves the control as it was but for the
\* transport.
LEMMA SendPacketControl ==
    ASSUME TypeOK, Control, NEW what, SendPacket(what)
    PROVE  /\ cur' \in {cur, "none"} /\ get' \in {get, "done"}
           /\ (cur' = "page") <=> (get' = "held")
           /\ get' # get => get = "held"
           /\ get = "held" \/ (body' = body /\ get' = get)
<1>1. CASE cur = "none"
  BY <1>1 DEF SendPacket, Control
<1>2. CASE cur # "none"
  <2>1. /\ cur \in {"page", "stale"}
        /\ WriteTo(cur, <<[id |-> packetId + 1, what |-> what]>>)
    BY <1>2 DEF SendPacket, TypeOK
  <2>. QED  BY <2>1 DEF WriteTo, Control
<1>. QED  BY <1>1, <1>2

LEMMA CloseConnControl ==
    ASSUME TypeOK, Control, NEW t \in {cur, "none"}, CloseConn(t),
           t # cur => cur = "stale"
    PROVE  /\ cur' = "none" /\ timer' = "none" /\ conn' = "closed"
           /\ get' \in {get, "done"} /\ get' # "held"
           /\ get' # get => get = "held"
           /\ get = "held" \/ (body' = body /\ get' = get)
BY DEF CloseConn, TypeOK, Control

LEMMA TransportOpenedControl ==
    ASSUME TypeOK, Control, conn = "live", NEW a, NEW whose \in {"page", "stale"},
           whose = "page" => get = "sent", TransportOpened(a, whose)
    PROVE  /\ conn' = "live"
           /\ cur' = "page" <=> get' = "held"
           /\ get' # get => get \in {"held", "sent"} /\ get' \in {"held", "done"}
           /\ get \notin {"held", "sent"} => body' = body
           /\ get' = get => body' = body
<1>1. CASE whose = "page"
  BY <1>1 DEF TransportOpened, WriteTo, Control
<1>2. CASE whose = "stale"
  BY <1>2 DEF TransportOpened, FinishCurrent, Control
<1>. QED  BY <1>1, <1>2

LEMMA GiveUpGetControl ==
    ASSUME TypeOK, Control, GiveUpGet
    PROVE  /\ get' = "none" /\ body' = <<>> /\ cur' # "page"
           /\ cur' # "none" => cur # "none"
BY DEF GiveUpGet, TypeOK, Control

LEMMA ControlStep ==
    ASSUME TypeOK, Control, [Next]_vars
    PROVE  Control'
<1>1. ASSUME Create PROVE Control'
  BY <1>1 DEF Create, queues, answer, page, read, up, network, Control
<1>2. ASSUME Write PROVE Control'
  <2>1. PICK d \in Data : SendPacket(d)
    BY <1>2 DEF Write
  <2>. QED  BY <1>2, <2>1, SendPacketControl DEF Write, queues, answer, page,
               read, up, network, Control
<1>3. ASSUME LoseConnection PROVE Control'
  <2>1. CloseConn(cur)
    BY <1>3 DEF LoseConnection, Control
  <2>. QED  BY <1>3, <2>1, CloseConnControl DEF LoseConnection, queues, answer,
               page, read, up, network, Control
<1>4. ASSUME GetArrives PROVE Control'
  <2>1. CASE conn = "live"
    <3>1. TransportOpened(ackId, "page") /\ get = "sent"
      BY <1>4, <2>1 DEF GetArrives
    <3>. QED  BY <1>4, <2>1, <3>1, TransportOpenedControl DEF GetArrives,
                 queues, answer, page, read, up, network, Control
  <2>2. CASE conn # "live"
    BY <1>4, <2>2 DEF GetArrives, queues, answer, page, read, up, network,
       Control
  <2>. QED  BY <2>1, <2>2
<1>5. ASSUME LateGetArrives PROVE Control'
  <2>1. CASE conn = "live"
    <3>1. PICK a \in late : TransportOpened(a, "stale")
      BY <1>5, <2>1 DEF LateGetArrives
    <3>. QED  BY <1>5, <2>1, <3>1, TransportOpenedControl DEF LateGetArrives,
                 queues, answer, page, read, up, network, Control
  <2>2. CASE conn # "live"
    BY <1>5, <2>2 DEF LateGetArrives, queues, answer, page, read, up, network,
       Control
  <2>. QED  BY <2>1, <2>2
<1>6. ASSUME EmptyAnswer PROVE Control'
  BY <1>6 DEF EmptyAnswer, FinishCurrent, queues, answer, page, read, up,
     network, Control
<1>7. ASSUME ConnectionAborted PROVE Control'
  <2>1. CloseConn("none") /\ cur = "stale"
    BY <1>7 DEF ConnectionAborted, Control
  <2>. QED  BY <1>7, <2>1, CloseConnControl DEF ConnectionAborted, queues,
               answer, page, read, up, network, Control
<1>8. ASSUME SendPing PROVE Control'
  <2>1. SendPacket("ping") /\ conn = "live"
    BY <1>8 DEF SendPing, Control
  <2>. QED  BY <1>8, <2>1, SendPacketControl DEF SendPing, queues, answer, page,
               read, up, network, Control
<1>9. ASSUME Timeout PROVE Control'
  <2>1. CloseConn(cur)
    BY <1>9 DEF Timeout, Control
  <2>. QED  BY <1>9, <2>1, CloseConnControl DEF Timeout, queues, answer, page,
               read, up, network, Control
<1>10. ASSUME PostArrives PROVE Control'
  BY <1>10 DEF PostArrives, PostRendered, queues, answer, page, read, up,
     network, Control
<1>11. ASSUME LatePostArrives PROVE Control'
  BY <1>11 DEF LatePostArrives, PostRendered, queues, answer, page, read, up,
     network, Control
<1>12. ASSUME ParseData PROVE Control'
  <2>1. CASE CloseConn(cur) /\ conn = "live"
    BY <1>12, <2>1, CloseConnControl DEF ParseData, queues, answer, page, read,
       up, network, Control
  <2>2. CASE UNCHANGED <<conn, queues, cur, timer, answer>>
    BY <1>12, <2>2 DEF ParseData, queues, answer, page, read, up, network,
       Control
  <2>. QED  BY <1>12, <2>1, <2>2 DEF ParseData
<1>13. ASSUME OpenSession PROVE Control'
  BY <1>13 DEF OpenSession, queues, answer, page, read, up, network, Control
<1>14. ASSUME KeyAnswered PROVE Control'
  BY <1>14 DEF KeyAnswered, queues, answer, page, read, up, network, Control
<1>15. ASSUME KeyFails PROVE Control'
  BY <1>15 DEF KeyFails, queues, answer, page, read, up, network, Control
<1>16. ASSUME Send PROVE Control'
  BY <1>16 DEF Send, Push, DoSend, queues, answer, page, read, up, network,
     Control
<1>17. ASSUME Close PROVE Control'
  BY <1>17 DEF Close, Push, DoSend, queues, answer, page, read, up, network,
     Control
<1>18. ASSUME TimedOut PROVE Control'
  <2>1. GiveUpGet
    BY <1>18 DEF TimedOut, DoClose
  <2>. QED  BY <1>18, <2>1, GiveUpGetControl DEF TimedOut, DoClose, queues,
               answer, page, read, up, network, Control
<1>19. ASSUME PageLeaves PROVE Control'
  <2>1. GiveUpGet
    BY <1>19 DEF PageLeaves, DoClose
  <2>. QED  BY <1>19, <2>1, GiveUpGetControl DEF PageLeaves, DoClose, queues,
               answer, page, read, up, network, Control
<1>20. ASSUME GetOpens PROVE Control'
  BY <1>20 DEF GetOpens, queues, answer, page, read, up, network, Control
<1>21. ASSUME ReadAnswer PROVE Control'
  BY <1>21 DEF ReadAnswer, ReadFrames, Push, DoSend, queues, answer, page, read,
     up, network, Control
<1>22. ASSUME ReadFrame PROVE Control'
  <2>1. body # <<>> /\ get \in {"held", "done"}
    BY <1>22 DEF ReadFrame, Control
  <2>2. CASE Head(body).what = "close"
    <3>1. GiveUpGet
      BY <1>22, <2>2 DEF ReadFrame
    <3>. QED  BY <1>22, <2>1, <2>2, <3>1, GiveUpGetControl DEF ReadFrame,
                 ReadFrames, Push, DoSend, queues, answer, page, read, up,
                 network, Control
  <2>3. CASE Head(body).what # "close"
    BY <1>22, <2>1, <2>3 DEF ReadFrame, ReadFrames, Push, DoSend, queues,
       answer, page, read, up, network, Control
  <2>. QED  BY <2>2, <2>3
<1>23. ASSUME MissFrame PROVE Control'
  BY <1>23 DEF MissFrame, queues, answer, page, read, up, network, Control
<1>24. ASSUME ReadPart PROVE Control'
  BY <1>24 DEF ReadPart, queues, answer, page, read, up, network, Control
<1>25. ASSUME ReadEnd PROVE Control'
  BY <1>25 DEF ReadEnd, queues, answer, page, read, up, network, Control
<1>26. ASSUME GetFails PROVE Control'
  <2>1. GiveUpGet
    BY <1>26 DEF GetFails, DoClose
  <2>. QED  BY <1>26, <2>1, GiveUpGetControl DEF GetFails, DoClose, queues,
               answer, page, read, up, network, Control
<1>27. ASSUME GetMissing PROVE Control'
  <2>1. GiveUpGet
    BY <1>27 DEF GetMissing, DoClose
  <2>. QED  BY <1>27, <2>1, GiveUpGetControl DEF GetMissing, DoClose, queues,
               answer, page, read, up, network, Control
<1>28. ASSUME PostAnswered PROVE Control'
  BY <1>28 DEF PostAnswered, queues, answer, page, read, up, network, Control
<1>29. ASSUME PostFails PROVE Control'
  BY <1>29 DEF PostFails, queues, answer, page, read, up, network, Control
<1>30. ASSUME Retry PROVE Control'
  <2>1. CASE DoClose("CLOSED") /\ post' = "idle"
    <3>1. GiveUpGet
      BY <2>1 DEF DoClose
    <3>. QED  BY <1>30, <2>1, <3>1, GiveUpGetControl DEF Retry, DoClose, queues,
                 answer, page, read, up, network, Control
  <2>2. CASE post' = "sent" /\ UNCHANGED <<answer, page, cur, late>>
    BY <1>30, <2>2 DEF Retry, queues, answer, page, read, up, network, Control
  <2>. QED  BY <1>30, <2>1, <2>2 DEF Retry
<1>31. ASSUME UNCHANGED vars PROVE Control'
  BY <1>31 DEF vars, queues, answer, page, read, up, network, Control
<1>. QED
  BY <1>1, <1>2, <1>3, <1>4, <1>5, <1>6, <1>7, <1>8, <1>9, <1>10, <1>11, <1>12,
     <1>13, <1>14, <1>15, <1>16, <1>17, <1>18, <1>19, <1>20, <1>21, <1>22,
     <1>23, <1>24, <1>25, <1>26, <1>27, <1>28, <1>29, <1>30, <1>31 DEF Next,
     Service, Page

-----------------------------------------------------------------------------
(* The window of unacknowledged packets *)

\* What send and close do to the queues and to the GET of the page.
Grown(what) ==
    LET frame == [id |-> packetId + 1, what |-> what] IN
    /\ log' = Append(log, what)
    /\ lastAckId' = lastAckId /\ part' = part /\ torn' = torn
    /\ \/ /\ packetId' = packetId /\ unackQueue' = unackQueue
          /\ msgQueue' = Append(msgQueue, what)
          /\ cur' = "none" /\ get # "held"
          /\ body' = body /\ get' = get
       \/ /\ packetId' = packetId + 1 /\ unackQueue' = Append(unackQueue, frame)
          /\ msgQueue' = msgQueue
          /\ cur # "none"
          /\ \/ body' = body /\ get' = get /\ get # "held"
             \/ /\ get = "held" /\ body' = Append(body, frame)
                /\ get' \in {"held", "done"}
                /\ transport = "longpoll" => get' = "done"

LEMMA SendPacketGrown ==
    ASSUME TypeOK, Control, NEW what, SendPacket(what)
    PROVE  Grown(what)
<1>. DEFINE frame == [id |-> packetId + 1, what |-> what]
<1>1. body \in Seq(Frame) /\ cur \in {"none", "page", "stale"}
  BY DEF TypeOK
<1>2. CASE cur = "none"
  BY <1>2 DEF SendPacket, Grown, Control
<1>3. CASE cur # "none"
  <2>1. /\ WriteTo(cur, <<frame>>) /\ packetId' = packetId + 1
        /\ unackQueue' = Append(unackQueue, frame) /\ msgQueue' = msgQueue
        /\ log' = Append(log, what)
        /\ lastAckId' = lastAckId /\ part' = part /\ torn' = torn
    BY <1>3 DEF SendPacket
  <2>2. body \o <<frame>> = Append(body, frame)
    BY <1>1
  <2>3. CASE cur = "page"
    <3>1. get = "held"
      BY <2>3 DEF Control
    <3>2. /\ body' = body \o <<frame>>
          /\ get' \in {"held", "done"}
          /\ transport = "longpoll" => get' = "done"
      BY <2>1, <2>3 DEF WriteTo
    <3>. QED  BY <2>1, <2>2, <2>3, <3>1, <3>2 DEF Grown
  <2>4. CASE cur = "stale"
    <3>1. get # "held"
      BY <2>4 DEF Control
    <3>2. body' = body /\ get' = get
      BY <2>1, <2>4 DEF WriteTo
    <3>. QED  BY <2>1, <2>4, <3>1, <3>2 DEF Grown
  <2>. QED  BY <1>1, <1>3, <2>3, <2>4
<1>. QED  BY <1>2, <1>3

LEMMA CloseConnGrown ==
    ASSUME TypeOK, Control, NEW t \in {cur, "none"}, CloseConn(t),
           t # cur => cur = "stale"
    PROVE  Grown("close") /\ cur' = "none"
<1>1. CASE t = "none"
  BY <1>1 DEF CloseConn, Grown, Control
<1>2. CASE t # "none"
  BY <1>2 DEF CloseConn, Grown, Control
<1>. QED  BY <1>1, <1>2

\* The range of an acknowledgement, and what is left.
LEMMA AckedRange ==
    ASSUME TypeOK, Queues, lastAckId <= packetId, NEW a \in Nat
    PROVE  /\ Acked(a) \in Nat
           /\ lastAckId <= Acked(a) /\ Acked(a) <= packetId
           /\ Acked(a) <= a \/ Acked(a) = lastAckId
           /\ lastAckId <= a /\ a <= packetId => Acked(a) = a
           /\ Unacked(a) = Window(Acked(a), packetId, log)
<1>1. /\ Acked(a) \in Nat
      /\ lastAckId <= Acked(a) /\ Acked(a) <= packetId
      /\ Acked(a) <= a \/ Acked(a) = lastAckId
      /\ lastAckId <= a /\ a <= packetId => Acked(a) = a
  BY DEF TypeOK, Acked, Larger, Smaller
<1>2. /\ log \in Seq(Packet) /\ lastAckId \in Nat /\ packetId \in Nat
      /\ packetId <= Len(log)
      /\ Unacked(a) = Drop(Window(lastAckId, packetId, log), Acked(a) - lastAckId)
  BY DEF TypeOK, Queues, Unacked
<1>3. Unacked(a) = Window(Acked(a), packetId, log)
  BY <1>1, <1>2, WindowDrop
<1>. QED  BY <1>1, <1>3

LEMMA GrownQueues ==
    ASSUME TypeOK, Queues, lastAckId <= packetId, NEW what \in Packet, Grown(what),
           cur' \in {cur, "none"}
    PROVE  Queues' /\ packetId <= packetId'
<1>1. /\ log \in Seq(Packet) /\ lastAckId \in Nat /\ packetId \in Nat
      /\ packetId <= Len(log) /\ log' = Append(log, what) /\ Len(log) \in Nat
      /\ lastAckId <= Len(log) /\ lastAckId' = lastAckId
  BY DEF TypeOK, Queues, Grown
<1>2. Len(log') = Len(log) + 1
  BY <1>1
<1>3. CASE /\ packetId' = packetId /\ unackQueue' = unackQueue
           /\ msgQueue' = Append(msgQueue, what) /\ cur' = "none"
  <2>1. unackQueue' = Window(lastAckId', packetId', log')
    BY <1>1, <1>3, WindowKept DEF Queues
  <2>2. msgQueue' = Drop(log', packetId')
    BY <1>1, <1>3, DropAppend DEF Queues
  <2>. QED  BY <1>1, <1>2, <1>3, <2>1, <2>2 DEF Queues
<1>4. CASE /\ packetId' = packetId + 1 /\ msgQueue' = msgQueue /\ cur # "none"
           /\ unackQueue' = Append(unackQueue, [id |-> packetId + 1, what |-> what])
  <2>1. packetId = Len(log)
    <3>1. Drop(log, packetId) = <<>>
      BY <1>4 DEF Queues
    <3>2. Len(Drop(log, packetId)) = Len(log) - packetId
      BY <1>1, DropFacts
    <3>. QED  BY <1>1, <3>1, <3>2
  <2>2. unackQueue' = Window(lastAckId', packetId', log')
    <3>1. unackQueue' = Append(Window(lastAckId, Len(log), log), [id |-> Len(log) + 1, what |-> what])
      BY <1>4, <2>1 DEF Queues
    <3>2. unackQueue' = Window(lastAckId, Len(log) + 1, Append(log, what))
      BY <1>1, <3>1, WindowNext
    <3>. QED  BY <1>1, <1>4, <2>1, <3>2
  <2>3. msgQueue' = <<>> /\ Drop(log', packetId') = <<>>
    <3>1. msgQueue' = <<>>
      BY <1>4 DEF Queues
    <3>2. log' \in Seq(Packet) /\ packetId' = Len(log')
      BY <1>1, <1>2, <1>4, <2>1
    <3>. QED  BY <3>1, <3>2 DEF Drop
  <2>. QED  BY <1>1, <1>2, <1>4, <2>1, <2>2, <2>3 DEF Queues
<1>. QED  BY <1>3, <1>4 DEF Grown

\* Opening a transport sends what was not acknowledged and what waited.
LEMMA TransportOpenedQueues ==
    ASSUME TypeOK, Queues, lastAckId <= packetId,
           NEW a \in Nat, NEW whose, TransportOpened(a, whose)
    PROVE  /\ Queues' /\ log' = log
           /\ lastAckId' = Acked(a) /\ packetId' = Len(log) /\ packetId <= packetId'
           /\ Unacked(a) \o Numbered = Window(Acked(a), Len(log), log)
           /\ packetId + Len(msgQueue) = Len(log)
<1>1. /\ log \in Seq(Packet) /\ packetId \in Nat /\ packetId <= Len(log)
      /\ msgQueue = Drop(log, packetId) /\ Len(log) \in Nat
  BY DEF TypeOK, Queues
<1>2. Len(msgQueue) = Len(log) - packetId
  BY <1>1, DropFacts
<1>3. packetId + Len(msgQueue) = Len(log)
  BY <1>1, <1>2
<1>4. /\ Acked(a) \in Nat /\ Acked(a) <= packetId
      /\ Unacked(a) = Window(Acked(a), packetId, log)
  BY AckedRange
<1>5. Unacked(a) \o Numbered = Window(Acked(a), Len(log), log)
  BY <1>1, <1>4, WindowJoin DEF Numbered
<1>6. /\ log' = log /\ lastAckId' = Acked(a) /\ msgQueue' = <<>>
      /\ packetId' = packetId + Len(msgQueue)
      /\ unackQueue' = Unacked(a) \o Numbered
  BY DEF TransportOpened, Numbered
<1>7. Drop(log, Len(log)) = <<>>
  BY <1>1 DEF Drop
<1>. QED  BY <1>1, <1>3, <1>5, <1>6, <1>7 DEF Queues

LEMMA PostRenderedQueues ==
    ASSUME TypeOK, Queues, lastAckId <= packetId, NEW p \in Post, PostRendered(p)
    PROVE  Queues' /\ lastAckId' = Acked(p.ack) /\ packetId' = packetId /\ log' = log
<1>1. p.ack \in Nat
  BY DEF Post
<1>2. Unacked(p.ack) = Window(Acked(p.ack), packetId, log)
  BY <1>1, AckedRange
<1>. QED  BY <1>2 DEF PostRendered, Queues, answer

LEMMA DropNone ==
    ASSUME NEW S, NEW s \in Seq(S) PROVE Drop(s, 0) = s
<1>1. /\ Len(s) \in Nat /\ 0 \in 0 .. Len(s)
      /\ s = [i \in 1 .. Len(s) |-> s[i]]
  OBVIOUS
<1>2. Drop(s, 0) \in Seq(S)
  BY <1>1, DropFacts
<1>3. Len(Drop(s, 0)) = Len(s)
  BY <1>1, DropFacts
<1>4. \A i \in 1 .. Len(s) : Drop(s, 0)[i] = s[i]
  BY <1>1, DropFacts
<1>. QED  BY <1>1, <1>2, <1>3, <1>4

LEMMA QueuesInit == Init => Queues /\ Acks
<1>. SUFFICES ASSUME Init PROVE Queues /\ Acks
  OBVIOUS
<1>1. Window(0, 0, <<>>) = <<>> /\ Drop(<<>>, 0) = <<>>
  BY DEF Window, Drop
<1>. QED  BY <1>1 DEF Init, Queues, Acks, NoPost

\* What keeps Acks: the service acknowledges no more than the page has read,
\* and the page's requests say no more.
LEMMA AcksKept ==
    ASSUME TypeOK, Acks, ackId' = ackId, lastPacketId' = lastPacketId,
           packetId' \in Nat, packetId <= packetId', lastAckId' <= ackId,
           late' \subseteq late \cup {ackId},
           latePosts' \subseteq latePosts \cup {posted},
           posted' = posted \/ posted'.ack = 0 \/ posted'.ack = lastPacketId
    PROVE  Acks'
<1>1. /\ ackId \in Nat /\ packetId \in Nat /\ posted.ack <= ackId
      /\ lastPacketId = ackId /\ ackId <= packetId
  BY DEF TypeOK, Acks
<1>2. ackId <= packetId' /\ ackId <= ackId /\ 0 <= ackId
  BY <1>1
<1>3. posted'.ack <= ackId
  BY <1>1, <1>2
<1>4. \A a \in late' : a <= ackId
  BY <1>2 DEF Acks
<1>5. \A p \in latePosts' : p.ack <= ackId
  BY <1>1 DEF Acks
<1>. QED  BY <1>1, <1>2, <1>3, <1>4, <1>5 DEF Acks

LEMMA PushAck ==
    ASSUME TypeOK, NEW name, NEW ack, Push(name, ack)
    PROVE  posted' = posted \/ posted'.ack = ack
BY DEF Push, DoSend

\* Reading frames whose last id is not below what was read.
LEMMA ReadFramesAcks ==
    ASSUME TypeOK, Queues, Acks, NEW frames \in Seq(Frame), ReadFrames(frames),
           NEW last \in Nat,
           last = IF Len(frames) = 0 THEN ackId ELSE frames[Len(frames)].id,
           ackId <= last, last <= packetId, packetId' = packetId,
           lastAckId' = lastAckId, late' \subseteq late \cup {ackId},
           latePosts' = latePosts
    PROVE  ackId' = last /\ Acks'
<1>1. /\ ackId \in Nat /\ packetId \in Nat /\ lastAckId \in Nat
      /\ lastPacketId = ackId /\ lastAckId <= ackId
      /\ late \subseteq Nat /\ latePosts \subseteq Post /\ posted \in Post
  BY DEF TypeOK, Acks
<1>2. ackId' = last /\ lastPacketId' = Larger(lastPacketId, last)
  BY DEF ReadFrames
<1>3. Larger(lastPacketId, last) = last
  BY <1>1 DEF Larger
<1>4. posted' = posted \/ posted'.ack = last
  <2>1. UNCHANGED up \/ Push("ping", Larger(lastPacketId, last))
    BY DEF ReadFrames
  <2>. QED  BY <1>3, <2>1, PushAck DEF up
<1>5. posted'.ack <= last
  <2>1. posted.ack \in Nat /\ posted.ack <= ackId
    BY <1>1 DEF Acks, Post
  <2>. QED  BY <1>1, <1>4, <2>1
<1>6. \A a \in late' : a <= last
  BY <1>1 DEF Acks
<1>7. \A p \in latePosts' : p.ack <= last
  <2>1. \A p \in latePosts : p.ack \in Nat /\ p.ack <= ackId
    BY <1>1 DEF Acks, Post
  <2>. QED  BY <1>1, <2>1
<1>. QED  BY <1>1, <1>2, <1>3, <1>5, <1>6, <1>7 DEF Acks

\* The last id of what the page reads.
LEMMA AnswerLast ==
    ASSUME TypeOK, Acks, BodySent, PollBody, transport = "longpoll",
           NEW last, last = IF Len(body) = 0 THEN ackId ELSE body[Len(body)].id
    PROVE  last \in Nat /\ ackId <= last /\ last <= packetId
<1>1. /\ body \in Seq(Frame) /\ Len(body) \in Nat /\ ackId \in Nat /\ packetId \in Nat
      /\ ackId <= packetId
  BY DEF TypeOK, Acks
<1>2. CASE Len(body) = 0
  BY <1>1, <1>2
<1>3. CASE Len(body) # 0
  <2>1. Len(body) \in DOMAIN body /\ Len(body) \in 1 .. Len(body)
    BY <1>1, <1>3
  <2>2. /\ last = ackId + Len(body) - 1 + Step(body[Len(body)])
        /\ last <= packetId
    BY <1>3, <2>1 DEF PollBody, BodySent
  <2>3. Step(body[Len(body)]) \in {0, 1}
    BY DEF Step
  <2>. QED  BY <1>1, <1>3, <2>1, <2>2, <2>3
<1>. QED  BY <1>2, <1>3

LEMMA FrameNext ==
    ASSUME TypeOK, BodySent, StreamBody, transport = "xhrstream", body # <<>>
    PROVE  /\ Head(body) = body[1] /\ Head(body) \in Frame
           /\ body[1].id \in Nat /\ ackId <= body[1].id /\ body[1].id <= packetId
<1>1. /\ body \in Seq(Frame) /\ 1 \in DOMAIN body /\ body[1] \in Frame
      /\ Head(body) = body[1] /\ ackId \in Nat
  BY DEF TypeOK
<1>2. body[1].id >= ackId /\ body[1].id <= packetId
  BY <1>1 DEF StreamBody, BodySent
<1>3. body[1].id \in Nat
  BY <1>1 DEF Frame
<1>. QED  BY <1>1, <1>2, <1>3

\* The two counters that every step moves as it may.
LEMMA QueuesStep ==
    ASSUME TypeOK, TypeOK', Control, Queues, Acks, BodySent, StreamBody, PollBody,
           [Next]_vars
    PROVE  Queues' /\ Acks'
<1>0. /\ lastAckId \in Nat /\ ackId \in Nat /\ packetId \in Nat /\ packetId' \in Nat
      /\ lastAckId <= packetId /\ lastAckId <= ackId /\ ackId <= packetId
      /\ packetId <= packetId
      /\ late \subseteq Nat /\ latePosts \subseteq Post /\ posted \in Post
  <2>1. packetId' \in Nat
    BY DEF TypeOK
  <2>2. /\ lastAckId \in Nat /\ ackId \in Nat /\ packetId \in Nat
        /\ late \subseteq Nat /\ latePosts \subseteq Post /\ posted \in Post
    BY DEF TypeOK
  <2>3. lastAckId <= ackId /\ ackId <= packetId
    BY DEF Acks
  <2>. QED  BY <2>1, <2>2, <2>3
<1>p. {"opt", "ping", "close"} \subseteq Packet /\ Data \subseteq Packet
  BY DEF Packet
<1>1. ASSUME Create PROVE Queues' /\ Acks'
  <2>1. log = <<>>
    BY <1>1 DEF Create, Control
  <2>2. packetId = 0 /\ lastAckId = 0 /\ cur = "none"
    BY <1>1, <1>0, <2>1 DEF Create, Queues, Control
  <2>3. Queues'
    <3>1. Window(0, 0, <<>>) = Window(0, 0, <<"opt", "opt">>)
      BY DEF Window
    <3>2. Drop(<<"opt", "opt">>, 0) = <<"opt", "opt">>
      <4>1. <<"opt", "opt">> \in Seq(Packet)
        BY <1>p
      <4>. QED  BY <4>1, DropNone
    <3>. QED  BY <1>1, <2>1, <2>2, <3>1, <3>2 DEF Create, Queues
  <2>. QED  BY <1>0, <1>1, <2>3, AcksKept DEF Create, read, network
<1>2. ASSUME Write PROVE Queues' /\ Acks'
  <2>1. \E d \in Data : SendPacket(d)
    BY <1>2 DEF Write, Control
  <2>2. PICK what \in Packet : Grown(what) /\ cur' \in {cur, "none"}
    BY <1>p, <2>1, SendPacketGrown, SendPacketControl
  <2>3. Queues' /\ packetId <= packetId'
    BY <1>0, <2>2, GrownQueues
  <2>4. lastAckId' <= ackId
    BY <1>0, <2>2 DEF Grown
  <2>. QED  BY <1>0, <1>2, <2>3, <2>4, AcksKept DEF Write, read, up, network
<1>3. ASSUME LoseConnection PROVE Queues' /\ Acks'
  <2>1. CloseConn(cur)
    BY <1>3 DEF LoseConnection, Control
  <2>2. PICK what \in Packet : Grown(what) /\ cur' \in {cur, "none"}
    BY <1>p, <2>1, CloseConnGrown
  <2>3. Queues' /\ packetId <= packetId'
    BY <1>0, <2>2, GrownQueues
  <2>4. lastAckId' <= ackId
    BY <1>0, <2>2 DEF Grown
  <2>. QED  BY <1>0, <1>3, <2>3, <2>4, AcksKept DEF LoseConnection, read, up,
               network
<1>4. ASSUME GetArrives PROVE Queues' /\ Acks'
  <2>1. CASE conn = "live"
    <3>1. TransportOpened(ackId, "page")
      BY <1>4, <2>1 DEF GetArrives
    <3>2. /\ Queues' /\ lastAckId' = Acked(ackId) /\ packetId <= packetId'
      BY <1>0, <3>1, TransportOpenedQueues
    <3>3. lastAckId' <= ackId
      BY <1>0, <3>2, AckedRange
    <3>. QED  BY <1>0, <1>4, <3>2, <3>3, AcksKept DEF GetArrives, read, up,
                 network
  <2>2. CASE conn # "live"
    BY <1>0, <1>4, <2>2, AcksKept DEF GetArrives, Queues, queues, read, up,
       network
  <2>. QED  BY <2>1, <2>2
<1>5. ASSUME LateGetArrives PROVE Queues' /\ Acks'
  <2>0. PICK a \in late :
            /\ late' = late \ {a}
            /\ IF conn = "live"
               THEN TransportOpened(a, "stale")
               ELSE UNCHANGED <<conn, opened, queues, cur, timer, toParse, answer>>
    BY <1>5 DEF LateGetArrives
  <2>1. CASE conn = "live"
    <3>1. TransportOpened(a, "stale") /\ a \in Nat /\ a <= ackId
      BY <1>0, <2>0, <2>1 DEF Acks
    <3>2. /\ Queues' /\ lastAckId' = Acked(a) /\ packetId <= packetId'
      BY <1>0, <3>1, TransportOpenedQueues
    <3>3. lastAckId' <= ackId
      BY <1>0, <3>1, <3>2, AckedRange
    <3>. QED  BY <1>0, <1>5, <2>0, <3>2, <3>3, AcksKept DEF LateGetArrives,
                 read, up
  <2>2. CASE conn # "live"
    BY <1>0, <1>5, <2>0, <2>2, AcksKept DEF LateGetArrives, Queues, queues,
       read, up
  <2>. QED  BY <2>1, <2>2
<1>6. ASSUME EmptyAnswer PROVE Queues' /\ Acks'
  BY <1>0, <1>6, AcksKept DEF EmptyAnswer, Queues, queues, read, up, network
<1>7. ASSUME ConnectionAborted PROVE Queues' /\ Acks'
  <2>1. CloseConn("none") /\ cur = "stale"
    BY <1>7 DEF ConnectionAborted, Control
  <2>2. PICK what \in Packet : Grown(what) /\ cur' \in {cur, "none"}
    BY <1>p, <2>1, CloseConnGrown
  <2>3. Queues' /\ packetId <= packetId'
    BY <1>0, <2>2, GrownQueues
  <2>4. lastAckId' <= ackId
    BY <1>0, <2>2 DEF Grown
  <2>. QED  BY <1>0, <1>7, <2>3, <2>4, AcksKept DEF ConnectionAborted, read, up,
               network
<1>8. ASSUME SendPing PROVE Queues' /\ Acks'
  <2>1. SendPacket("ping")
    BY <1>8 DEF SendPing, Control
  <2>2. PICK what \in Packet : Grown(what) /\ cur' \in {cur, "none"}
    BY <1>p, <2>1, SendPacketGrown, SendPacketControl
  <2>3. Queues' /\ packetId <= packetId'
    BY <1>0, <2>2, GrownQueues
  <2>4. lastAckId' <= ackId
    BY <1>0, <2>2 DEF Grown
  <2>. QED  BY <1>0, <1>8, <2>3, <2>4, AcksKept DEF SendPing, read, up, network
<1>9. ASSUME Timeout PROVE Queues' /\ Acks'
  <2>1. CloseConn(cur)
    BY <1>9 DEF Timeout, Control
  <2>2. PICK what \in Packet : Grown(what) /\ cur' \in {cur, "none"}
    BY <1>p, <2>1, CloseConnGrown
  <2>3. Queues' /\ packetId <= packetId'
    BY <1>0, <2>2, GrownQueues
  <2>4. lastAckId' <= ackId
    BY <1>0, <2>2 DEF Grown
  <2>. QED  BY <1>0, <1>9, <2>3, <2>4, AcksKept DEF Timeout, read, up, network
<1>10. ASSUME PostArrives PROVE Queues' /\ Acks'
  <2>1. CASE conn = "live"
    <3>1. PostRendered(posted) /\ posted \in Post /\ posted.ack \in Nat /\ posted.ack <= ackId
      BY <1>0, <1>10, <2>1 DEF PostArrives, Acks, Post
    <3>2. Queues' /\ lastAckId' = Acked(posted.ack) /\ packetId' = packetId
      BY <1>0, <3>1, PostRenderedQueues
    <3>3. lastAckId' <= ackId
      BY <1>0, <3>1, <3>2, AckedRange
    <3>. QED  BY <1>0, <1>10, <3>2, <3>3, AcksKept DEF PostArrives, read, up,
                 network
  <2>2. CASE conn # "live"
    BY <1>0, <1>10, <2>2, AcksKept DEF PostArrives, Queues, queues, read, up,
       network
  <2>. QED  BY <2>1, <2>2
<1>11. ASSUME LatePostArrives PROVE Queues' /\ Acks'
  <2>0. PICK p \in latePosts :
            /\ latePosts' = latePosts \ {p}
            /\ IF conn = "live" THEN PostRendered(p)
               ELSE UNCHANGED <<conn, opened, queues, cur, timer, toParse, answer>>
    BY <1>11 DEF LatePostArrives
  <2>1. CASE conn = "live"
    <3>1. PostRendered(p) /\ p \in Post /\ p.ack \in Nat /\ p.ack <= ackId
      BY <1>0, <2>0, <2>1 DEF LatePostArrives, Acks, Post
    <3>2. Queues' /\ lastAckId' = Acked(p.ack) /\ packetId' = packetId
      BY <1>0, <3>1, PostRenderedQueues
    <3>3. lastAckId' <= ackId
      BY <1>0, <3>1, <3>2, AckedRange
    <3>. QED  BY <1>0, <1>11, <2>0, <3>2, <3>3, AcksKept DEF LatePostArrives,
                 read, up, network
  <2>2. CASE conn # "live"
    BY <1>0, <1>11, <2>0, <2>2, AcksKept DEF LatePostArrives, Queues, queues,
       read, up
  <2>. QED  BY <2>1, <2>2
<1>12. ASSUME ParseData PROVE Queues' /\ Acks'
  <2>1. CASE CloseConn(cur)
    <3>1. Grown("close") /\ cur' \in {cur, "none"}
      BY <2>1, CloseConnGrown
    <3>2. Queues' /\ packetId <= packetId'
      BY <1>0, <1>p, <3>1, GrownQueues
    <3>3. lastAckId' <= ackId
      BY <1>0, <3>1 DEF Grown
    <3>. QED  BY <1>0, <1>12, <3>2, <3>3, AcksKept DEF ParseData, read, up,
                 network
  <2>2. CASE UNCHANGED <<conn, queues, cur, timer, answer>>
    BY <1>0, <1>12, <2>2, AcksKept DEF ParseData, Queues, queues, read, up,
       network
  <2>. QED  BY <1>12, <2>1, <2>2 DEF ParseData
<1>13. ASSUME OpenSession PROVE Queues' /\ Acks'
  BY <1>0, <1>13, AcksKept DEF OpenSession, Queues, queues, read, up, network,
     NoPost
<1>14. ASSUME KeyAnswered PROVE Queues' /\ Acks'
  BY <1>0, <1>14, AcksKept DEF KeyAnswered, Queues, queues, read, up, network,
     NoPost
<1>15. ASSUME KeyFails PROVE Queues' /\ Acks'
  BY <1>0, <1>15, AcksKept DEF KeyFails, Queues, queues, read, up, network,
     NoPost
<1>16. ASSUME Send PROVE Queues' /\ Acks'
  <2>1. posted' = posted \/ posted'.ack = lastPacketId
    BY <1>16, PushAck DEF Send
  <2>. QED  BY <1>0, <1>16, <2>1, AcksKept DEF Send, Queues, queues, read,
               network
<1>17. ASSUME Close PROVE Queues' /\ Acks'
  <2>1. posted' = posted \/ posted'.ack = lastPacketId
    BY <1>17, PushAck DEF Close
  <2>. QED  BY <1>0, <1>17, <2>1, AcksKept DEF Close, Queues, queues, read,
               network
<1>18. ASSUME TimedOut PROVE Queues' /\ Acks'
  <2>1. GiveUpGet
    BY <1>18 DEF TimedOut, DoClose
  <2>2. cur' # "none" => cur # "none"
    BY <2>1, GiveUpGetControl
  <2>3. late' \subseteq late \cup {ackId}
    BY <2>1 DEF GiveUpGet
  <2>. QED  BY <1>0, <1>18, <2>2, <2>3, AcksKept DEF TimedOut, DoClose, Queues,
               queues, read, up
<1>19. ASSUME PageLeaves PROVE Queues' /\ Acks'
  <2>1. GiveUpGet
    BY <1>19 DEF PageLeaves, DoClose
  <2>2. cur' # "none" => cur # "none"
    BY <2>1, GiveUpGetControl
  <2>3. late' \subseteq late \cup {ackId}
    BY <2>1 DEF GiveUpGet
  <2>. QED  BY <1>0, <1>19, <2>2, <2>3, AcksKept DEF PageLeaves, DoClose,
               Queues, queues, read, NoPost
<1>20. ASSUME GetOpens PROVE Queues' /\ Acks'
  BY <1>0, <1>20, AcksKept DEF GetOpens, Queues, queues, read, up, network,
     NoPost
<1>21. ASSUME ReadAnswer PROVE Queues' /\ Acks'
  <2>. DEFINE last == IF Len(body) = 0 THEN ackId ELSE body[Len(body)].id
  <2>1. /\ ReadFrames(body) /\ body \in Seq(Frame) /\ transport = "longpoll"
        /\ packetId' = packetId /\ lastAckId' = lastAckId
        /\ late' = late /\ latePosts' = latePosts
    BY <1>21 DEF ReadAnswer, TypeOK, queues, network
  <2>2. last \in Nat /\ ackId <= last /\ last <= packetId
    BY <2>1, AnswerLast
  <2>3. Acks'
    BY <2>1, <2>2, ReadFramesAcks
  <2>. QED  BY <1>21, <2>3 DEF ReadAnswer, Queues, queues
<1>22. ASSUME ReadFrame PROVE Queues' /\ Acks'
  <2>. DEFINE frames == <<Head(body)>>
              last   == body[1].id
  <2>1. /\ ReadFrames(frames) /\ transport = "xhrstream" /\ body # <<>>
        /\ packetId' = packetId /\ lastAckId' = lastAckId /\ log' = log
        /\ unackQueue' = unackQueue /\ msgQueue' = msgQueue /\ latePosts' = latePosts
    BY <1>22 DEF ReadFrame, queues
  <2>2. /\ Head(body) = body[1] /\ Head(body) \in Frame
        /\ last \in Nat /\ ackId <= last /\ last <= packetId
    BY <2>1, FrameNext
  <2>3. /\ frames \in Seq(Frame)
        /\ last = IF Len(frames) = 0 THEN ackId ELSE frames[Len(frames)].id
    BY <2>2
  <2>4. late' \subseteq late \cup {ackId} /\ (cur' # "none" => cur # "none")
    BY <1>22, GiveUpGetControl DEF ReadFrame, GiveUpGet
  <2>. HIDE DEF frames, last
  <2>5. Acks'
    BY <2>1, <2>2, <2>3, <2>4, ReadFramesAcks
  <2>. QED  BY <2>1, <2>4, <2>5 DEF Queues
<1>23. ASSUME MissFrame PROVE Queues' /\ Acks'
  BY <1>0, <1>23, AcksKept DEF MissFrame, Queues, queues, read, up, network,
     NoPost
<1>24. ASSUME ReadPart PROVE Queues' /\ Acks'
  BY <1>0, <1>24, AcksKept DEF ReadPart, Queues, queues, read, up, network,
     NoPost
<1>25. ASSUME ReadEnd PROVE Queues' /\ Acks'
  BY <1>0, <1>25, AcksKept DEF ReadEnd, Queues, queues, read, up, network,
     NoPost
<1>26. ASSUME GetFails PROVE Queues' /\ Acks'
  <2>1. GiveUpGet
    BY <1>26 DEF GetFails, DoClose
  <2>2. cur' # "none" => cur # "none"
    BY <2>1, GiveUpGetControl
  <2>3. late' \subseteq late \cup {ackId}
    BY <2>1 DEF GiveUpGet
  <2>. QED  BY <1>0, <1>26, <2>2, <2>3, AcksKept DEF GetFails, DoClose, Queues,
               queues, read, up
<1>27. ASSUME GetMissing PROVE Queues' /\ Acks'
  <2>1. GiveUpGet
    BY <1>27 DEF GetMissing, DoClose
  <2>2. cur' # "none" => cur # "none"
    BY <2>1, GiveUpGetControl
  <2>3. late' \subseteq late \cup {ackId}
    BY <2>1 DEF GiveUpGet
  <2>. QED  BY <1>0, <1>27, <2>2, <2>3, AcksKept DEF GetMissing, DoClose,
               Queues, queues, read, up
<1>28. ASSUME PostAnswered PROVE Queues' /\ Acks'
  BY <1>0, <1>28, AcksKept DEF PostAnswered, Queues, queues, read, up, network,
     NoPost
<1>29. ASSUME PostFails PROVE Queues' /\ Acks'
  BY <1>0, <1>29, AcksKept DEF PostFails, Queues, queues, read, up, network,
     NoPost
<1>30. ASSUME Retry PROVE Queues' /\ Acks'
  <2>1. CASE DoClose("CLOSED") /\ posted' = NoPost
    <3>1. GiveUpGet
      BY <2>1 DEF DoClose
    <3>2. cur' # "none" => cur # "none"
      BY <3>1, GiveUpGetControl
    <3>3. late' \subseteq late \cup {ackId}
      BY <3>1 DEF GiveUpGet
    <3>. QED  BY <1>0, <1>30, <2>1, <3>2, <3>3, AcksKept DEF Retry, Queues,
                 queues, read, NoPost
  <2>2. CASE /\ posted' = [ack |-> lastPacketId, frames |-> sendQueue]
             /\ UNCHANGED <<answer, page, cur, late>>
    BY <1>0, <1>30, <2>2, AcksKept DEF Retry, Queues, queues, read
  <2>. QED  BY <1>30, <2>1, <2>2 DEF Retry
<1>31. ASSUME UNCHANGED vars PROVE Queues' /\ Acks'
  BY <1>0, <1>31, AcksKept DEF vars, Queues, queues, read, up, network
<1>. QED
  BY <1>1, <1>2, <1>3, <1>4, <1>5, <1>6, <1>7, <1>8, <1>9, <1>10, <1>11, <1>12,
     <1>13, <1>14, <1>15, <1>16, <1>17, <1>18, <1>19, <1>20, <1>21, <1>22,
     <1>23, <1>24, <1>25, <1>26, <1>27, <1>28, <1>29, <1>30, <1>31 DEF Next,
     Service, Page

-----------------------------------------------------------------------------
(* What is written to the GET of the page *)

LogKept == log' = log \/ \E what \in Packet : log' = Append(log, what)

LEMMA LogFacts ==
    ASSUME TypeOK, LogKept
    PROVE  /\ Len(log) \in Nat /\ Len(log') \in Nat /\ Len(log) <= Len(log')
           /\ \A i \in 1 .. Len(log) : log'[i] = log[i] /\ i \in 1 .. Len(log')
<1>1. log \in Seq(Packet) /\ Len(log) \in Nat
  BY DEF TypeOK
<1>2. CASE log' = log
  BY <1>1, <1>2
<1>3. CASE \E what \in Packet : log' = Append(log, what)
  <2>1. PICK what \in Packet : log' = Append(log, what)
    BY <1>3
  <2>2. Len(log') = Len(log) + 1 /\ \A i \in 1 .. Len(log) : log'[i] = log[i]
    BY <1>1, <2>1
  <2>. QED  BY <1>1, <2>2
<1>. QED  BY <1>2, <1>3 DEF LogKept

\* Nothing is written or read, and no GET is taken over.
LEMMA BodyKept ==
    ASSUME TypeOK, Body, body' = body, transport' = transport, torn' = torn,
           ackId' = ackId, part' = part \/ ~part' \/ transport = "xhrstream",
           packetId' \in Nat, packetId <= packetId', LogKept,
           get' = "held" => get = "held" /\ packetId' = packetId
    PROVE  Body'
<1>0. packetId \in Nat /\ body \in Seq(Frame)
  BY DEF TypeOK
<1>1. \A i \in DOMAIN body : body[i].id \in Nat
  <2>1. \A i \in DOMAIN body : body[i] \in Frame
    BY <1>0
  <2>. QED  BY <2>1 DEF Frame
<1>2. BodySent'
  <2>1. SUFFICES ASSUME NEW i \in DOMAIN body
                 PROVE  /\ body[i].id <= packetId'
                        /\ body[i].what # "open" =>
                                /\ body[i].id \in 1 .. Len(log')
                                /\ body[i].what = log'[body[i].id]
    BY DEF BodySent
  <2>2. body[i].id <= packetId'
    BY <1>0, <1>1 DEF Body, BodySent
  <2>3. ASSUME body[i].what # "open"
        PROVE  body[i].id \in 1 .. Len(log') /\ body[i].what = log'[body[i].id]
    BY <2>3, LogFacts DEF Body, BodySent
  <2>. QED  BY <2>2, <2>3
<1>3. StreamBody'
  BY DEF Body, StreamBody, Step
<1>4. PollBody'
  BY DEF Body, PollBody, Step
<1>. QED  BY <1>2, <1>3, <1>4 DEF Body

\* The page has given its GET up, or read it to the end.
LEMMA BodyEmpty ==
    ASSUME body' = <<>>, get' # "held", transport' = transport,
           transport = "longpoll" => ~torn' /\ ~part'
    PROVE  Body'
<1>1. BodySent'
  BY DEF BodySent
<1>2. StreamBody'
  BY DEF StreamBody
<1>3. PollBody'
  BY DEF PollBody
<1>. QED  BY <1>1, <1>2, <1>3 DEF Body

LEMMA GrownBody ==
    ASSUME TypeOK, Queues, Acks, Body, NEW what \in Packet, Grown(what),
           ackId' = ackId, transport' = transport, cur' \in {cur, "none"}
    PROVE  Body'
<1>. DEFINE frame == [id |-> packetId + 1, what |-> what]
            m     == Len(body)
<1>1. /\ packetId \in Nat /\ ackId \in Nat /\ ackId <= packetId
      /\ body \in Seq(Frame) /\ m \in Nat /\ Len(log) \in Nat
  BY DEF TypeOK, Acks
<1>2. torn' = torn /\ part' = part /\ log' = Append(log, what) /\ LogKept
  BY DEF Grown, LogKept
<1>3. CASE body' = body /\ get' = get /\ get # "held"
  <2>1. packetId' \in Nat /\ packetId <= packetId'
    BY <1>1 DEF Grown
  <2>. QED  BY <1>2, <1>3, <2>1, BodyKept
<1>4. CASE /\ packetId' = packetId + 1 /\ cur # "none"
           /\ get = "held" /\ body' = Append(body, frame)
           /\ transport = "longpoll" => get' = "done"
  <2>1. packetId = Len(log)
    <3>1. Drop(log, packetId) = <<>>
      BY <1>4 DEF Queues
    <3>2. log \in Seq(Packet) /\ packetId <= Len(log)
      BY DEF TypeOK, Queues
    <3>3. Len(Drop(log, packetId)) = Len(log) - packetId
      BY <1>1, <3>2, DropFacts
    <3>. QED  BY <1>1, <3>1, <3>3
  <2>2. frame \in Frame /\ frame.id = packetId + 1 /\ frame.what = what
    BY <1>1 DEF Frame
  <2>3. what # "open"
    BY DataAssumption DEF Packet
  <2>. HIDE DEF frame
  <2>4. /\ Len(body') = m + 1 /\ DOMAIN body' = 1 .. m + 1
        /\ \A i \in 1 .. m : body'[i] = body[i] /\ i \in DOMAIN body
        /\ body'[m + 1] = frame
    BY <1>1, <1>4, <2>2
  <2>5. log'[Len(log) + 1] = what /\ Len(log') = Len(log) + 1
    BY <1>1, <1>2 DEF TypeOK
  <2>6. BodySent'
    <3>1. ASSUME NEW i \in 1 .. m
          PROVE  /\ body'[i].id <= packetId'
                 /\ body'[i].what # "open" =>
                        /\ body'[i].id \in 1 .. Len(log')
                        /\ body'[i].what = log'[body'[i].id]
      <4>1. body'[i] = body[i] /\ i \in DOMAIN body
        BY <2>4
      <4>2. body[i].id \in Nat
        <5>1. body[i] \in Frame
          BY <1>1, <4>1
        <5>. QED  BY <5>1 DEF Frame
      <4>3. body'[i].id <= packetId'
        BY <1>1, <1>4, <4>1, <4>2 DEF Body, BodySent
      <4>4. ASSUME body[i].what # "open"
            PROVE  body[i].id \in 1 .. Len(log') /\ body[i].what = log'[body[i].id]
        BY <1>2, <4>1, <4>4, LogFacts DEF Body, BodySent
      <4>. QED  BY <4>1, <4>3, <4>4
    <3>2. /\ body'[m + 1].id <= packetId'
          /\ body'[m + 1].id \in 1 .. Len(log')
          /\ body'[m + 1].what = log'[body'[m + 1].id]
      BY <1>1, <1>4, <2>1, <2>2, <2>4, <2>5
    <3>3. \A i \in 1 .. m + 1 : i \in 1 .. m \/ i = m + 1
      BY <1>1
    <3>. QED  BY <2>4, <3>1, <3>2, <3>3 DEF BodySent
  <2>7. Step(frame) = 1
    BY <2>2, <2>3 DEF Step
  <2>8. StreamBody'
    <3>1. SUFFICES ASSUME transport = "xhrstream" PROVE StreamBody'
      BY DEF StreamBody
    <3>2. \A i \in 2 .. m + 1 : body'[i].id = body'[i - 1].id + Step(body'[i])
      <4>1. ASSUME NEW i \in 2 .. m
            PROVE  body'[i].id = body'[i - 1].id + Step(body'[i])
        BY <1>1, <2>4, <3>1 DEF Body, StreamBody
      <4>2. ASSUME m # 0 PROVE body'[m + 1].id = body'[m].id + Step(body'[m + 1])
        <5>1. body[m].id = packetId
          BY <1>1, <1>4, <3>1, <4>2 DEF Body, StreamBody
        <5>. QED  BY <1>1, <2>2, <2>4, <2>7, <4>2, <5>1
      <4>3. \A i \in 2 .. m + 1 : i \in 2 .. m \/ (i = m + 1 /\ m # 0 /\ i - 1 = m)
        BY <1>1
      <4>. QED  BY <4>1, <4>2, <4>3
    <3>3. /\ body'[1].id >= ackId'
          /\ ~torn' => body'[1].id = ackId' + Step(body'[1])
      <4>1. CASE m = 0
        <5>1. body = <<>> /\ body'[1] = frame
          BY <1>1, <2>4, <4>1
        <5>2. ~torn => ackId = packetId
          BY <1>4, <3>1, <5>1 DEF Body, StreamBody
        <5>. QED  BY <1>1, <1>2, <2>2, <2>7, <5>1, <5>2
      <4>2. CASE m # 0
        <5>1. body # <<>> /\ body'[1] = body[1]
          BY <1>1, <2>4, <4>2
        <5>. QED  BY <1>2, <3>1, <5>1 DEF Body, StreamBody
      <4>. QED  BY <4>1, <4>2
    <3>4. body' # <<>> /\ body'[Len(body')].id = packetId'
      BY <1>1, <1>4, <2>2, <2>4
    <3>. QED  BY <2>4, <3>2, <3>3, <3>4 DEF StreamBody
  <2>9. PollBody'
    <3>1. SUFFICES ASSUME transport = "longpoll" PROVE PollBody'
      BY DEF PollBody
    <3>2. body = <<>> /\ ackId = packetId /\ ~torn /\ ~part /\ get' = "done"
      BY <1>4, <3>1 DEF Body, PollBody
    <3>3. DOMAIN body' = {1} /\ Len(body') = 1 /\ body'[1] = frame
      BY <2>4, <3>2
    <3>. QED  BY <1>1, <1>2, <2>2, <2>3, <2>7, <3>2, <3>3 DEF PollBody
  <2>. QED  BY <2>6, <2>8, <2>9 DEF Body
<1>. QED  BY <1>3, <1>4 DEF Grown

\* The GET of the page gets all that is not acknowledged.
LEMMA OpenedBody ==
    ASSUME TypeOK, Control, Queues, Acks, Body, get = "sent",
           TransportOpened(ackId, "page"), ackId' = ackId, transport' = transport
    PROVE  Body'
<1>. DEFINE n == Len(log)
            w == Window(ackId, n, log)
            m == n - ackId
<1>1. /\ log \in Seq(Packet) /\ n \in Nat /\ ackId \in Nat /\ packetId \in Nat
      /\ lastAckId <= ackId /\ ackId <= packetId /\ packetId <= n /\ ackId <= n
      /\ lastAckId \in Nat /\ lastAckId <= packetId /\ n <= n
  <2>1. /\ log \in Seq(Packet) /\ n \in Nat /\ ackId \in Nat /\ packetId \in Nat
        /\ lastAckId \in Nat
    BY DEF TypeOK
  <2>. QED  BY <2>1 DEF Acks, Queues
<1>2. Acked(ackId) = ackId
  BY <1>1, AckedRange
<1>3. /\ log' = log /\ packetId' = n
      /\ Unacked(ackId) \o Numbered = w
      /\ packetId + Len(msgQueue) = n
  BY <1>1, <1>2, TransportOpenedQueues
<1>4. /\ w \in Seq([id : Nat, what : Packet]) /\ Len(w) = m
      /\ \A i \in 1 .. m : w[i] = [id |-> ackId + i, what |-> log[ackId + i]]
  <2>1. n <= Len(log)
    BY <1>1
  <2>. HIDE DEF n
  <2>2. w \in Seq([id : Nat, what : Packet])
    BY <1>1, <2>1, WindowFacts
  <2>3. Len(w) = m
    BY <1>1, <2>1, WindowFacts
  <2>4. \A i \in 1 .. n - ackId :
            w[i] = [id |-> ackId + i, what |-> log[ackId + i]]
    BY DEF Window
  <2>. QED  BY <2>2, <2>3, <2>4
<1>5. /\ torn' = torn /\ part' = part
      /\ WriteTo("page", Unacked(ackId) \o Numbered \o First)
  BY DEF TransportOpened, Numbered, First
<1>6. First = <<>> \/ First = <<[id |-> n, what |-> "open"]>>
  BY <1>3 DEF First
<1>. HIDE DEF w, n
<1>. DEFINE all == w \o First
            k   == Len(First)
<1>7. body' = all /\ get' \in {"held", "done"}
      /\ (transport = "longpoll" /\ all # <<>> => get' = "done")
  <2>1. body = <<>>
    BY DEF Control
  <2>2. WriteTo("page", all)
    BY <1>3, <1>5
  <2>3. all \in Seq(Frame)
    <3>1. First \in Seq(Frame)
      BY NumberedTyped
    <3>2. w \in Seq(Frame)
      <4>1. [id : Nat, what : Packet] \subseteq Frame
        BY DEF Frame
      <4>. QED  BY <1>4, <4>1, SeqMonotonic
    <3>. QED  BY <3>1, <3>2
  <2>4. body \o all = all
    BY <2>1, <2>3
  <2>. QED  BY <2>2, <2>4 DEF WriteTo
<1>8. /\ Len(all) = m + k /\ k \in {0, 1} /\ m \in Nat
      /\ \A i \in 1 .. m : all[i] = w[i]
      /\ k = 1 => all[m + 1] = [id |-> n, what |-> "open"]
      /\ DOMAIN all = 1 .. m + k
  <2>1. m \in Nat /\ k \in {0, 1}
    BY <1>1, <1>6
  <2>2. w \in Seq([id : Nat, what : Packet]) /\ Len(w) = m
    BY <1>4
  <2>3. CASE First = <<>>
    BY <2>1, <2>2, <2>3
  <2>4. CASE First = <<[id |-> n, what |-> "open"]>>
    <3>1. k = 1 /\ First[1] = [id |-> n, what |-> "open"]
      BY <2>4
    <3>2. /\ Len(all) = m + 1 /\ DOMAIN all = 1 .. m + 1
          /\ \A i \in 1 .. m : all[i] = w[i]
          /\ all[m + 1] = First[1]
      BY <2>1, <2>2, <2>4
    <3>. QED  BY <2>1, <3>1, <3>2
  <2>. QED  BY <1>6, <2>3, <2>4
<1>9. \A i \in 1 .. m : /\ ackId + i \in 1 .. n /\ log[ackId + i] \in Packet
                        /\ log[ackId + i] # "open"
  <2>1. \A x \in Packet : x # "open"
    BY DataAssumption DEF Packet
  <2>2. \A i \in 1 .. m : ackId + i \in 1 .. n
    BY <1>1
  <2>3. \A j \in 1 .. n : log[j] \in Packet
    BY <1>1 DEF n
  <2>. QED  BY <2>1, <2>2, <2>3
<1>10. /\ \A i \in 1 .. m : /\ all[i].id = ackId + i /\ all[i].what = log[ackId + i]
                            /\ Step(all[i]) = 1 /\ all[i].what # "open"
       /\ k = 1 => all[m + 1].id = n /\ all[m + 1].what = "open" /\ Step(all[m + 1]) = 0
       /\ \A i \in 1 .. m + k : i \in 1 .. m \/ (i = m + 1 /\ k = 1)
  <2>. HIDE DEF all, k
  <2>1. \A i \in 1 .. m : /\ all[i].id = ackId + i /\ all[i].what = log[ackId + i]
                           /\ all[i].what # "open"
    BY <1>4, <1>8, <1>9
  <2>2. \A i \in 1 .. m : Step(all[i]) = 1
    BY <2>1 DEF Step
  <2>3. k = 1 => /\ all[m + 1].id = n /\ all[m + 1].what = "open"
                 /\ Step(all[m + 1]) = 0
    BY <1>8 DEF Step
  <2>4. \A i \in 1 .. m + k : i \in 1 .. m \/ (i = m + 1 /\ k = 1)
    BY <1>8
  <2>. QED  BY <2>1, <2>2, <2>3, <2>4
<1>. HIDE DEF all, k
<1>11. \A i \in 1 .. m + k : all[i].id = ackId + i - 1 + Step(all[i]) /\ all[i].id <= n
  <2>1. m = n - ackId
    OBVIOUS
  <2>. HIDE DEF m
  <2>2. ASSUME NEW i \in 1 .. m
        PROVE  all[i].id = ackId + i - 1 + Step(all[i]) /\ all[i].id <= n
    <3>1. all[i].id = ackId + i /\ Step(all[i]) = 1
      BY <1>10
    <3>. QED  BY <1>1, <1>8, <2>1, <3>1
  <2>3. ASSUME k = 1
        PROVE  /\ all[m + 1].id = ackId + (m + 1) - 1 + Step(all[m + 1])
               /\ all[m + 1].id <= n
    <3>1. all[m + 1].id = n /\ Step(all[m + 1]) = 0
      BY <1>10, <2>3
    <3>. QED  BY <1>1, <1>8, <2>1, <3>1
  <2>. QED  BY <1>10, <2>2, <2>3
<1>12. BodySent'
  BY <1>3, <1>7, <1>8, <1>9, <1>10, <1>11 DEF BodySent, n
<1>13. StreamBody'
  <2>1. \A i \in 2 .. m + k : all[i].id = all[i - 1].id + Step(all[i])
    <3>1. ASSUME NEW i \in 2 .. m + k PROVE all[i].id = all[i - 1].id + Step(all[i])
      <4>1. i - 1 \in 1 .. m /\ i \in 1 .. m + k
        BY <1>8
      <4>2. all[i - 1].id = ackId + (i - 1) /\ all[i].id = ackId + i - 1 + Step(all[i])
        BY <1>10, <1>11, <4>1
      <4>3. Step(all[i]) \in {0, 1}
        BY DEF Step
      <4>. QED  BY <1>1, <1>8, <4>1, <4>2, <4>3
    <3>. QED  BY <3>1
  <2>2. CASE m + k = 0
    <3>1. Len(all) = 0 /\ all = <<>> /\ n = ackId
      BY <1>1, <1>8, <2>2 DEF all
    <3>. QED  BY <1>1, <1>3, <1>7, <3>1 DEF StreamBody
  <2>3. CASE m + k # 0
    <3>1. all # <<>> /\ 1 \in 1 .. m + k /\ m + k \in 1 .. m + k
      BY <1>8, <2>3
    <3>2. all[1].id = ackId + Step(all[1]) /\ Step(all[1]) \in {0, 1}
      <4>1. Step(all[1]) \in {0, 1}
        BY DEF Step
      <4>2. all[1].id = ackId + 1 - 1 + Step(all[1])
        BY <1>11, <3>1
      <4>. QED  BY <1>1, <4>1, <4>2
    <3>3. all[m + k].id = n
      <4>1. CASE k = 1
        BY <1>8, <1>10, <4>1
      <4>2. CASE k = 0
        BY <1>1, <1>8, <1>10, <2>3, <4>2
      <4>. QED  BY <1>8, <4>1, <4>2
    <3>. QED  BY <1>1, <1>3, <1>5, <1>7, <1>8, <2>1, <3>1, <3>2, <3>3 DEF StreamBody
  <2>. QED  BY <2>2, <2>3
<1>14. PollBody'
  <2>1. \A i \in 1 .. m + k : all[i].what = "open" => i = m + k
    BY <1>8, <1>10
  <2>2. all = <<>> => n = ackId
    BY <1>1, <1>8
  <2>. QED  BY <1>3, <1>5, <1>7, <1>8, <1>11, <2>1, <2>2 DEF Body, PollBody
<1>. QED  BY <1>12, <1>13, <1>14 DEF Body

\* A GET that the page has given up finishes the one that is held.
LEMMA OpenedStaleBody ==
    ASSUME TypeOK, Control, Queues, lastAckId <= packetId, Body, NEW a \in Nat,
           TransportOpened(a, "stale"), ackId' = ackId, transport' = transport
    PROVE  Body'
<1>1. log' = log /\ packetId <= packetId' /\ packetId' = Len(log)
  BY TransportOpenedQueues
<1>2. Len(log) \in Nat
  BY DEF TypeOK
<1>3. /\ body' = body /\ torn' = torn /\ part' = part
      /\ get' = IF cur = "page" THEN "done" ELSE get
  BY DEF TransportOpened, FinishCurrent
<1>4. get' # "held"
  BY <1>3 DEF Control
<1>. QED  BY <1>1, <1>2, <1>3, <1>4, BodyKept DEF LogKept

\* XHRStream takes the first frame off.
LEMMA TailBody ==
    ASSUME TypeOK, Acks, Body, transport = "xhrstream", body # <<>>, body' = Tail(body),
           transport' = transport, torn' = torn, get' = get,
           packetId' = packetId, log' = log,
           ackId' = body[1].id \/ (ackId' = ackId /\ torn)
    PROVE  Body'
<1>. DEFINE m == Len(body)
            t == Tail(body)
<1>1. /\ body \in Seq(Frame) /\ m \in Nat /\ m # 0
      /\ ackId \in Nat /\ packetId \in Nat
      /\ Len(t) = m - 1 /\ \A i \in 1 .. m - 1 : t[i] = body[i + 1]
      /\ DOMAIN t = 1 .. m - 1 /\ t \in Seq(Frame)
  BY DEF TypeOK
<1>2. \A i \in 1 .. m : body[i].id \in Nat
  <2>1. \A i \in 1 .. m : body[i] \in Frame
    BY <1>1
  <2>. QED  BY <2>1 DEF Frame
<1>3. /\ \A i \in 2 .. m : body[i].id = body[i - 1].id + Step(body[i])
      /\ body[1].id >= ackId
      /\ ~torn => body[1].id = ackId + Step(body[1])
      /\ get = "held" => body[m].id = packetId
  BY DEF Body, StreamBody
<1>. HIDE DEF t
<1>4. BodySent'
  <2>1. \A i \in 1 .. m - 1 : i + 1 \in DOMAIN body /\ t[i] = body[i + 1]
    BY <1>1
  <2>. QED  BY <1>1, <2>1 DEF Body, BodySent, t
<1>5. PollBody'
  BY DEF PollBody
<1>6. CASE m = 1
  <2>1. t = <<>>
    BY <1>1, <1>6
  <2>2. get = "held" /\ ~torn => ackId' = packetId
    BY <1>3, <1>6
  <2>3. StreamBody'
    BY <2>1, <2>2 DEF StreamBody, t
  <2>. QED  BY <1>4, <1>5, <2>3 DEF Body
<1>7. CASE m # 1
  <2>1. /\ t # <<>> /\ t[1] = body[2] /\ t[m - 1] = body[m]
        /\ 2 \in 2 .. m /\ 1 \in 1 .. m
    BY <1>1, <1>7
  <2>2. body[2].id = body[1].id + Step(body[2]) /\ Step(body[2]) \in {0, 1}
    BY <1>3, <2>1 DEF Step
  <2>3. /\ t[1].id >= ackId'
        /\ ~torn => t[1].id = ackId' + Step(t[1])
    BY <1>1, <1>2, <1>3, <2>1, <2>2
  <2>4. \A i \in 2 .. m - 1 : t[i].id = t[i - 1].id + Step(t[i])
    <3>1. ASSUME NEW i \in 2 .. m - 1 PROVE t[i].id = t[i - 1].id + Step(t[i])
      <4>1. /\ i \in 1 .. m - 1 /\ i - 1 \in 1 .. m - 1 /\ i + 1 \in 2 .. m
            /\ (i - 1) + 1 = i /\ (i + 1) - 1 = i
        BY <1>1
      <4>2. t[i] = body[i + 1] /\ t[i - 1] = body[i]
        BY <1>1, <4>1
      <4>. QED  BY <1>3, <4>1, <4>2
    <3>. QED  BY <3>1
  <2>5. StreamBody'
    BY <1>1, <1>3, <2>1, <2>3, <2>4 DEF StreamBody, t
  <2>. QED  BY <1>4, <1>5, <2>5 DEF Body
<1>. QED  BY <1>6, <1>7

-----------------------------------------------------------------------------
(* What the page has read *)

LEMMA SubSeqJoin ==
    ASSUME NEW S, NEW l \in Seq(S), NEW a \in Nat, NEW k \in Nat, a + k <= Len(l),
           NEW s \in Seq(S), Len(s) = k, \A i \in 1 .. k : s[i] = l[a + i]
    PROVE  SubSeq(l, 1, a) \o s = SubSeq(l, 1, a + k)
<1>. DEFINE u == SubSeq(l, 1, a)
            v == SubSeq(l, 1, a + k)
            w == u \o s
<1>1. a <= Len(l) /\ Len(l) \in Nat /\ a + k \in Nat
  OBVIOUS
<1>2. u \in Seq(S) /\ Len(u) = a /\ \A i \in 1 .. a : u[i] = l[i]
  BY <1>1
<1>3. v \in Seq(S) /\ Len(v) = a + k /\ \A i \in 1 .. a + k : v[i] = l[i]
  BY <1>1
<1>. HIDE DEF u, v
<1>4. /\ w \in Seq(S) /\ Len(w) = a + k
      /\ \A i \in 1 .. a : w[i] = u[i]
      /\ \A i \in a + 1 .. a + k : w[i] = s[i - a]
  BY <1>2
<1>5. ASSUME NEW i \in 1 .. a + k PROVE w[i] = v[i]
  <2>1. CASE i \in 1 .. a
    BY <1>2, <1>3, <1>4, <2>1
  <2>2. CASE i \in a + 1 .. a + k
    <3>1. i - a \in 1 .. k /\ a + (i - a) = i
      BY <2>2
    <3>2. s[i - a] = l[i]
      BY <3>1
    <3>. QED  BY <1>3, <1>4, <2>2, <3>2
  <2>3. i \in 1 .. a \/ i \in a + 1 .. a + k
    OBVIOUS
  <2>. QED  BY <2>1, <2>2, <2>3
<1>. HIDE DEF w
<1>6. w = v
  BY <1>3, <1>4, <1>5, SeqEqual
<1>. QED  BY <1>6 DEF u, v, w

\* The id of the last of some frames, and the packets among them: 'open' is no
\* packet.
LastId(frames) == IF Len(frames) = 0 THEN ackId ELSE frames[Len(frames)].id

Packets(frames) ==
    IF \E i \in 1 .. Len(frames) : frames[i].what = "open"
    THEN Len(frames) - 1 ELSE Len(frames)

\* The frames go on from what was read.
GoOn(frames) ==
    /\ Packets(frames) \in Nat
    /\ LastId(frames) = ackId + Packets(frames)
    /\ ackId + Packets(frames) <= Len(log)
    /\ \A i \in 1 .. Packets(frames) : i \in 1 .. Len(frames) /\ frames[i].what = log[ackId + i]

LEMMA ReadGot ==
    ASSUME TypeOK, GotRead, ~torn, NEW frames \in Seq(Frame), GoOn(frames),
           ReadFrames(frames)
    PROVE  /\ ackId' = ackId + Packets(frames)
           /\ got' = SubSeq(log, 1, ackId + Packets(frames))
<1>. DEFINE k == Packets(frames)
            s == [i \in 1 .. k |-> frames[i].what]
<1>1. ackId' = LastId(frames) /\ got' = got \o s
  BY DEF ReadFrames, LastId, Packets
<1>2. /\ log \in Seq(Packet) /\ ackId \in Nat /\ k \in Nat /\ ackId + k <= Len(log)
      /\ got = SubSeq(log, 1, ackId)
  BY DEF TypeOK, GoOn, GotRead
<1>3. \A i \in 1 .. k : frames[i].what = log[ackId + i] /\ log[ackId + i] \in Packet
  <2>1. \A i \in 1 .. k : ackId + i \in 1 .. Len(log)
    BY <1>2
  <2>2. \A j \in 1 .. Len(log) : log[j] \in Packet
    BY <1>2
  <2>. QED  BY <2>1, <2>2 DEF GoOn
<1>. HIDE DEF k
<1>4. s \in Seq(Packet) /\ Len(s) = k /\ \A i \in 1 .. k : s[i] = log[ackId + i]
  BY <1>2, <1>3
<1>. HIDE DEF s
<1>5. SubSeq(log, 1, ackId) \o s = SubSeq(log, 1, ackId + k)
  BY <1>2, <1>4, SubSeqJoin
<1>. QED  BY <1>1, <1>2, <1>5 DEF GoOn, k

\* A whole answer to a long poll goes on from what was read.
LEMMA AnswerGoesOn ==
    ASSUME TypeOK, Queues, Acks, Body, transport = "longpoll"
    PROVE  GoOn(body)
<1>. DEFINE n == Len(body)
<1>1. /\ body \in Seq(Frame) /\ n \in Nat /\ ackId \in Nat /\ packetId \in Nat
      /\ Len(log) \in Nat
  BY DEF TypeOK
<1>2. ackId <= packetId /\ packetId <= Len(log) /\ ackId <= Len(log)
  BY <1>1 DEF Acks, Queues
<1>3. \A i \in 1 .. n : /\ body[i].id = ackId + i - 1 + Step(body[i])
                        /\ body[i].what = "open" => i = n
                        /\ body[i].id <= packetId
                        /\ body[i].what # "open" => body[i].what = log[body[i].id]
  BY <1>1 DEF Body, PollBody, BodySent
<1>4. CASE n = 0
  <2>1. Packets(body) = 0 /\ LastId(body) = ackId
    BY <1>4 DEF Packets, LastId
  <2>. QED  BY <1>1, <1>2, <2>1 DEF GoOn
<1>5. CASE n # 0
  <2>1. n \in 1 .. n /\ LastId(body) = body[n].id
    BY <1>1, <1>5 DEF LastId
  <2>2. body[n].id = ackId + n - 1 + Step(body[n]) /\ body[n].id <= packetId
    BY <1>3, <2>1
  <2>3. \A i \in 1 .. n : i # n => body[i].what # "open"
    BY <1>3
  <2>4. ASSUME NEW i \in 1 .. n, body[i].what # "open"
        PROVE  body[i].what = log[ackId + i]
    <3>1. Step(body[i]) = 1
      BY <2>4 DEF Step
    <3>2. body[i].id = ackId + i
      BY <1>1, <1>3, <3>1
    <3>. QED  BY <1>3, <2>4, <3>2
  <2>5. CASE body[n].what = "open"
    <3>1. Packets(body) = n - 1 /\ Step(body[n]) = 0
      BY <2>1, <2>5 DEF Packets, Step
    <3>2. LastId(body) = ackId + (n - 1) /\ ackId + (n - 1) <= Len(log)
      BY <1>1, <1>2, <2>1, <2>2, <3>1
    <3>3. \A i \in 1 .. n - 1 : i \in 1 .. n /\ body[i].what = log[ackId + i]
      BY <1>1, <2>3, <2>4
    <3>. QED  BY <1>1, <1>5, <3>1, <3>2, <3>3 DEF GoOn
  <2>6. CASE body[n].what # "open"
    <3>1. Packets(body) = n /\ Step(body[n]) = 1
      BY <2>3, <2>6 DEF Packets, Step
    <3>2. LastId(body) = ackId + n /\ ackId + n <= Len(log)
      BY <1>1, <1>2, <2>1, <2>2, <3>1
    <3>3. \A i \in 1 .. n : body[i].what = log[ackId + i]
      BY <2>3, <2>4, <2>6
    <3>. QED  BY <1>1, <3>1, <3>2, <3>3 DEF GoOn
  <2>. QED  BY <2>5, <2>6
<1>. QED  BY <1>4, <1>5

\* So does the next frame of a stream that is not torn.
LEMMA FrameGoesOn ==
    ASSUME TypeOK, Queues, Acks, Body, transport = "xhrstream", ~torn, body # <<>>
    PROVE  GoOn(<<Head(body)>>)
<1>. DEFINE f == Head(body)
            fs == <<f>>
<1>1. /\ body \in Seq(Frame) /\ 1 \in DOMAIN body /\ f = body[1] /\ f \in Frame
      /\ ackId \in Nat /\ packetId \in Nat /\ Len(log) \in Nat
  BY DEF TypeOK
<1>2. packetId <= Len(log)
  BY DEF Queues
<1>3. /\ f.id = ackId + Step(f) /\ f.id <= packetId
      /\ f.what # "open" => f.what = log[f.id]
  BY <1>1 DEF Body, StreamBody, BodySent
<1>4. Len(fs) = 1 /\ fs[1] = f
  OBVIOUS
<1>. HIDE DEF f, fs
<1>5. LastId(fs) = f.id
  BY <1>4 DEF LastId
<1>6. CASE f.what = "open"
  <2>1. Packets(fs) = 0 /\ Step(f) = 0
    BY <1>4, <1>6 DEF Packets, Step
  <2>2. ackId + 0 <= Len(log) /\ f.id = ackId + 0
    BY <1>1, <1>2, <1>3, <2>1
  <2>. QED  BY <1>5, <2>1, <2>2 DEF GoOn, fs, f
<1>7. CASE f.what # "open"
  <2>1. Packets(fs) = 1 /\ Step(f) = 1
    BY <1>4, <1>7 DEF Packets, Step
  <2>2. ackId + 1 <= Len(log) /\ f.id = ackId + 1 /\ f.what = log[ackId + 1]
    BY <1>1, <1>2, <1>3, <1>7, <2>1
  <2>3. \A i \in 1 .. 1 : i \in 1 .. Len(fs) /\ fs[i].what = log[ackId + i]
    BY <1>4, <2>2
  <2>. QED  BY <1>5, <2>1, <2>2, <2>3 DEF GoOn, fs, f
<1>. QED  BY <1>6, <1>7

LEMMA GotKept ==
    ASSUME TypeOK, Queues, Acks, GotRead, LogKept, ackId' = ackId, got' = got,
           torn => torn'
    PROVE  GotRead'
<1>1. /\ log \in Seq(Packet) /\ ackId \in Nat /\ packetId \in Nat /\ Len(log) \in Nat
  BY DEF TypeOK
<1>2. ackId <= Len(log)
  BY <1>1 DEF Acks, Queues
<1>3. SubSeq(log', 1, ackId) = SubSeq(log, 1, ackId)
  <2>1. CASE log' = log
    BY <2>1
  <2>2. CASE \E what \in Packet : log' = Append(log, what)
    <3>1. PICK what \in Packet : log' = Append(log, what)
      BY <2>2
    <3>. DEFINE u == SubSeq(log, 1, ackId)
                v == SubSeq(log', 1, ackId)
    <3>2. /\ log' \in Seq(Packet) /\ Len(log') = Len(log) + 1
          /\ \A i \in 1 .. Len(log) : log'[i] = log[i]
      BY <1>1, <3>1
    <3>3. u \in Seq(Packet) /\ Len(u) = ackId /\ \A i \in 1 .. ackId : u[i] = log[i]
      BY <1>1, <1>2
    <3>4. v \in Seq(Packet) /\ Len(v) = ackId /\ \A i \in 1 .. ackId : v[i] = log'[i]
      BY <1>1, <1>2, <3>2
    <3>5. \A i \in 1 .. ackId : u[i] = v[i]
      BY <1>1, <1>2, <3>2, <3>3, <3>4
    <3>. HIDE DEF u, v
    <3>6. u = v
      BY <3>3, <3>4, <3>5, SeqEqual
    <3>. QED  BY <3>6 DEF u, v
  <2>. QED  BY <2>1, <2>2 DEF LogKept
<1>. QED  BY <1>3 DEF GotRead

LEMMA BodyInit == Init => Body /\ GotRead
<1>. SUFFICES ASSUME Init PROVE Body /\ GotRead
  OBVIOUS
<1>1. body = <<>> /\ get = "none" /\ part = FALSE /\ torn = FALSE
  BY DEF Init
<1>2. Body
  BY <1>1 DEF Body, BodySent, StreamBody, PollBody
<1>3. log = <<>> /\ got = <<>> /\ ackId = 0
  BY DEF Init
<1>4. SubSeq(<<>>, 1, 0) = <<>>
  OBVIOUS
<1>. QED  BY <1>2, <1>3, <1>4 DEF GotRead

LEMMA BodyStep ==
    ASSUME TypeOK, TypeOK', Control, Queues, Acks, Body, GotRead, [Next]_vars
    PROVE  Body' /\ GotRead'
<1>0. /\ lastAckId \in Nat /\ ackId \in Nat /\ packetId \in Nat /\ packetId' \in Nat
      /\ lastAckId <= packetId /\ packetId <= packetId
      /\ late \subseteq Nat
      /\ (transport = "longpoll" => ~torn /\ ~part)
  <2>1. packetId' \in Nat
    BY DEF TypeOK
  <2>2. /\ lastAckId \in Nat /\ ackId \in Nat /\ packetId \in Nat
        /\ late \subseteq Nat
    BY DEF TypeOK
  <2>3. lastAckId <= ackId /\ ackId <= packetId
    BY DEF Acks
  <2>4. transport = "longpoll" => ~torn /\ ~part
    BY DEF Body, PollBody
  <2>. QED  BY <2>1, <2>2, <2>3, <2>4
<1>p. {"opt", "ping", "close"} \subseteq Packet /\ Data \subseteq Packet
  BY DEF Packet
<1>1. ASSUME Create PROVE Body' /\ GotRead'
  <2>1. /\ log = <<>> /\ ct = "none"
        /\ log' = <<"opt", "opt">>
        /\ UNCHANGED <<body, get, part, torn, transport, ackId, got>>
    BY <1>1 DEF Create, Control, answer, page, read
  <2>2. get = "none" /\ body = <<>> /\ ackId = 0
    <3>1. packetId <= 0
      BY <2>1 DEF Queues
    <3>. QED  BY <1>0, <2>1, <3>1 DEF Control, Acks
  <2>3. Body'
    BY <1>0, <2>1, <2>2, BodyEmpty
  <2>4. SubSeq(<<>>, 1, 0) = <<>> /\ SubSeq(<<"opt", "opt">>, 1, 0) = <<>>
    OBVIOUS
  <2>5. torn \/ got = <<>>
    BY <2>1, <2>2, <2>4 DEF GotRead
  <2>. QED  BY <2>1, <2>2, <2>3, <2>4, <2>5 DEF GotRead
<1>2. ASSUME Write PROVE Body' /\ GotRead'
  <2>1. \E d \in Data : SendPacket(d)
    BY <1>2 DEF Write, Control
  <2>2. PICK what \in Packet : Grown(what) /\ cur' \in {cur, "none"}
    BY <1>p, <2>1, SendPacketGrown, SendPacketControl
  <2>3. /\ log' = Append(log, what) /\ torn' = torn
        /\ ackId' = ackId /\ got' = got /\ transport' = transport
    BY <1>2, <2>2 DEF Write, Grown, page, read
  <2>4. Body'
    BY <2>2, <2>3, GrownBody
  <2>. QED  BY <2>3, <2>4, GotKept DEF LogKept
<1>3. ASSUME LoseConnection PROVE Body' /\ GotRead'
  <2>1. CloseConn(cur)
    BY <1>3 DEF LoseConnection, Control
  <2>2. PICK what \in Packet : Grown(what) /\ cur' \in {cur, "none"}
    BY <1>p, <2>1, CloseConnGrown
  <2>3. /\ log' = Append(log, what) /\ torn' = torn
        /\ ackId' = ackId /\ got' = got /\ transport' = transport
    BY <1>3, <2>2 DEF LoseConnection, Grown, page, read
  <2>4. Body'
    BY <2>2, <2>3, GrownBody
  <2>. QED  BY <2>3, <2>4, GotKept DEF LogKept
<1>4. ASSUME GetArrives PROVE Body' /\ GotRead'
  <2>1. CASE conn = "live"
    <3>1. TransportOpened(ackId, "page")
      BY <1>4, <2>1 DEF GetArrives
    <3>2. /\ get = "sent" /\ ackId' = ackId /\ got' = got
          /\ transport' = transport /\ log' = log /\ torn' = torn
      BY <1>4, <3>1 DEF GetArrives, page, read, TransportOpened
    <3>3. Body'
      BY <3>1, <3>2, OpenedBody
    <3>. QED  BY <3>2, <3>3, GotKept DEF LogKept
  <2>2. CASE conn # "live"
    BY <1>0, <1>4, <2>2, BodyKept, GotKept DEF LogKept, queues, answer, page,
       read, GetArrives
  <2>. QED  BY <2>1, <2>2
<1>5. ASSUME LateGetArrives PROVE Body' /\ GotRead'
  <2>0. PICK a \in late :
            IF conn = "live"
            THEN TransportOpened(a, "stale")
            ELSE UNCHANGED <<conn, opened, queues, cur, timer, toParse, answer>>
    BY <1>5 DEF LateGetArrives
  <2>1. CASE conn = "live"
    <3>1. TransportOpened(a, "stale") /\ a \in Nat
      BY <1>0, <2>0, <2>1
    <3>2. /\ ackId' = ackId /\ got' = got
          /\ transport' = transport /\ log' = log /\ torn' = torn
      BY <1>5, <3>1 DEF LateGetArrives, page, read, TransportOpened
    <3>3. Body'
      BY <1>0, <3>1, <3>2, OpenedStaleBody
    <3>. QED  BY <3>2, <3>3, GotKept DEF LogKept
  <2>2. CASE conn # "live"
    BY <1>0, <1>5, <2>0, <2>2, BodyKept, GotKept DEF LogKept, queues, answer,
       page, read, LateGetArrives
  <2>. QED  BY <2>1, <2>2
<1>6. ASSUME EmptyAnswer PROVE Body' /\ GotRead'
  <2>1. get' # "held"
    BY <1>6 DEF EmptyAnswer, FinishCurrent, Control
  <2>. QED  BY <1>0, <1>6, <2>1, BodyKept, GotKept DEF LogKept, queues, answer,
               page, read, EmptyAnswer
<1>7. ASSUME ConnectionAborted PROVE Body' /\ GotRead'
  <2>1. CloseConn("none") /\ cur = "stale"
    BY <1>7 DEF ConnectionAborted, Control
  <2>2. PICK what \in Packet : Grown(what) /\ cur' \in {cur, "none"}
    BY <1>p, <2>1, CloseConnGrown
  <2>3. /\ log' = Append(log, what) /\ torn' = torn
        /\ ackId' = ackId /\ got' = got /\ transport' = transport
    BY <1>7, <2>2 DEF ConnectionAborted, Grown, page, read
  <2>4. Body'
    BY <2>2, <2>3, GrownBody
  <2>. QED  BY <2>3, <2>4, GotKept DEF LogKept
<1>8. ASSUME SendPing PROVE Body' /\ GotRead'
  <2>1. SendPacket("ping")
    BY <1>8 DEF SendPing, Control
  <2>2. PICK what \in Packet : Grown(what) /\ cur' \in {cur, "none"}
    BY <1>p, <2>1, SendPacketGrown, SendPacketControl
  <2>3. /\ log' = Append(log, what) /\ torn' = torn
        /\ ackId' = ackId /\ got' = got /\ transport' = transport
    BY <1>8, <2>2 DEF SendPing, Grown, page, read
  <2>4. Body'
    BY <2>2, <2>3, GrownBody
  <2>. QED  BY <2>3, <2>4, GotKept DEF LogKept
<1>9. ASSUME Timeout PROVE Body' /\ GotRead'
  <2>1. CloseConn(cur)
    BY <1>9 DEF Timeout, Control
  <2>2. PICK what \in Packet : Grown(what) /\ cur' \in {cur, "none"}
    BY <1>p, <2>1, CloseConnGrown
  <2>3. /\ log' = Append(log, what) /\ torn' = torn
        /\ ackId' = ackId /\ got' = got /\ transport' = transport
    BY <1>9, <2>2 DEF Timeout, Grown, page, read
  <2>4. Body'
    BY <2>2, <2>3, GrownBody
  <2>. QED  BY <2>3, <2>4, GotKept DEF LogKept
<1>10. ASSUME PostArrives PROVE Body' /\ GotRead'
  BY <1>0, <1>10, BodyKept, GotKept DEF LogKept, queues, answer, page, read,
     PostArrives, PostRendered
<1>11. ASSUME LatePostArrives PROVE Body' /\ GotRead'
  BY <1>0, <1>11, BodyKept, GotKept DEF LogKept, queues, answer, page, read,
     LatePostArrives, PostRendered
<1>12. ASSUME ParseData PROVE Body' /\ GotRead'
  <2>1. CASE CloseConn(cur)
    <3>1. Grown("close") /\ cur' \in {cur, "none"}
      BY <2>1, CloseConnGrown
    <3>2. /\ "close" \in Packet /\ log' = Append(log, "close") /\ torn' = torn
          /\ ackId' = ackId /\ got' = got /\ transport' = transport
      BY <1>p, <1>12, <3>1 DEF ParseData, Grown, page, read
    <3>3. Body'
      BY <3>1, <3>2, GrownBody
    <3>. QED  BY <3>2, <3>3, GotKept DEF LogKept
  <2>2. CASE UNCHANGED <<conn, queues, cur, timer, answer>>
    BY <1>0, <1>12, <2>2, BodyKept, GotKept DEF LogKept, queues, answer, page,
       read, ParseData
  <2>. QED  BY <1>12, <2>1, <2>2 DEF ParseData
<1>13. ASSUME OpenSession PROVE Body' /\ GotRead'
  BY <1>0, <1>13, BodyKept, GotKept DEF LogKept, queues, answer, page, read,
     OpenSession
<1>14. ASSUME KeyAnswered PROVE Body' /\ GotRead'
  BY <1>0, <1>14, BodyKept, GotKept DEF LogKept, queues, answer, page, read,
     KeyAnswered
<1>15. ASSUME KeyFails PROVE Body' /\ GotRead'
  BY <1>0, <1>15, BodyKept, GotKept DEF LogKept, queues, answer, page, read,
     KeyFails
<1>16. ASSUME Send PROVE Body' /\ GotRead'
  BY <1>0, <1>16, BodyKept, GotKept DEF LogKept, queues, answer, page, read,
     Send
<1>17. ASSUME Close PROVE Body' /\ GotRead'
  BY <1>0, <1>17, BodyKept, GotKept DEF LogKept, queues, answer, page, read,
     Close
<1>18. ASSUME TimedOut PROVE Body' /\ GotRead'
  <2>1. /\ body' = <<>> /\ get' = "none" /\ transport' = transport
        /\ log' = log /\ ackId' = ackId /\ got' = got /\ (torn => torn')
        /\ (transport = "longpoll" => ~torn' /\ ~part')
    BY <1>0, <1>18 DEF TimedOut, DoClose, GiveUpGet, queues, page, read
  <2>. QED  BY <2>1, BodyEmpty, GotKept DEF LogKept
<1>19. ASSUME PageLeaves PROVE Body' /\ GotRead'
  <2>1. /\ body' = <<>> /\ get' = "none" /\ transport' = transport
        /\ log' = log /\ ackId' = ackId /\ got' = got /\ (torn => torn')
        /\ (transport = "longpoll" => ~torn' /\ ~part')
    BY <1>0, <1>19 DEF PageLeaves, DoClose, GiveUpGet, queues, page, read
  <2>. QED  BY <2>1, BodyEmpty, GotKept DEF LogKept
<1>20. ASSUME GetOpens PROVE Body' /\ GotRead'
  BY <1>0, <1>20, BodyKept, GotKept DEF LogKept, queues, answer, page, read,
     GetOpens
<1>21. ASSUME ReadAnswer PROVE Body' /\ GotRead'
  <2>1. /\ ReadFrames(body) /\ body \in Seq(Frame) /\ transport = "longpoll"
        /\ body' = <<>> /\ get' = "none" /\ transport' = transport
        /\ part' = part /\ torn' = torn /\ log' = log
    BY <1>21 DEF ReadAnswer, TypeOK, queues
  <2>2. Body'
    BY <1>0, <2>1, BodyEmpty
  <2>3. ackId' = ackId + Packets(body) /\ got' = SubSeq(log, 1, ackId + Packets(body))
    BY <1>0, <2>1, AnswerGoesOn, ReadGot
  <2>. QED  BY <2>1, <2>2, <2>3 DEF GotRead
<1>22. ASSUME ReadFrame PROVE Body' /\ GotRead'
  <2>. DEFINE frames == <<Head(body)>>
  <2>1. /\ ReadFrames(frames) /\ transport = "xhrstream" /\ body # <<>>
        /\ transport' = transport /\ torn' = torn /\ log' = log /\ packetId' = packetId
        /\ part' = FALSE
    BY <1>22 DEF ReadFrame, queues
  <2>2. /\ Head(body) = body[1] /\ frames \in Seq(Frame)
    <3>1. body \in Seq(Frame)
      BY DEF TypeOK
    <3>2. Head(body) = body[1] /\ Head(body) \in Frame
      BY <2>1, <3>1
    <3>. QED  BY <3>2
  <2>3. ackId' = body[1].id
    <3>1. Len(frames) = 1 /\ frames[1] = body[1]
      BY <2>2
    <3>. HIDE DEF frames
    <3>. QED  BY <2>1, <3>1 DEF ReadFrames
  <2>4. Body'
    <3>1. CASE GiveUpGet
      BY <2>1, <3>1, BodyEmpty DEF GiveUpGet
    <3>2. CASE body' = Tail(body) /\ UNCHANGED <<get, cur, late>>
      BY <2>1, <2>3, <3>2, TailBody
    <3>. QED  BY <1>22, <3>1, <3>2 DEF ReadFrame
  <2>5. CASE torn
    BY <2>1, <2>4, <2>5 DEF GotRead
  <2>6. CASE ~torn
    <3>1. GoOn(frames)
      BY <2>1, <2>6, FrameGoesOn
    <3>2. ackId' = ackId + Packets(frames) /\ got' = SubSeq(log, 1, ackId + Packets(frames))
      BY <2>1, <2>2, <2>6, <3>1, ReadGot
    <3>. QED  BY <2>1, <2>4, <3>2 DEF GotRead
  <2>. QED  BY <2>5, <2>6
<1>23. ASSUME MissFrame PROVE Body' /\ GotRead'
  <2>1. /\ torn /\ torn' = torn /\ body # <<>> /\ body' = Tail(body)
        /\ transport' = transport /\ get' = get /\ packetId' = packetId
        /\ log' = log /\ ackId' = ackId /\ got' = got
    BY <1>23 DEF MissFrame, page, queues, read
  <2>2. transport = "xhrstream"
    BY <1>0, <2>1 DEF TypeOK
  <2>3. Body'
    BY <2>1, <2>2, TailBody
  <2>. QED  BY <2>1, <2>3 DEF GotRead
<1>24. ASSUME ReadPart PROVE Body' /\ GotRead'
  BY <1>0, <1>24, BodyKept, GotKept DEF LogKept, queues, answer, page, read,
     ReadPart
<1>25. ASSUME ReadEnd PROVE Body' /\ GotRead'
  BY <1>0, <1>25, BodyKept, GotKept DEF LogKept, queues, answer, page, read,
     ReadEnd
<1>26. ASSUME GetFails PROVE Body' /\ GotRead'
  <2>1. /\ body' = <<>> /\ get' = "none" /\ transport' = transport
        /\ log' = log /\ ackId' = ackId /\ got' = got /\ (torn => torn')
        /\ (transport = "longpoll" => ~torn' /\ ~part')
    BY <1>0, <1>26 DEF GetFails, DoClose, GiveUpGet, queues, page, read
  <2>. QED  BY <2>1, BodyEmpty, GotKept DEF LogKept
<1>27. ASSUME GetMissing PROVE Body' /\ GotRead'
  <2>1. /\ body' = <<>> /\ get' = "none" /\ transport' = transport
        /\ log' = log /\ ackId' = ackId /\ got' = got /\ (torn => torn')
        /\ (transport = "longpoll" => ~torn' /\ ~part')
    BY <1>0, <1>27 DEF GetMissing, DoClose, GiveUpGet, queues, page, read
  <2>. QED  BY <2>1, BodyEmpty, GotKept DEF LogKept
<1>28. ASSUME PostAnswered PROVE Body' /\ GotRead'
  BY <1>0, <1>28, BodyKept, GotKept DEF LogKept, queues, answer, page, read,
     PostAnswered
<1>29. ASSUME PostFails PROVE Body' /\ GotRead'
  BY <1>0, <1>29, BodyKept, GotKept DEF LogKept, queues, answer, page, read,
     PostFails
<1>30. ASSUME Retry PROVE Body' /\ GotRead'
  <2>1. CASE DoClose("CLOSED")
    <3>1. /\ body' = <<>> /\ get' = "none" /\ transport' = transport
          /\ log' = log /\ ackId' = ackId /\ got' = got /\ torn' = torn
          /\ part' = FALSE
      BY <1>30, <2>1 DEF Retry, DoClose, GiveUpGet, queues, read
    <3>. QED  BY <1>0, <3>1, BodyEmpty, GotKept DEF LogKept
  <2>2. CASE UNCHANGED <<answer, page, cur, late>>
    BY <1>0, <1>30, <2>2, BodyKept, GotKept DEF LogKept, queues, answer, page,
       read, Retry
  <2>. QED  BY <1>30, <2>1, <2>2 DEF Retry
<1>31. ASSUME UNCHANGED vars PROVE Body' /\ GotRead'
  BY <1>0, <1>31, BodyKept, GotKept DEF LogKept, vars, queues, answer, page,
     read
<1>. QED
  BY <1>1, <1>2, <1>3, <1>4, <1>5, <1>6, <1>7, <1>8, <1>9, <1>10, <1>11, <1>12,
     <1>13, <1>14, <1>15, <1>16, <1>17, <1>18, <1>19, <1>20, <1>21, <1>22,
     <1>23, <1>24, <1>25, <1>26, <1>27, <1>28, <1>29, <1>30, <1>31 DEF Next,
     Service, Page

-----------------------------------------------------------------------------
(* The theorems *)

\* The inductive invariant holds in every state.
THEOREM Invariance == Spec => []IInv
<1>1. Init => IInv
  BY TypeInit, ControlInit, QueuesInit, BodyInit DEF IInv
<1>2. IInv /\ [Next]_vars => IInv'
  <2>. SUFFICES ASSUME IInv, [Next]_vars PROVE IInv'
    OBVIOUS
  <2>1. /\ TypeOK /\ Control /\ Queues /\ Acks /\ Body /\ GotRead
        /\ BodySent /\ StreamBody /\ PollBody
    BY DEF IInv, Body
  <2>2. TypeOK'
    BY <2>1, TypeStep
  <2>3. Control'
    BY <2>1, ControlStep
  <2>4. Queues' /\ Acks'
    BY <2>1, <2>2, QueuesStep
  <2>5. Body' /\ GotRead'
    BY <2>1, <2>2, BodyStep
  <2>. QED  BY <2>2, <2>3, <2>4, <2>5 DEF IInv
<1>. QED  BY <1>1, <1>2, PTL DEF Spec

\* Every variable of the two ends has a value of its kind.
THEOREM TypeCorrect == Spec => []TypeOK
<1>1. IInv => TypeOK
  BY DEF IInv
<1>. QED  BY <1>1, Invariance, PTL

\* unackQueue and msgQueue hold what was written and not acknowledged, each
\* packet under its id, whatever was acknowledged, resent or queued.
THEOREM WindowExact == Spec => []AckWindow
<1>1. IInv => AckWindow
  BY DEF IInv, Queues, Window, AckWindow
<1>. QED  BY <1>1, Invariance, PTL

\* The service drops a packet from unackQueue only when the page has read it.
THEOREM ReadBeforeForgotten == Spec => []NothingUnreadForgotten
<1>1. IInv => NothingUnreadForgotten
  BY DEF IInv, Acks, NothingUnreadForgotten
<1>. QED  BY <1>1, Invariance, PTL

\* A step that sends nothing and that the page reads nothing in.
LEMMA StreamKept ==
    ASSUME log' = log, got' = got, over => over'
    PROVE  [Stream!Next]_(Stream!vars)
<1>1. CASE over' = over
  BY <1>1 DEF Stream!vars
<1>2. CASE over' # over
  <2>1. over' = TRUE
    BY <1>2 DEF over
  <2>. QED  BY <2>1 DEF Stream!Next, Stream!End
<1>. QED  BY <1>1, <1>2

LEMMA StreamSent ==
    ASSUME TypeOK, NEW what \in Packet, log' = Append(log, what), got' = got,
           rs' = rs, torn' = torn
    PROVE  [Stream!Next]_(Stream!vars)
<1>1. log \in Seq(Packet)
  BY DEF TypeOK
<1>2. /\ log' \in Seq(Packet) /\ Len(log') = Len(log) + 1
      /\ \A i \in 1 .. Len(log) : log'[i] = log[i]
  BY <1>1
<1>3. SubSeq(log', 1, Len(log)) = log
  <2>. DEFINE u == SubSeq(log', 1, Len(log))
  <2>1. /\ u \in Seq(Packet) /\ Len(u) = Len(log)
        /\ \A i \in 1 .. Len(log) : u[i] = log'[i]
    BY <1>1, <1>2
  <2>2. \A i \in 1 .. Len(log) : u[i] = log[i]
    BY <1>2, <2>1
  <2>. HIDE DEF u
  <2>3. u = log
    BY <1>1, <2>1, <2>2, SeqEqual
  <2>. QED  BY <2>3 DEF u
<1>4. Len(log') > Len(log)
  BY <1>1, <1>2
<1>5. over' = over
  BY DEF over
<1>. QED  BY <1>2, <1>3, <1>4, <1>5 DEF Stream!Next, Stream!Send

\* The page reads frames that go on from what it has read.
LEMMA StreamRead ==
    ASSUME TypeOK, Queues, Acks, GotRead, NEW frames \in Seq(Frame),
           ReadFrames(frames), ~torn => GoOn(frames), log' = log, torn' = torn,
           rs \notin {"CLOSED", "LEFT"}
    PROVE  [Stream!Next]_(Stream!vars)
<1>1. CASE torn
  <2>1. got' = got
    BY <1>1 DEF ReadFrames
  <2>2. over'
    BY <1>1 DEF over
  <2>. QED  BY <2>1, <2>2, StreamKept
<1>2. CASE ~torn
  <2>. DEFINE k == Packets(frames)
  <2>1. got' = SubSeq(log, 1, ackId + k) /\ got = SubSeq(log, 1, ackId)
    BY <1>2, ReadGot DEF GotRead
  <2>2. /\ k \in Nat /\ ackId + k <= Len(log)
        /\ log \in Seq(Packet) /\ ackId \in Nat /\ Len(log) \in Nat
    BY <1>2 DEF GoOn, TypeOK
  <2>3. ~over /\ over' \in BOOLEAN
    BY <1>2 DEF over
  <2>. HIDE DEF k
  <2>4. CASE k = 0
    <3>1. got' = got
      BY <2>1, <2>2, <2>4
    <3>. QED  BY <2>3, <3>1, StreamKept
  <2>5. CASE k # 0
    <3>1. Len(got) = ackId
      BY <2>1, <2>2
    <3>2. ackId + k \in Len(got) + 1 .. Len(log)
      BY <2>2, <2>5, <3>1
    <3>3. got' = Stream!Prefix(ackId + k)
      BY <2>1 DEF Stream!Prefix
    <3>. QED  BY <2>3, <3>2, <3>3 DEF Stream!Next, Stream!Deliver
  <2>. QED  BY <2>4, <2>5
<1>. QED  BY <1>1, <1>2

LEMMA StreamStep ==
    ASSUME IInv, [Next]_vars
    PROVE  [Stream!Next]_(Stream!vars)
<1>0. /\ TypeOK /\ Control /\ Queues /\ Acks /\ Body /\ GotRead
  BY DEF IInv
<1>p. {"opt", "ping", "close"} \subseteq Packet /\ Data \subseteq Packet
  BY DEF Packet
<1>1. ASSUME Create PROVE [Stream!Next]_(Stream!vars)
  <2>1. /\ log = <<>> /\ log' = <<"opt", "opt">> /\ got' = got
        /\ rs' = rs /\ torn' = torn
    BY <1>0, <1>1 DEF Create, Control, answer, page, read
  <2>2. over' = over
    BY <2>1 DEF over
  <2>3. /\ log' \in Seq(Packet) /\ Len(log') > Len(log)
        /\ SubSeq(log', 1, Len(log)) = log
    BY <1>p, <2>1
  <2>. QED  BY <2>1, <2>2, <2>3 DEF Stream!Next, Stream!Send
<1>2. ASSUME Write PROVE [Stream!Next]_(Stream!vars)
  <2>1. \E what \in Packet : log' = Append(log, what)
    BY <1>p, <1>2 DEF Write, SendPacket
  <2>2. got' = got /\ rs' = rs /\ torn' = torn
    BY <1>2 DEF Write, SendPacket, page, read
  <2>. QED  BY <1>0, <2>1, <2>2, StreamSent
<1>3. ASSUME LoseConnection PROVE [Stream!Next]_(Stream!vars)
  <2>1. \E what \in Packet : log' = Append(log, what)
    BY <1>p, <1>3 DEF LoseConnection, CloseConn
  <2>2. got' = got /\ rs' = rs /\ torn' = torn
    BY <1>3 DEF LoseConnection, CloseConn, page, read
  <2>. QED  BY <1>0, <2>1, <2>2, StreamSent
<1>4. ASSUME GetArrives PROVE [Stream!Next]_(Stream!vars)
  <2>1. log' = log /\ got' = got /\ (over => over')
    BY <1>0, <1>4 DEF GetArrives, over, queues, answer, page, read, Control,
       TransportOpened
  <2>. QED  BY <2>1, StreamKept
<1>5. ASSUME LateGetArrives PROVE [Stream!Next]_(Stream!vars)
  <2>1. log' = log /\ got' = got /\ (over => over')
    BY <1>0, <1>5 DEF LateGetArrives, over, queues, answer, page, read, Control,
       TransportOpened
  <2>. QED  BY <2>1, StreamKept
<1>6. ASSUME EmptyAnswer PROVE [Stream!Next]_(Stream!vars)
  <2>1. log' = log /\ got' = got /\ (over => over')
    BY <1>0, <1>6 DEF EmptyAnswer, over, queues, answer, page, read, Control
  <2>. QED  BY <2>1, StreamKept
<1>7. ASSUME ConnectionAborted PROVE [Stream!Next]_(Stream!vars)
  <2>1. \E what \in Packet : log' = Append(log, what)
    BY <1>p, <1>7 DEF ConnectionAborted, CloseConn
  <2>2. got' = got /\ rs' = rs /\ torn' = torn
    BY <1>7 DEF ConnectionAborted, CloseConn, page, read
  <2>. QED  BY <1>0, <2>1, <2>2, StreamSent
<1>8. ASSUME SendPing PROVE [Stream!Next]_(Stream!vars)
  <2>1. \E what \in Packet : log' = Append(log, what)
    BY <1>p, <1>8 DEF SendPing, SendPacket
  <2>2. got' = got /\ rs' = rs /\ torn' = torn
    BY <1>8 DEF SendPing, SendPacket, page, read
  <2>. QED  BY <1>0, <2>1, <2>2, StreamSent
<1>9. ASSUME Timeout PROVE [Stream!Next]_(Stream!vars)
  <2>1. \E what \in Packet : log' = Append(log, what)
    BY <1>p, <1>9 DEF Timeout, CloseConn
  <2>2. got' = got /\ rs' = rs /\ torn' = torn
    BY <1>9 DEF Timeout, CloseConn, page, read
  <2>. QED  BY <1>0, <2>1, <2>2, StreamSent
<1>10. ASSUME PostArrives PROVE [Stream!Next]_(Stream!vars)
  <2>1. log' = log /\ got' = got /\ (over => over')
    BY <1>0, <1>10 DEF PostArrives, over, queues, answer, page, read, Control,
       PostRendered
  <2>. QED  BY <2>1, StreamKept
<1>11. ASSUME LatePostArrives PROVE [Stream!Next]_(Stream!vars)
  <2>1. log' = log /\ got' = got /\ (over => over')
    BY <1>0, <1>11 DEF LatePostArrives, over, queues, answer, page, read,
       Control, PostRendered
  <2>. QED  BY <2>1, StreamKept
<1>12. ASSUME ParseData PROVE [Stream!Next]_(Stream!vars)
  <2>1. got' = got /\ rs' = rs
    BY <1>12 DEF ParseData, page, read
  <2>2. CASE CloseConn(cur)
    <3>1. log' = Append(log, "close") /\ torn' = torn
      BY <2>2 DEF CloseConn
    <3>. QED  BY <1>0, <1>p, <2>1, <3>1, StreamSent
  <2>3. CASE UNCHANGED <<conn, queues, cur, timer, answer>>
    <3>1. log' = log /\ (over => over')
      BY <2>1, <2>3 DEF queues, answer, over
    <3>. QED  BY <2>1, <3>1, StreamKept
  <2>. QED  BY <1>12, <2>2, <2>3 DEF ParseData
<1>13. ASSUME OpenSession PROVE [Stream!Next]_(Stream!vars)
  <2>1. log' = log /\ got' = got /\ (over => over')
    BY <1>0, <1>13 DEF OpenSession, over, queues, answer, page, read, Control
  <2>. QED  BY <2>1, StreamKept
<1>14. ASSUME KeyAnswered PROVE [Stream!Next]_(Stream!vars)
  <2>1. log' = log /\ got' = got /\ (over => over')
    BY <1>0, <1>14 DEF KeyAnswered, over, queues, answer, page, read, Control
  <2>. QED  BY <2>1, StreamKept
<1>15. ASSUME KeyFails PROVE [Stream!Next]_(Stream!vars)
  <2>1. log' = log /\ got' = got /\ (over => over')
    BY <1>0, <1>15 DEF KeyFails, over, queues, answer, page, read, Control
  <2>. QED  BY <2>1, StreamKept
<1>16. ASSUME Send PROVE [Stream!Next]_(Stream!vars)
  <2>1. log' = log /\ got' = got /\ (over => over')
    BY <1>0, <1>16 DEF Send, over, queues, answer, page, read, Control
  <2>. QED  BY <2>1, StreamKept
<1>17. ASSUME Close PROVE [Stream!Next]_(Stream!vars)
  <2>1. log' = log /\ got' = got /\ (over => over')
    BY <1>0, <1>17 DEF Close, over, queues, answer, page, read, Control
  <2>. QED  BY <2>1, StreamKept
<1>18. ASSUME TimedOut PROVE [Stream!Next]_(Stream!vars)
  <2>1. log' = log /\ got' = got /\ (over => over')
    BY <1>0, <1>18 DEF TimedOut, over, queues, answer, page, read, Control,
       DoClose
  <2>. QED  BY <2>1, StreamKept
<1>19. ASSUME PageLeaves PROVE [Stream!Next]_(Stream!vars)
  <2>1. log' = log /\ got' = got /\ (over => over')
    BY <1>0, <1>19 DEF PageLeaves, over, queues, answer, page, read, Control,
       DoClose
  <2>. QED  BY <2>1, StreamKept
<1>20. ASSUME GetOpens PROVE [Stream!Next]_(Stream!vars)
  <2>1. log' = log /\ got' = got /\ (over => over')
    BY <1>0, <1>20 DEF GetOpens, over, queues, answer, page, read, Control
  <2>. QED  BY <2>1, StreamKept
<1>21. ASSUME ReadAnswer PROVE [Stream!Next]_(Stream!vars)
  <2>1. /\ ReadFrames(body) /\ body \in Seq(Frame) /\ transport = "longpoll"
        /\ torn' = torn /\ log' = log /\ get = "done"
    BY <1>0, <1>21 DEF ReadAnswer, TypeOK, queues
  <2>2. rs \notin {"CLOSED", "LEFT"}
    BY <1>0, <2>1 DEF Control
  <2>3. GoOn(body)
    BY <1>0, <2>1, AnswerGoesOn
  <2>. QED  BY <1>0, <2>1, <2>2, <2>3, StreamRead
<1>22. ASSUME ReadFrame PROVE [Stream!Next]_(Stream!vars)
  <2>. DEFINE frames == <<Head(body)>>
  <2>1. /\ ReadFrames(frames) /\ transport = "xhrstream" /\ body # <<>>
        /\ torn' = torn /\ log' = log
    BY <1>22 DEF ReadFrame, queues
  <2>2. frames \in Seq(Frame)
    <3>1. body \in Seq(Frame)
      BY <1>0 DEF TypeOK
    <3>. QED  BY <2>1, <3>1
  <2>3. rs \notin {"CLOSED", "LEFT"}
    BY <1>0, <2>1 DEF Control
  <2>4. ~torn => GoOn(frames)
    BY <1>0, <2>1, FrameGoesOn
  <2>. HIDE DEF frames
  <2>. QED  BY <1>0, <2>1, <2>2, <2>3, <2>4, StreamRead
<1>23. ASSUME MissFrame PROVE [Stream!Next]_(Stream!vars)
  <2>1. log' = log /\ got' = got /\ (over => over')
    BY <1>0, <1>23 DEF MissFrame, over, queues, answer, page, read, Control
  <2>. QED  BY <2>1, StreamKept
<1>24. ASSUME ReadPart PROVE [Stream!Next]_(Stream!vars)
  <2>1. log' = log /\ got' = got /\ (over => over')
    BY <1>0, <1>24 DEF ReadPart, over, queues, answer, page, read, Control
  <2>. QED  BY <2>1, StreamKept
<1>25. ASSUME ReadEnd PROVE [Stream!Next]_(Stream!vars)
  <2>1. log' = log /\ got' = got /\ (over => over')
    BY <1>0, <1>25 DEF ReadEnd, over, queues, answer, page, read, Control
  <2>. QED  BY <2>1, StreamKept
<1>26. ASSUME GetFails PROVE [Stream!Next]_(Stream!vars)
  <2>1. log' = log /\ got' = got /\ (over => over')
    BY <1>0, <1>26 DEF GetFails, over, queues, answer, page, read, Control,
       DoClose, GiveUpGet
  <2>. QED  BY <2>1, StreamKept
<1>27. ASSUME GetMissing PROVE [Stream!Next]_(Stream!vars)
  <2>1. log' = log /\ got' = got /\ (over => over')
    BY <1>0, <1>27 DEF GetMissing, over, queues, answer, page, read, Control,
       DoClose
  <2>. QED  BY <2>1, StreamKept
<1>28. ASSUME PostAnswered PROVE [Stream!Next]_(Stream!vars)
  <2>1. log' = log /\ got' = got /\ (over => over')
    BY <1>0, <1>28 DEF PostAnswered, over, queues, answer, page, read, Control
  <2>. QED  BY <2>1, StreamKept
<1>29. ASSUME PostFails PROVE [Stream!Next]_(Stream!vars)
  <2>1. log' = log /\ got' = got /\ (over => over')
    BY <1>0, <1>29 DEF PostFails, over, queues, answer, page, read, Control
  <2>. QED  BY <2>1, StreamKept
<1>30. ASSUME Retry PROVE [Stream!Next]_(Stream!vars)
  <2>1. log' = log /\ got' = got /\ (over => over')
    BY <1>0, <1>30 DEF Retry, over, queues, answer, page, read, Control, DoClose
  <2>. QED  BY <2>1, StreamKept
<1>31. ASSUME UNCHANGED vars PROVE [Stream!Next]_(Stream!vars)
  BY <1>31 DEF vars, queues, answer, page, read, over, Stream!vars
<1>. QED
  BY <1>1, <1>2, <1>3, <1>4, <1>5, <1>6, <1>7, <1>8, <1>9, <1>10, <1>11, <1>12,
     <1>13, <1>14, <1>15, <1>16, <1>17, <1>18, <1>19, <1>20, <1>21, <1>22,
     <1>23, <1>24, <1>25, <1>26, <1>27, <1>28, <1>29, <1>30, <1>31 DEF Next,
     Service, Page

\* What the service sends reaches the page in order and once, until the page is
\* told that the connection is over or XHRStream has torn a frame: the session
\* implements ReliableStream.
THEOREM ReliablyDelivered == Spec => StreamSpec
<1>1. Init => Stream!Init
  BY DEF Init, Stream!Init, over
<1>2. IInv /\ [Next]_vars => [Stream!Next]_(Stream!vars)
  BY StreamStep
<1>. QED  BY <1>1, <1>2, Invariance, PTL DEF Spec, StreamSpec, Stream!Spec
=============================================================================
