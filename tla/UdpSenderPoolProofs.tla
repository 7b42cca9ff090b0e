------------------------ MODULE UdpSenderPoolProofs ------------------------
(***************************************************************************)
(* Theorems about UdpSenderPool, for every number of senders, images,      *)
(* addresses and ports of other programs.                                  *)
(***************************************************************************)
EXTENDS UdpSenderPool, FiniteSetTheorems, SequenceTheorems, WellFoundedInduction,
        TLAPS

\* A set of naturals that is not empty has a least element.
LEMMA Least ==
    ASSUME NEW T \in SUBSET Nat, T # {}
    PROVE  \E p \in T : \A q \in T : p <= q
<1>1. IsWellFoundedOn(OpToRel(<, Nat), Nat)
  BY NatLessThanWellFounded
<1>2. PICK p \in T : \A q \in T : <<q, p>> \notin OpToRel(<, Nat)
  BY <1>1, WFMin
<1>3. \A q \in T : ~(q < p)
  BY <1>2 DEF OpToRel
<1> QED
  BY <1>3

-----------------------------------------------------------------------------
(* The search for a port *)

Taken(p) == p \in {port[s] : s \in seen} \/ PortInUse(p)

LEMMA SenderFinite == IsFiniteSet(Sender) /\ Cardinality(Sender) = MaxSenders
BY FS_Interval, BoundsAssumption DEF Sender

\* There are fewer ports of senders and of other programs than ports.
LEMMA SomePortFree ==
    ASSUME port \in [Sender -> Port]
    PROVE  \E p \in Port : p \notin {port[s] : s \in Sender} \cup Foreign
<1> DEFINE ports == {port[s] : s \in Sender}
           F == Cardinality(Foreign)
<1>1. port \in Surjection(Sender, ports)
  BY DEF Surjection
<1>2. IsFiniteSet(ports) /\ Cardinality(ports) <= MaxSenders
  BY <1>1, SenderFinite, FS_Surjection
<1>3. F \in Nat /\ MaxSenders \in Nat /\ Cardinality(ports) \in Nat
  BY <1>2, FS_CardinalityType, ForeignAssumption, BoundsAssumption
<1>4. IsFiniteSet(ports \cup Foreign)
      /\ Cardinality(ports \cup Foreign) <= MaxSenders + F
  <2>1. IsFiniteSet(ports \cap Foreign) /\ Cardinality(ports \cap Foreign) \in Nat
    BY <1>2, FS_Intersection, FS_CardinalityType
  <2>2. /\ IsFiniteSet(ports \cup Foreign)
        /\ Cardinality(ports \cup Foreign)
             = Cardinality(ports) + F - Cardinality(ports \cap Foreign)
    BY <1>2, ForeignAssumption, FS_Union
  <2> QED
    BY <1>2, <1>3, <2>1, <2>2
<1>5. IsFiniteSet(Port) /\ Cardinality(Port) = MaxSenders + F + 1
  <2> DEFINE top == MaxSenders + F
  <2>1. top \in Nat /\ Port = 0 .. top
    BY <1>3 DEF Port
  <2>2. IsFiniteSet(0 .. top) /\ Cardinality(0 .. top) = IF 0 > top THEN 0 ELSE top - 0 + 1
    <3> HIDE DEF top
    <3> QED
      BY <2>1, FS_Interval
  <2> QED
    BY <2>1, <2>2
<1>6. SUFFICES ASSUME Port \subseteq ports \cup Foreign PROVE FALSE
  OBVIOUS
<1>7. Cardinality(Port) <= Cardinality(ports \cup Foreign)
  BY <1>4, <1>6, FS_Subset
<1>8. Cardinality(ports \cup Foreign) \in Nat
  BY <1>4, FS_CardinalityType
<1> QED
  BY <1>3, <1>4, <1>5, <1>7, <1>8

\* The search of the constructor ends, at a port that nobody it knows of has.
LEMMA FreePortFound ==
    ASSUME port \in [Sender -> Port], seen \in SUBSET Sender
    PROVE  FreePort \in Port /\ ~Taken(FreePort)
<1> DEFINE T == {p \in Port : ~Taken(p)}
<1>1. Port \subseteq Nat
  BY BoundsAssumption, ForeignAssumption, FS_CardinalityType DEF Port
<1>2. T # {}
  BY SomePortFree DEF Taken, PortInUse
<1>3. PICK p \in T : \A q \in T : p <= q
  BY <1>1, <1>2, Least
<1>4. \A q \in 0 .. (p - 1) : Taken(q)
  <2>1. \A q \in 0 .. (p - 1) : q \in Port /\ q < p
    BY <1>1, BoundsAssumption, ForeignAssumption, FS_CardinalityType DEF Port
  <2> QED
    BY <1>1, <1>3, <2>1
<1>5. \E q \in Port : ~Taken(q) /\ \A r \in 0 .. (q - 1) : Taken(r)
  BY <1>3, <1>4
<1> QED
  BY <1>5 DEF FreePort, Taken

-----------------------------------------------------------------------------
(* The type invariant *)

\* There is a number left for the sender that a request may need.
TypeInv == TypeOK /\ (step # "free" => created < MaxSenders)

LEMMA JobKnown == AnyJob \in Job /\ AnyJob.backup \in Backup
<1>1. PICK b \in Backup, a \in Address : TRUE
  BY ClientAssumption
<1>2. [backup |-> b, address |-> a] \in Job
  BY DEF Job
<1>3. AnyJob \in Job
  BY <1>2 DEF AnyJob
<1> QED
  BY <1>3 DEF Job

LEMMA InitTyped == Init => TypeInv
<1> SUFFICES ASSUME Init PROVE TypeInv
  OBVIOUS
<1>1. MaxSenders \in Nat /\ 0 \in 0 .. MaxSenders /\ 0 \in 0 .. MaxImgs
  BY BoundsAssumption
<1>2. 0 \in Port
  BY BoundsAssumption, ForeignAssumption, FS_CardinalityType DEF Port
<1>3. job \in [Sender -> Job] /\ ask \in Job /\ list \in Backup
  BY JobKnown DEF Init
<1>4. /\ port \in [Sender -> Port]
      /\ imgs \in [Sender -> 0 .. MaxImgs]
  BY <1>1, <1>2 DEF Init
<1>5. stderr \in [Sender -> Seq({"Starting transfer", "Transfer complete."})]
  BY DEF Init
<1> QED
  BY <1>1, <1>3, <1>4, <1>5 DEF Init, TypeInv, TypeOK

\* The number of the next sender, when there is a request.
LEMMA NextNumber ==
    ASSUME TypeInv
    PROVE  /\ created \in Nat /\ MaxSenders \in Nat /\ created <= MaxSenders
           /\ \A s \in Sender : s \in Nat
           /\ step # "free" => created + 1 \in Sender
<1>1. created \in 0 .. MaxSenders /\ MaxSenders \in Nat
  BY BoundsAssumption DEF TypeInv, TypeOK
<1> QED
  BY <1>1 DEF TypeInv, Sender

LEMMA UnsetTyped ==
    ASSUME TypeInv, NEW s \in Sender, Unset(s)
    PROVE  /\ active' \in SUBSET Sender /\ behind' \in SUBSET Sender
           /\ underWaiting' \in [Sender -> SUBSET Sender]
           /\ underPorts' \in [Sender -> SUBSET Sender]
<1>1. Upcoming \in SUBSET Sender
  BY DEF Upcoming, First, InList, TypeInv, TypeOK
<1>2. active' \in SUBSET Sender /\ behind' \in SUBSET Sender
  BY <1>1 DEF Unset, TypeInv, TypeOK
<1>3. /\ underWaiting' \in [Sender -> SUBSET Sender]
      /\ underPorts' \in [Sender -> SUBSET Sender]
  <2>1. CASE UNCHANGED <<underWaiting, underPorts>>
    BY <2>1 DEF TypeInv, TypeOK
  <2>2. CASE /\ step # "free" /\ UNCHANGED underPorts
             /\ underWaiting' = [underWaiting EXCEPT ![created + 1] = @ \cup {s}]
    BY <2>2 DEF TypeInv, TypeOK
  <2>3. CASE /\ step # "free" /\ UNCHANGED underWaiting
             /\ underPorts' = [underPorts EXCEPT ![created + 1] = @ \cup {s}]
    BY <2>3 DEF TypeInv, TypeOK
  <2> QED
    BY <2>1, <2>2, <2>3 DEF Unset
<1> QED
  BY <1>2, <1>3

LEMMA RequestTyped ==
    ASSUME TypeInv, NEW b \in Backup, NEW a \in Address, Request(b, a)
    PROVE  TypeInv'
<1>1. [backup |-> b, address |-> a] \in Job
  BY DEF Job
<1>2. step' = "waiting" /\ created' = created /\ created < MaxSenders
  BY DEF Request, poolVars
<1> QED
  BY <1>1, <1>2 DEF Request, TypeInv, TypeOK, poolVars, listVars, processVars

LEMMA HandlerTyped == TypeInv /\ Handler => TypeInv'
<1> SUFFICES ASSUME TypeInv, Handler PROVE TypeInv'
  OBVIOUS
<1>u. Upcoming \in SUBSET Sender
  BY DEF Upcoming, First, InList, TypeInv, TypeOK
<1>1. CASE JoinSender
  <2>1. /\ step' = "free" /\ ask' \in Job /\ list' \in Backup
        /\ behind' = {} /\ todo' = {} /\ seen' = {}
    BY <1>1, JobKnown DEF JoinSender, Return
  <2>2. underWaiting' \in [Sender -> SUBSET Sender]
    BY <1>1 DEF JoinSender, TypeInv, TypeOK
  <2> QED
    BY <1>1, <2>1, <2>2 DEF JoinSender, TypeInv, TypeOK, poolVars, processVars
<1>2. CASE PassOver
  <2>1. behind' \in SUBSET Sender
    BY <1>2, <1>u DEF PassOver, TypeInv, TypeOK
  <2> QED
    BY <1>2, <2>1 DEF PassOver, TypeInv, TypeOK, poolVars, scanVars, processVars
<1>3. CASE NoneWaiting
  <2>1. behind' = {} /\ list' \in Backup /\ todo' \in SUBSET Backup
    BY <1>3 DEF NoneWaiting
  <2>2. created < MaxSenders /\ step' = "ports"
    BY <1>3 DEF NoneWaiting, TypeInv
  <2> QED
    BY <1>3, <2>1, <2>2 DEF NoneWaiting, TypeInv, TypeOK, poolVars, processVars
<1>4. CASE CollectPort
  <2>1. behind' \in SUBSET Sender /\ seen' \in SUBSET Sender
    BY <1>4, <1>u DEF CollectPort, TypeInv, TypeOK
  <2> QED
    BY <1>4, <2>1 DEF CollectPort, TypeInv, TypeOK, poolVars, processVars
<1>5. CASE CollectNextList
  <2>1. behind' = {} /\ list' \in Backup /\ todo' \in SUBSET Backup
    BY <1>5 DEF CollectNextList, TypeInv, TypeOK
  <2> QED
    BY <1>5, <2>1 DEF CollectNextList, TypeInv, TypeOK, poolVars, processVars
<1>6. ASSUME NEW n \in 0 .. MaxImgs, NewSender(n) PROVE TypeInv'
  <2>1. FreePort \in Port
    BY FreePortFound DEF TypeInv, TypeOK
  <2>2. created' = created + 1 /\ created' \in Sender /\ created' \in 0 .. MaxSenders
    <3>1. step # "free" /\ created' = created + 1
      BY <1>6 DEF NewSender
    <3> QED
      BY <3>1, NextNumber DEF Sender
  <2>3. /\ step' = "free" /\ ask' \in Job /\ list' \in Backup
        /\ behind' = {} /\ todo' = {} /\ seen' = {}
    BY <1>6, JobKnown DEF NewSender, Return
  <2>4. /\ job' \in [Sender -> Job] /\ port' \in [Sender -> Port]
        /\ imgs' \in [Sender -> 0 .. MaxImgs]
        /\ thread' \in [Sender -> {"idle", "queued", "took", "forked", "drained"}]
        /\ active' \in SUBSET Sender
    BY <1>6, <2>1, <2>2 DEF NewSender, TypeInv, TypeOK
  <2> QED
    BY <1>6, <2>2, <2>3, <2>4 DEF NewSender, TypeInv, TypeOK, processVars
<1> QED
  BY <1>1, <1>2, <1>3, <1>4, <1>5, <1>6 DEF Handler

LEMMA AppendIsSeq ==
    ASSUME NEW L, NEW q \in Seq(L), NEW l \in L
    PROVE  Append(q, l) \in Seq(L)
OBVIOUS

LEMMA TailIsSeq ==
    ASSUME NEW L, NEW q \in Seq(L), q # <<>>
    PROVE  Tail(q) \in Seq(L)
OBVIOUS

LEMMA EmptyIsSeq == ASSUME NEW L PROVE <<>> \in Seq(L)
OBVIOUS

\* The lines of stderr.
LEMMA StderrTyped ==
    ASSUME TypeOK, NEW s \in Sender,
           \/ \E l \in {"Starting transfer", "Transfer complete."} :
                 stderr' = [stderr EXCEPT ![s] = Append(@, l)]
           \/ stderr[s] # <<>> /\ stderr' = [stderr EXCEPT ![s] = Tail(@)]
           \/ stderr' = [stderr EXCEPT ![s] = <<>>]
    PROVE  stderr' \in [Sender -> Seq({"Starting transfer", "Transfer complete."})]
<1> DEFINE L == {"Starting transfer", "Transfer complete."}
<1>1. stderr \in [Sender -> Seq(L)] /\ stderr[s] \in Seq(L)
  BY DEF TypeOK
<1>2. /\ \A l \in L : Append(stderr[s], l) \in Seq(L)
      /\ stderr[s] # <<>> => Tail(stderr[s]) \in Seq(L)
      /\ <<>> \in Seq(L)
  <2>1. \A l \in L : Append(stderr[s], l) \in Seq(L)
    BY <1>1, AppendIsSeq
  <2>2. stderr[s] # <<>> => Tail(stderr[s]) \in Seq(L)
    BY <1>1, TailIsSeq
  <2>3. <<>> \in Seq(L)
    BY EmptyIsSeq
  <2> QED
    BY <2>1, <2>2, <2>3
<1>3. PICK q \in Seq(L) : stderr' = [stderr EXCEPT ![s] = q]
  BY <1>1, <1>2
<1> QED
  BY <1>1, <1>3

LEMMA ThreadTyped ==
    ASSUME TypeInv, NEW s \in Sender, Thread(s)
    PROVE  TypeInv'
<1> USE DEF TypeInv
<1>1. CASE ThreadNext(s)
  <2>1. imgs' \in [Sender -> 0 .. MaxImgs]
    <3>1. imgs \in [Sender -> 0 .. MaxImgs] /\ imgs[s] \in 0 .. MaxImgs /\ MaxImgs \in Nat
      BY BoundsAssumption DEF TypeOK
    <3>2. imgs[s] > 0 => imgs[s] - 1 \in 0 .. MaxImgs
      BY <3>1
    <3>3. \/ imgs' = imgs
          \/ imgs[s] > 0 /\ imgs' = [imgs EXCEPT ![s] = imgs[s] - 1]
      BY <1>1 DEF ThreadNext
    <3> QED
      BY <3>1, <3>2, <3>3
  <2>2. thread' \in [Sender -> {"idle", "queued", "took", "forked", "drained"}]
    <3>1. thread' = [thread EXCEPT ![s] = "took"] \/ thread' = [thread EXCEPT ![s] = "drained"]
      BY <1>1 DEF ThreadNext
    <3> QED
      BY <3>1 DEF TypeOK
  <2>3. finish' \in [Sender -> BOOLEAN]
    BY <1>1 DEF ThreadNext, TypeOK
  <2> QED
    BY <1>1, <2>1, <2>2, <2>3 DEF ThreadNext, TypeOK, poolVars, scanVars, listVars, processVars
<1>2. CASE ThreadSpawn(s)
  <2>1. stderr' \in [Sender -> Seq({"Starting transfer", "Transfer complete."})]
    BY <1>2, StderrTyped DEF ThreadSpawn
  <2>2. /\ thread' \in [Sender -> {"idle", "queued", "took", "forked", "drained"}]
        /\ child' \in [Sender -> Running \cup {"none", "exited0", "failed"}]
    BY <1>2 DEF ThreadSpawn, TypeOK, Running
  <2>3. /\ said' \in [Sender -> BOOLEAN]
        /\ stdin' \in [Sender -> {"unfed", "feeding", "closed", "broken", "stuck"}]
    BY <1>2 DEF ThreadSpawn, TypeOK
  <2> QED
    BY <1>2, <2>1, <2>2, <2>3 DEF ThreadSpawn, TypeOK, poolVars, scanVars, listVars
<1>3. CASE ThreadUnset(s)
  <2>1. thread' \in [Sender -> {"idle", "queued", "took", "forked", "drained"}]
    BY <1>3 DEF ThreadUnset, TypeOK
  <2> QED
    BY <1>3, <2>1, UnsetTyped DEF ThreadUnset, TypeOK, poolVars, scanVars, processVars
<1>4. CASE ThreadFeeds(s)
  <2>1. thread' \in [Sender -> {"idle", "queued", "took", "forked", "drained"}]
    BY <1>4 DEF ThreadFeeds, TypeOK
  <2>2. CASE UNCHANGED <<listVars, finish>>
             /\ \E how \in {"feeding", "closed", "unfed"} : stdin' = [stdin EXCEPT ![s] = how]
    <3>1. stdin' \in [Sender -> {"unfed", "feeding", "closed", "broken", "stuck"}]
      BY <2>2 DEF TypeOK
    <3> QED
      BY <1>4, <2>1, <2>2, <3>1 DEF ThreadFeeds, TypeOK, poolVars, scanVars, listVars
  <2>3. CASE Abort(s, "broken")
    <3>1. /\ finish' \in [Sender -> BOOLEAN]
          /\ stdin' \in [Sender -> {"unfed", "feeding", "closed", "broken", "stuck"}]
      BY <2>3 DEF Abort, TypeOK
    <3>2. Unset(s)
      BY <2>3 DEF Abort
    <3> QED
      BY <1>4, <2>1, <3>1, <3>2, UnsetTyped DEF ThreadFeeds, TypeOK, poolVars, scanVars
  <2> QED
    BY <1>4, <2>2, <2>3 DEF ThreadFeeds
<1> QED
  BY <1>1, <1>2, <1>3, <1>4 DEF Thread

LEMMA ChildTyped ==
    ASSUME TypeInv, NEW s \in Sender, Child(s)
    PROVE  TypeInv'
<1> USE DEF TypeInv
<1>1. CASE ChildBinds(s)
  BY <1>1 DEF ChildBinds, TypeOK, poolVars, scanVars, listVars, Running
<1>2. CASE ChildStarts(s)
  <2>1. stderr' \in [Sender -> Seq({"Starting transfer", "Transfer complete."})]
    BY <1>2, StderrTyped DEF ChildStarts
  <2> QED
    BY <1>2, <2>1 DEF ChildStarts, TypeOK, poolVars, scanVars, listVars, Running
<1>3. ASSUME NEW code \in {"exited0", "failed"}, ChildCompletes(s, code) PROVE TypeInv'
  <2>1. stderr' \in [Sender -> Seq({"Starting transfer", "Transfer complete."})]
    BY <1>3, StderrTyped DEF ChildCompletes
  <2>2. /\ child' \in [Sender -> Running \cup {"none", "exited0", "failed"}]
        /\ said' \in [Sender -> BOOLEAN]
    BY <1>3 DEF ChildCompletes, TypeOK
  <2> QED
    BY <1>3, <2>1, <2>2 DEF ChildCompletes, TypeOK, poolVars, scanVars, listVars
<1>4. ASSUME NEW code \in {"exited0", "failed"}, ChildEnds(s, code) PROVE TypeInv'
  <2>1. child' \in [Sender -> Running \cup {"none", "exited0", "failed"}]
    BY <1>4 DEF ChildEnds, TypeOK
  <2> QED
    BY <1>4, <2>1 DEF ChildEnds, TypeOK, poolVars, scanVars, listVars
<1> QED
  BY <1>1, <1>2, <1>3, <1>4 DEF Child

LEMMA AbortTyped ==
    ASSUME TypeInv, NEW s \in Sender, NEW how \in {"broken", "stuck"}, Abort(s, how),
           UNCHANGED <<poolVars, scanVars, imgs, serving, thread, child, said, stderr>>
    PROVE  TypeInv'
<1>1. /\ finish' \in [Sender -> BOOLEAN] /\ Unset(s)
      /\ stdin' \in [Sender -> {"unfed", "feeding", "closed", "broken", "stuck"}]
  BY DEF Abort, TypeInv, TypeOK
<1> QED
  BY <1>1, UnsetTyped DEF TypeInv, TypeOK, poolVars, scanVars

LEMMA EventTyped ==
    ASSUME TypeInv, NEW s \in Sender, Event(s) \/ FeedEnds(s) \/ PartMissing(s)
    PROVE  TypeInv'
<1> USE DEF TypeInv
<1>1. CASE PipeBreaks(s)
  BY <1>1, AbortTyped DEF PipeBreaks
<1>2. CASE ErrReceived(s)
  <2>1. stderr' \in [Sender -> Seq({"Starting transfer", "Transfer complete."})]
    BY <1>2, StderrTyped DEF ErrReceived
  <2>2. serving' \in [Sender -> BOOLEAN] /\ finish' \in [Sender -> BOOLEAN]
    BY <1>2 DEF ErrReceived, TypeOK
  <2> QED
    BY <1>2, <2>1, <2>2 DEF ErrReceived, TypeOK, poolVars, scanVars, listVars
<1>3. CASE ProcessEnded(s)
  <2>1. /\ child' \in [Sender -> Running \cup {"none", "exited0", "failed"}]
        /\ thread' \in [Sender -> {"idle", "queued", "took", "forked", "drained"}]
    BY <1>3 DEF ProcessEnded, TypeOK
  <2> QED
    BY <1>3, <2>1 DEF ProcessEnded, TypeOK, poolVars, scanVars, listVars
<1>4. CASE FeedEnds(s)
  <2>1. stdin' \in [Sender -> {"unfed", "feeding", "closed", "broken", "stuck"}]
    BY <1>4 DEF FeedEnds, TypeOK
  <2> QED
    BY <1>4, <2>1 DEF FeedEnds, TypeOK, poolVars, scanVars, listVars
<1>5. CASE PartMissing(s)
  BY <1>5, AbortTyped DEF PartMissing
<1> QED
  BY <1>1, <1>2, <1>3, <1>4, <1>5 DEF Event

LEMMA StepTyped == TypeInv /\ [Next]_vars => TypeInv'
<1> SUFFICES ASSUME TypeInv, [Next]_vars PROVE TypeInv'
  OBVIOUS
<1>1. CASE Handler \/ \E b \in Backup, a \in Address : Request(b, a)
  BY <1>1, HandlerTyped, RequestTyped
<1>2. ASSUME NEW s \in Sender,
             Thread(s) \/ Child(s) \/ Event(s) \/ FeedEnds(s) \/ PartMissing(s)
      PROVE  TypeInv'
  BY <1>2, ThreadTyped, ChildTyped, EventTyped
<1>3. CASE UNCHANGED vars
  BY <1>3 DEF TypeInv, TypeOK, vars, poolVars, scanVars, listVars, processVars
<1> QED
  BY <1>1, <1>2, <1>3 DEF Next

\* Every reachable state is well typed; in particular the constructor always
\* finds a port, however many are taken by senders and other programs.
THEOREM TypeCorrect == Spec => []TypeOK
<1>1. TypeInv => TypeOK
  BY DEF TypeInv
<1> QED
  BY <1>1, InitTyped, StepTyped, PTL DEF Spec

-----------------------------------------------------------------------------
(* The chain of processes of a sender *)

\* A sender that has not been created has nothing that could act.
Unborn == \A s \in Sender :
    s > created => thread[s] = "idle" /\ child[s] = "none" /\ stderr[s] = <<>>

\* start_next has the sender to itself until it forks, and finish is clear once
\* it has taken an image.
ThreadAlone == \A s \in Sender :
    /\ thread[s] \in {"queued", "took", "drained"} => child[s] = "none" /\ stderr[s] = <<>>
    /\ thread[s] = "forked" => child[s] # "none"
    /\ thread[s] = "took" => ~finish[s]

Complete(q) == \E i \in 1 .. Len(q) : q[i] = "Transfer complete."

\* While there is a process, finish and a line that would set it come from
\* this process, not from the one before it.
FinishIsOwn == \A s \in Sender :
    (child[s] # "none" /\ (finish[s] \/ Complete(stderr[s]))) => said[s]

ChainInv == TypeOK /\ Unborn /\ ThreadAlone /\ FinishIsOwn

Line == {"Starting transfer", "Transfer complete."}

\* What a channel that gains a line holds.
LEMMA GainedLine ==
    ASSUME NEW q \in Seq(Line), NEW l \in Line, Complete(Append(q, l))
    PROVE  Complete(q) \/ l = "Transfer complete."
<1>1. /\ Len(Append(q, l)) = Len(q) + 1
      /\ \A i \in 1 .. Len(q) : Append(q, l)[i] = q[i]
      /\ Append(q, l)[Len(q) + 1] = l
  BY AppendProperties
<1>2. PICK i \in 1 .. Len(Append(q, l)) : Append(q, l)[i] = "Transfer complete."
  BY DEF Complete
<1>3. CASE i = Len(q) + 1
  BY <1>1, <1>2, <1>3
<1>4. CASE i # Len(q) + 1
  <2>1. Len(q) \in Nat /\ i \in 1 .. (Len(q) + 1)
    BY <1>1, <1>2, LenProperties
  <2>2. i \in 1 .. Len(q)
    BY <1>4, <2>1
  <2> QED
    BY <1>1, <1>2, <2>2 DEF Complete
<1> QED
  BY <1>3, <1>4

\* What a channel that loses a line held.
LEMMA LostLine ==
    ASSUME NEW q \in Seq(Line), q # <<>>
    PROVE  /\ Complete(Tail(q)) => Complete(q)
           /\ Head(q) = "Transfer complete." => Complete(q)
<1>1. Len(q) \in Nat \ {0}
  BY EmptySeq
<1>2. ASSUME Complete(Tail(q)) PROVE Complete(q)
  <2>1. /\ Len(Tail(q)) = Len(q) - 1
        /\ \A i \in 1 .. Len(Tail(q)) : Tail(q)[i] = q[i + 1]
    BY HeadTailProperties
  <2>2. PICK i \in 1 .. Len(Tail(q)) : Tail(q)[i] = "Transfer complete."
    BY <1>2 DEF Complete
  <2>3. i + 1 \in 1 .. Len(q)
    BY <1>1, <2>1
  <2> QED
    BY <2>1, <2>2, <2>3 DEF Complete
<1>3. ASSUME Head(q) = "Transfer complete." PROVE Complete(q)
  <2>1. 1 \in 1 .. Len(q)
    BY <1>1
  <2>2. q[1] = Head(q)
    OBVIOUS
  <2> QED
    BY <1>3, <2>1, <2>2 DEF Complete
<1> QED
  BY <1>2, <1>3

\* The lines of the sender s, before and after it gains or loses one.
LEMMA StderrLines ==
    ASSUME TypeInv, NEW s \in Sender
    PROVE  /\ ~Complete(<<>>)
           /\ Complete(Append(stderr[s], "Starting transfer")) => Complete(stderr[s])
           /\ stderr[s] # <<>> =>
                /\ Complete(Tail(stderr[s])) => Complete(stderr[s])
                /\ Head(stderr[s]) = "Transfer complete." => Complete(stderr[s])
<1>1. stderr[s] \in Seq(Line)
  BY DEF TypeInv, TypeOK, Line
<1>2. "Starting transfer" \in Line /\ "Starting transfer" # "Transfer complete."
  BY DEF Line
<1>3. ~Complete(<<>>)
  BY DEF Complete
<1>4. Complete(Append(stderr[s], "Starting transfer")) => Complete(stderr[s])
  BY <1>1, <1>2, GainedLine
<1>5. stderr[s] # <<>> => /\ Complete(Tail(stderr[s])) => Complete(stderr[s])
                          /\ Head(stderr[s]) = "Transfer complete." => Complete(stderr[s])
  BY <1>1, LostLine
<1> QED
  BY <1>3, <1>4, <1>5

LEMMA ChainRequest ==
    ASSUME ChainInv, TypeInv,
           Handler \/ \E b \in Backup, a \in Address : Request(b, a)
    PROVE  ChainInv'
<1>1. TypeOK'
  BY HandlerTyped, RequestTyped DEF TypeInv
<1>2. CASE UNCHANGED <<created, finish, thread, processVars>>
  BY <1>1, <1>2 DEF ChainInv, Unborn, ThreadAlone, FinishIsOwn, processVars
<1>3. ASSUME NEW n \in 0 .. MaxImgs, NewSender(n) PROVE ChainInv'
  <2>1. /\ created' = created + 1 /\ created + 1 \in Sender
        /\ thread' = [thread EXCEPT ![created + 1] = "queued"]
        /\ UNCHANGED <<finish, child, said, stderr>>
    BY <1>3, NextNumber DEF NewSender, processVars
  <2>2. /\ created \in Nat /\ \A s \in Sender : s \in Nat
        /\ thread \in [Sender -> {"idle", "queued", "took", "forked", "drained"}]
    BY NextNumber DEF TypeInv, TypeOK
  <2>3. Unborn'
    BY <2>1, <2>2 DEF ChainInv, Unborn
  <2>4. ThreadAlone'
    <3>1. child[created + 1] = "none" /\ stderr[created + 1] = <<>>
      BY <2>1, <2>2 DEF ChainInv, Unborn
    <3> QED
      BY <2>1, <2>2, <3>1 DEF ChainInv, ThreadAlone
  <2>5. FinishIsOwn'
    BY <2>1 DEF ChainInv, FinishIsOwn
  <2> QED
    BY <1>1, <2>3, <2>4, <2>5 DEF ChainInv
<1>4. ASSUME NEW b \in Backup, NEW a \in Address, Request(b, a)
      PROVE  UNCHANGED <<created, finish, thread, processVars>>
  BY <1>4 DEF Request, poolVars
<1>5. ASSUME JoinSender \/ PassOver \/ NoneWaiting \/ CollectPort \/ CollectNextList
      PROVE  UNCHANGED <<created, finish, thread, processVars>>
  BY <1>5 DEF JoinSender, PassOver, NoneWaiting, CollectPort, CollectNextList, poolVars
<1> QED
  BY <1>2, <1>3, <1>4, <1>5 DEF Handler

LEMMA ChainThread ==
    ASSUME ChainInv, TypeInv, NEW s \in Sender, Thread(s)
    PROVE  ChainInv'
<1>1. TypeOK'
  BY ThreadTyped DEF TypeInv
<1>t. /\ thread \in [Sender -> {"idle", "queued", "took", "forked", "drained"}]
      /\ finish \in [Sender -> BOOLEAN] /\ said \in [Sender -> BOOLEAN]
      /\ child \in [Sender -> Running \cup {"none", "exited0", "failed"}]
      /\ stderr \in [Sender -> Seq({"Starting transfer", "Transfer complete."})]
  BY DEF TypeInv, TypeOK
<1>2. CASE ThreadNext(s)
  <2>1. UNCHANGED <<created, child, said, stderr>>
    BY <1>2 DEF ThreadNext, poolVars, scanVars, listVars, processVars
  <2>2. Unborn'
    BY <1>2, <1>t, <2>1 DEF ChainInv, Unborn, ThreadNext
  <2>3. ThreadAlone'
    BY <1>2, <1>t, <2>1 DEF ChainInv, ThreadAlone, ThreadNext
  <2>4. FinishIsOwn'
    BY <1>2, <1>t, <2>1 DEF ChainInv, FinishIsOwn, ThreadNext
  <2> QED
    BY <1>1, <2>2, <2>3, <2>4 DEF ChainInv
<1>3. CASE ThreadSpawn(s)
  <2>1. UNCHANGED <<created, finish>>
    BY <1>3 DEF ThreadSpawn, poolVars, scanVars, listVars
  <2>2. Unborn'
    BY <1>3, <1>t, <2>1 DEF ChainInv, Unborn, ThreadSpawn
  <2>3. ThreadAlone'
    BY <1>3, <1>t, <2>1 DEF ChainInv, ThreadAlone, ThreadSpawn
  <2>4. FinishIsOwn'
    <3>1. ~finish[s] /\ ~Complete(<<>>)
      BY <1>3, StderrLines DEF ChainInv, ThreadAlone, ThreadSpawn
    <3> QED
      BY <1>3, <1>t, <2>1, <3>1 DEF ChainInv, FinishIsOwn, ThreadSpawn
  <2> QED
    BY <1>1, <2>2, <2>3, <2>4 DEF ChainInv
<1>4. CASE ThreadUnset(s)
  <2>1. UNCHANGED <<created, child, said, stderr, finish>>
    BY <1>4 DEF ThreadUnset, poolVars, processVars
  <2>2. Unborn' /\ ThreadAlone' /\ FinishIsOwn'
    BY <1>4, <1>t, <2>1 DEF ChainInv, Unborn, ThreadAlone, FinishIsOwn, ThreadUnset
  <2> QED
    BY <1>1, <2>2 DEF ChainInv
<1>5. CASE ThreadFeeds(s)
  <2>1. /\ UNCHANGED <<created, child, said, stderr>>
        /\ finish' = finish \/ finish' = [finish EXCEPT ![s] = FALSE]
        /\ thread' = [thread EXCEPT ![s] = "idle"]
    BY <1>5 DEF ThreadFeeds, Abort, poolVars
  <2>2. \A u \in Sender : finish'[u] => finish[u]
    BY <1>t, <2>1
  <2>3. Unborn' /\ ThreadAlone'
    BY <1>t, <2>1, <2>2 DEF ChainInv, Unborn, ThreadAlone
  <2>4. FinishIsOwn'
    BY <2>1, <2>2 DEF ChainInv, FinishIsOwn, Complete
  <2> QED
    BY <1>1, <2>3, <2>4 DEF ChainInv
<1> QED
  BY <1>2, <1>3, <1>4, <1>5 DEF Thread

LEMMA ChainChild ==
    ASSUME ChainInv, TypeInv, NEW s \in Sender, Child(s)
    PROVE  ChainInv'
<1>1. TypeOK'
  BY ChildTyped DEF TypeInv
<1>t. /\ thread \in [Sender -> {"idle", "queued", "took", "forked", "drained"}]
      /\ finish \in [Sender -> BOOLEAN] /\ said \in [Sender -> BOOLEAN]
      /\ child \in [Sender -> Running \cup {"none", "exited0", "failed"}]
      /\ stderr \in [Sender -> Seq({"Starting transfer", "Transfer complete."})]
  BY DEF TypeInv, TypeOK
<1>2. /\ UNCHANGED <<created, finish, thread>>
      /\ child[s] # "none" /\ child' = [child EXCEPT ![s] = child'[s]] /\ child'[s] # "none"
      /\ \A u \in Sender \ {s} : stderr'[u] = stderr[u] /\ said'[u] = said[u]
      /\ \/ stderr'[s] = stderr[s] /\ said'[s] = said[s]
         \/ stderr'[s] = Append(stderr[s], "Starting transfer") /\ said'[s] = said[s]
         \/ said'[s]
  <2>1. CASE ChildBinds(s)
    BY <2>1, <1>t DEF ChildBinds, poolVars, scanVars, listVars
  <2>2. CASE ChildStarts(s)
    BY <2>2, <1>t DEF ChildStarts, poolVars, scanVars, listVars
  <2>3. ASSUME NEW code \in {"exited0", "failed"}, ChildCompletes(s, code) PROVE <1>2
    BY <2>3, <1>t DEF ChildCompletes, poolVars, scanVars, listVars
  <2>4. ASSUME NEW code \in {"exited0", "failed"}, ChildEnds(s, code) PROVE <1>2
    BY <2>4, <1>t DEF ChildEnds, poolVars, scanVars, listVars, Running
  <2> QED
    BY <2>1, <2>2, <2>3, <2>4 DEF Child
<1>3. thread[s] \in {"idle", "forked"} /\ s <= created
  <2>1. s \in Nat /\ created \in Nat
    BY NextNumber
  <2>2. thread[s] \in {"idle", "forked"}
    BY <1>2, <1>t DEF ChainInv, ThreadAlone
  <2>3. ~(s > created)
    BY <1>2 DEF ChainInv, Unborn
  <2> QED
    BY <2>1, <2>2, <2>3
<1>4. Unborn'
  <2>1. s \in Nat /\ created \in Nat
    BY NextNumber
  <2> QED
    BY <1>2, <1>3, <1>t, <2>1 DEF ChainInv, Unborn
<1>5. ThreadAlone'
  BY <1>2, <1>3, <1>t DEF ChainInv, ThreadAlone
<1>6. FinishIsOwn'
  <2>1. ASSUME NEW u \in Sender, u # s, child'[u] # "none", finish'[u] \/ Complete(stderr'[u])
        PROVE  said'[u]
    BY <1>2, <1>t, <2>1 DEF ChainInv, FinishIsOwn
  <2>2. ASSUME finish'[s] \/ Complete(stderr'[s]) PROVE said'[s]
    BY <1>2, <1>t, <2>2, StderrLines DEF ChainInv, FinishIsOwn
  <2> QED
    BY <2>1, <2>2 DEF FinishIsOwn, Complete
<1> QED
  BY <1>1, <1>4, <1>5, <1>6 DEF ChainInv

LEMMA ChainEvent ==
    ASSUME ChainInv, TypeInv, NEW s \in Sender, Event(s) \/ FeedEnds(s) \/ PartMissing(s)
    PROVE  ChainInv'
<1>1. TypeOK'
  BY EventTyped DEF TypeInv
<1>n. s \in Nat /\ created \in Nat
  BY NextNumber
<1>t. /\ thread \in [Sender -> {"idle", "queued", "took", "forked", "drained"}]
      /\ finish \in [Sender -> BOOLEAN] /\ said \in [Sender -> BOOLEAN]
      /\ child \in [Sender -> Running \cup {"none", "exited0", "failed"}]
      /\ stderr \in [Sender -> Seq({"Starting transfer", "Transfer complete."})]
  BY DEF TypeInv, TypeOK
<1>2. CASE ErrReceived(s)
  <2>1. UNCHANGED <<created, thread, child, said>>
    BY <1>2 DEF ErrReceived, poolVars, scanVars, listVars
  <2>2. Unborn'
    BY <1>2, <1>t, <2>1 DEF ChainInv, Unborn, ErrReceived
  <2>3. ThreadAlone'
    BY <1>2, <1>t, <2>1 DEF ChainInv, ThreadAlone, ErrReceived
  <2>4. FinishIsOwn'
    <3>1. ASSUME NEW u \in Sender, u # s PROVE finish'[u] = finish[u] /\ stderr'[u] = stderr[u]
      BY <1>2, <1>t, <3>1 DEF ErrReceived
    <3>2. /\ stderr[s] # <<>> /\ stderr'[s] = Tail(stderr[s])
          /\ finish'[s] => finish[s] \/ Head(stderr[s]) = "Transfer complete."
      BY <1>2, <1>t DEF ErrReceived
    <3>3. (finish'[s] \/ Complete(stderr'[s])) => finish[s] \/ Complete(stderr[s])
      BY <3>2, StderrLines
    <3> QED
      <4>1. \A u \in Sender : (finish'[u] \/ Complete(stderr'[u]))
                                  => finish[u] \/ Complete(stderr[u])
        BY <3>1, <3>3
      <4> QED
        BY <2>1, <4>1 DEF ChainInv, FinishIsOwn, Complete
  <2> QED
    BY <1>1, <2>2, <2>3, <2>4 DEF ChainInv
<1>3. CASE ProcessEnded(s)
  <2>1. UNCHANGED <<created, finish, said, stderr>>
    BY <1>3 DEF ProcessEnded, poolVars, scanVars, listVars
  <2>2. s <= created
    <3>1. s \in Nat /\ created \in Nat
      BY NextNumber
    <3>2. child[s] # "none"
      BY <1>3 DEF ProcessEnded
    <3>3. ~(s > created)
      BY <3>2 DEF ChainInv, Unborn
    <3> QED
      BY <3>1, <3>3
  <2>3. Unborn'
    <3>1. s \in Nat /\ created \in Nat
      BY NextNumber
    <3> QED
      BY <1>3, <1>t, <2>1, <2>2, <3>1 DEF ChainInv, Unborn, ProcessEnded
  <2>4. ThreadAlone'
    BY <1>3, <1>t, <2>1 DEF ChainInv, ThreadAlone, ProcessEnded
  <2>5. FinishIsOwn'
    BY <1>3, <1>t, <2>1 DEF ChainInv, FinishIsOwn, ProcessEnded
  <2> QED
    BY <1>1, <2>3, <2>4, <2>5 DEF ChainInv
<1>4. CASE PipeBreaks(s) \/ PartMissing(s)
  <2>1. /\ UNCHANGED <<created, thread, child, said, stderr>>
        /\ finish' = [finish EXCEPT ![s] = FALSE]
    BY <1>4 DEF PipeBreaks, PartMissing, Abort, poolVars, scanVars, listVars
  <2>2. Unborn' /\ ThreadAlone' /\ FinishIsOwn'
    BY <1>t, <2>1 DEF ChainInv, Unborn, ThreadAlone, FinishIsOwn
  <2> QED
    BY <1>1, <2>2 DEF ChainInv
<1>5. CASE FeedEnds(s)
  <2>1. UNCHANGED <<created, thread, child, said, stderr, finish>>
    BY <1>5 DEF FeedEnds, poolVars, scanVars, listVars
  <2> QED
    BY <1>1, <2>1 DEF ChainInv, Unborn, ThreadAlone, FinishIsOwn
<1> QED
  BY <1>2, <1>3, <1>4, <1>5 DEF Event

LEMMA ChainStep == ChainInv /\ TypeInv /\ [Next]_vars => ChainInv'
<1> SUFFICES ASSUME ChainInv, TypeInv, [Next]_vars PROVE ChainInv'
  OBVIOUS
<1>1. CASE Handler \/ \E b \in Backup, a \in Address : Request(b, a)
  BY <1>1, ChainRequest
<1>2. ASSUME NEW s \in Sender,
             Thread(s) \/ Child(s) \/ Event(s) \/ FeedEnds(s) \/ PartMissing(s)
      PROVE  ChainInv'
  BY <1>2, ChainThread, ChainChild, ChainEvent
<1>3. CASE UNCHANGED vars
  <2>1. TypeOK'
    BY <1>3, StepTyped DEF TypeInv
  <2> QED
    BY <1>3, <2>1 DEF ChainInv, Unborn, ThreadAlone, FinishIsOwn, vars, poolVars, processVars
<1> QED
  BY <1>1, <1>2, <1>3 DEF Next

LEMMA ChainHolds == Spec => [](TypeInv /\ ChainInv)
<1>1. Init => ChainInv
  <2> SUFFICES ASSUME Init PROVE ChainInv
    OBVIOUS
  <2>1. TypeOK
    BY InitTyped DEF TypeInv
  <2> QED
    BY <2>1 DEF Init, ChainInv, Unborn, ThreadAlone, FinishIsOwn
<1> QED
  BY <1>1, InitTyped, StepTyped, ChainStep, PTL DEF Spec

\* A sender never has start_next queued or running while a process of its own
\* is alive or waits to be reaped.
THEOREM OneAtATime == Spec => []OneProcessPerSender
<1>1. ChainInv => OneProcessPerSender
  BY DEF ChainInv, ThreadAlone, OneProcessPerSender
<1> QED
  BY <1>1, ChainHolds, PTL

\* The next image is only asked for after a process that said it had finished
\* and exited with code 0, in every order of stdin, stderr and exit.
THEOREM NextOnlyAfterSuccess == Spec => NextAfterSuccess
<1> DEFINE Good == \A s \in 1 .. created :
         (thread[s] = "idle" /\ thread'[s] = "queued")
            => said[s] /\ child[s] = "exited0"
<1>1. ChainInv /\ TypeInv /\ [Next]_vars => Good
  <2> SUFFICES ASSUME ChainInv, TypeInv, [Next]_vars, NEW s \in 1 .. created,
                      thread[s] = "idle", thread'[s] = "queued"
               PROVE  said[s] /\ child[s] = "exited0"
    OBVIOUS
  <2>t. /\ s \in Sender /\ created \in Nat /\ s # created + 1
        /\ thread \in [Sender -> {"idle", "queued", "took", "forked", "drained"}]
    <3>1. created \in 0 .. MaxSenders
      BY DEF TypeInv, TypeOK
    <3>2. /\ s \in Sender /\ created \in Nat /\ s # created + 1
      BY <3>1, BoundsAssumption DEF Sender
    <3> QED
      BY <3>2 DEF TypeInv, TypeOK
  <2>1. ProcessEnded(s) /\ NextWanted(s)
    <3>1. CASE Handler \/ \E b \in Backup, a \in Address : Request(b, a)
      <4>1. \/ UNCHANGED thread
            \/ thread' = [thread EXCEPT ![created + 1] = "queued"]
        BY <3>1 DEF Handler, Request, JoinSender, PassOver, NoneWaiting, CollectPort,
                    CollectNextList, NewSender
      <4> QED
        BY <4>1, <2>t
    <3>2. ASSUME NEW u \in Sender, Thread(u) PROVE FALSE
      BY <3>2, <2>t DEF Thread, ThreadNext, ThreadSpawn, ThreadFeeds, ThreadUnset
    <3>3. ASSUME NEW u \in Sender, Child(u) \/ FeedEnds(u) \/ PartMissing(u) PROVE FALSE
      BY <3>3 DEF Child, ChildBinds, ChildStarts, ChildCompletes, ChildEnds, FeedEnds,
                  PartMissing, Abort
    <3>4. ASSUME NEW u \in Sender, Event(u) PROVE ProcessEnded(s) /\ NextWanted(s)
      BY <3>4, <2>t DEF Event, PipeBreaks, Abort, ErrReceived, ProcessEnded
    <3>5. CASE UNCHANGED vars
      BY <3>5 DEF vars
    <3> QED
      BY <3>1, <3>2, <3>3, <3>4, <3>5 DEF Next
  <2> QED
    BY <2>1, <2>t DEF ChainInv, FinishIsOwn, NextWanted
<1> QED
  BY <1>1, ChainHolds, PTL DEF Spec, NextAfterSuccess

-----------------------------------------------------------------------------
(* The pool: where clients gather, and ports *)

\* The senders that the request has missed so far: those of its own that gather
\* and those, of each list, whose port is not among the collected ones.
MissedGathering ==
    {u \in active : job[u] = ask /\ ~serving[u] /\ (step = "ports" \/ u \in behind)}
MissedPorts(l) ==
    {u \in InList(l) : u \notin seen /\ (u \in behind \/ (l # list /\ l \notin todo))}

TakenOut(s, l) == {t \in underPorts[s] : job[t].backup = l}

\* What is behind the iterator is the beginning of the list.
Iterator ==
    /\ step = "free" => behind = {}
    /\ step = "waiting" => ask.backup = list
    /\ step # "ports" => todo = {}
    /\ list \notin todo
    /\ behind \subseteq InList(list)
    /\ \A u \in behind, v \in InList(list) \ behind : u < v

\* What the history holds: senders that have been in the pool; of the request
\* that is going on, none that still is; of later ones, nothing.
History ==
    /\ active \subseteq 1 .. created
    /\ \A s \in Sender : underWaiting[s] \subseteq 1 .. created
                         /\ underPorts[s] \subseteq 1 .. created
    /\ \A s \in Sender :
          (s > created + 1 \/ (s = created + 1 /\ step = "free"))
             => underWaiting[s] = {} /\ underPorts[s] = {}
    /\ step = "waiting" => underPorts[created + 1] = {}
    /\ step # "free" => /\ underWaiting[created + 1] \cap active = {}
                        /\ underPorts[created + 1] \cap active = {}

\* Each sender that the request has missed is excused.
RequestExcused ==
    /\ step # "free" => Excused(MissedGathering, underWaiting[created + 1])
    /\ step = "ports" => \A l \in Backup : Excused(MissedPorts(l), TakenOut(created + 1, l))

PoolInv == /\ TypeInv /\ Iterator /\ History
           /\ RequestExcused /\ GatherAtOne /\ ActivePortsDistinct

SharesPort(s, l) == {u \in InList(l) : u < s /\ port[u] = port[s]}
OlderGathering(s) == {u \in active : u < s /\ job[u] = job[s] /\ ~serving[u]}

\* Fewer senders are excused, and by more.
LEMMA ExcusedLess ==
    ASSUME NEW A \in SUBSET Sender, NEW T \in SUBSET Sender, Excused(A, T),
           NEW B \in SUBSET A, NEW U \in SUBSET Sender, T \subseteq U
    PROVE  Excused(B, U)
<1>1. IsFiniteSet(A) /\ IsFiniteSet(T) /\ IsFiniteSet(U)
  BY SenderFinite, FS_Subset
<1>2. /\ Cardinality(B) <= Cardinality(A) /\ Cardinality(T) <= Cardinality(U)
      /\ IsFiniteSet(B)
  BY <1>1, FS_Subset
<1>3. /\ Cardinality(A) \in Nat /\ Cardinality(B) \in Nat
      /\ Cardinality(T) \in Nat /\ Cardinality(U) \in Nat
  BY <1>1, <1>2, FS_CardinalityType
<1>4. Cardinality(B) <= Cardinality(U)
  BY <1>2, <1>3 DEF Excused
<1>. QED  BY <1>4 DEF Excused

\* One more is excused by one more.
LEMMA ExcusedMore ==
    ASSUME NEW A \in SUBSET Sender, NEW T \in SUBSET Sender, Excused(A, T),
           NEW t \in Sender \ T, NEW m \in Sender, t < m,
           NEW B \in SUBSET (A \cup {m})
    PROVE  Excused(B, T \cup {t})
<1>1. IsFiniteSet(A) /\ IsFiniteSet(T)
  BY SenderFinite, FS_Subset
<1>2. /\ IsFiniteSet(A \cup {m})
      /\ Cardinality(A \cup {m}) = IF m \in A THEN Cardinality(A) ELSE Cardinality(A) + 1
      /\ Cardinality(T \cup {t}) = Cardinality(T) + 1
  BY <1>1, FS_AddElement
<1>3. Cardinality(A) \in Nat /\ Cardinality(T) \in Nat /\ Cardinality(A) <= Cardinality(T)
  BY <1>1, FS_CardinalityType DEF Excused
<1>4. IsFiniteSet(B) /\ Cardinality(B) <= Cardinality(A \cup {m})
  BY <1>2, FS_Subset
<1>5. Cardinality(B) \in Nat
  BY <1>4, FS_CardinalityType
<1>6. Cardinality(B) <= Cardinality(T \cup {t})
  BY <1>2, <1>3, <1>4, <1>5
<1>7. \A b \in B : \E x \in T \cup {t} : x < b
  BY DEF Excused
<1>. QED  BY <1>6, <1>7 DEF Excused

LEMMA NoneExcused ==
    ASSUME NEW T \in SUBSET Sender
    PROVE  Excused({}, T)
<1>1. Cardinality({}) = 0 /\ Cardinality(T) \in Nat
  BY SenderFinite, FS_Subset, FS_CardinalityType, FS_EmptySet
<1>. QED  BY <1>1 DEF Excused

\* What the iterator yields next, and when it has come to the end.
LEMMA UpcomingFirst ==
    ASSUME TypeInv
    PROVE  /\ \A u \in Upcoming : /\ u \in InList(list) \ behind /\ u \in Sender
                                  /\ \A v \in InList(list) \ behind : u <= v
           /\ Upcoming = {} => InList(list) \subseteq behind
<1>1. InList(list) \subseteq Sender /\ Sender \subseteq Nat
  BY NextNumber DEF InList, TypeInv, TypeOK
<1>2. ASSUME Upcoming = {} PROVE InList(list) \subseteq behind
  <2>. SUFFICES ASSUME InList(list) \ behind # {} PROVE FALSE
    OBVIOUS
  <2>1. PICK p \in InList(list) \ behind : \A q \in InList(list) \ behind : p <= q
    <3>1. InList(list) \ behind \in SUBSET Nat
      BY <1>1
    <3>. QED  BY <3>1, Least
  <2>2. p \in Upcoming
    BY <2>1 DEF Upcoming, First
  <2>. QED  BY <1>2, <2>2
<1>. QED  BY <1>1, <1>2 DEF Upcoming, First

\* The sets above are sets of senders.
LEMMA SendersOnly ==
    ASSUME TypeInv
    PROVE  /\ MissedGathering \in SUBSET Sender
           /\ \A l : MissedPorts(l) \in SUBSET Sender /\ InList(l) \in SUBSET Sender
           /\ \A s \in Sender :
                 /\ underWaiting[s] \in SUBSET Sender
                 /\ underPorts[s] \in SUBSET Sender
                 /\ OlderGathering(s) \in SUBSET Sender
                 /\ \A l : /\ TakenOut(s, l) \in SUBSET Sender
                           /\ SharesPort(s, l) \in SUBSET Sender
BY DEF MissedGathering, MissedPorts, InList, TakenOut, SharesPort, OlderGathering,
       TypeInv, TypeOK

\* A step that touches neither the lists nor a request.
LEMMA QuietStep ==
    ASSUME PoolInv, TypeInv', UNCHANGED <<poolVars, scanVars, listVars>>,
           \A s \in Sender : serving[s] => serving'[s]
    PROVE  PoolInv'
<1>1. Iterator' /\ History'
  BY DEF PoolInv, Iterator, History, InList, poolVars, scanVars, listVars
<1>s. active \in SUBSET Sender
  BY DEF PoolInv, TypeInv, TypeOK
<1>2. /\ MissedGathering' \subseteq MissedGathering
      /\ \A l : MissedPorts(l)' = MissedPorts(l)
      /\ \A s, l : TakenOut(s, l)' = TakenOut(s, l) /\ SharesPort(s, l)' = SharesPort(s, l)
      /\ \A s : OlderGathering(s)' \subseteq OlderGathering(s)
  BY <1>s DEF MissedGathering, MissedPorts, TakenOut, SharesPort, OlderGathering, InList,
              poolVars, scanVars, listVars
<1>3. RequestExcused'
  <2>1. ASSUME step # "free" PROVE Excused(MissedGathering', underWaiting[created + 1])
    <3>1. created + 1 \in Sender /\ Excused(MissedGathering, underWaiting[created + 1])
      BY <2>1, NextNumber DEF PoolInv, RequestExcused
    <3>. QED  BY <1>2, <3>1, SendersOnly, ExcusedLess DEF PoolInv
  <2>. QED  BY <1>2, <2>1 DEF PoolInv, RequestExcused, poolVars, scanVars, listVars
<1>4. GatherAtOne'
  <2>1. ASSUME NEW s \in active PROVE Excused(OlderGathering(s)', underWaiting[s])
    <3>1. s \in Sender /\ Excused(OlderGathering(s), underWaiting[s])
      BY DEF PoolInv, GatherAtOne, OlderGathering, TypeInv, TypeOK
    <3>. QED  BY <1>2, <3>1, SendersOnly, ExcusedLess DEF PoolInv
  <2>. QED  BY <2>1 DEF GatherAtOne, OlderGathering, listVars
<1>5. ActivePortsDistinct'
  BY <1>2 DEF PoolInv, ActivePortsDistinct, SharesPort, TakenOut, listVars
<1>. QED  BY <1>1, <1>3, <1>4, <1>5 DEF PoolInv

\* The excuses of the senders in the pool, in a step that lists no new sender
\* and takes nothing from the history of those that are listed.
LEMMA KeepExcuses ==
    ASSUME PoolInv, TypeInv', UNCHANGED <<poolVars, serving>>, active' \subseteq active,
           \A s \in active : underWaiting'[s] = underWaiting[s]
                             /\ underPorts'[s] = underPorts[s]
    PROVE  GatherAtOne' /\ ActivePortsDistinct'
<1>1. ASSUME NEW s \in active' PROVE Excused(OlderGathering(s)', underWaiting'[s])
  <2>1. s \in Sender /\ s \in active /\ underWaiting'[s] = underWaiting[s]
    BY DEF PoolInv, TypeInv, TypeOK
  <2>2. Excused(OlderGathering(s), underWaiting[s])
    BY <2>1 DEF PoolInv, GatherAtOne, OlderGathering
  <2>3. OlderGathering(s)' \subseteq OlderGathering(s)
    BY DEF OlderGathering, poolVars
  <2>. QED  BY <2>1, <2>2, <2>3, SendersOnly, ExcusedLess DEF PoolInv
<1>2. ASSUME NEW s \in active', NEW l \in Backup
      PROVE  Excused(SharesPort(s, l)', TakenOut(s, l)')
  <2>1. s \in Sender /\ s \in active /\ TakenOut(s, l)' = TakenOut(s, l)
    BY DEF PoolInv, TypeInv, TypeOK, TakenOut, poolVars
  <2>2. Excused(SharesPort(s, l), TakenOut(s, l))
    BY <2>1 DEF PoolInv, ActivePortsDistinct, SharesPort, TakenOut
  <2>3. SharesPort(s, l)' \subseteq SharesPort(s, l)
    BY DEF SharesPort, InList, poolVars
  <2>. QED  BY <2>1, <2>2, <2>3, SendersOnly, ExcusedLess DEF PoolInv
<1>. QED  BY <1>1, <1>2 DEF GatherAtOne, ActivePortsDistinct, OlderGathering, SharesPort, TakenOut

\* A sender that leaves from a place that the iterator has not passed, or that
\* is in no list.
LEMMA UnsetAhead ==
    ASSUME PoolInv, TypeInv', UNCHANGED <<poolVars, scanVars, serving>>,
           NEW s \in Sender, s \notin behind, Unset(s)
    PROVE  PoolInv'
<1>1. active' = active \ {s} /\ UNCHANGED <<behind, underWaiting, underPorts>>
  BY DEF Unset
<1>2. InList(list)' = InList(list) \ {s} /\ \A l : InList(l)' = InList(l) \ {s}
  BY <1>1 DEF InList, poolVars, scanVars
<1>3. Iterator'
  BY <1>1, <1>2 DEF PoolInv, Iterator, poolVars, scanVars
<1>4. History'
  BY <1>1 DEF PoolInv, History, poolVars, scanVars
<1>5. /\ MissedGathering' \subseteq MissedGathering
      /\ \A l : MissedPorts(l)' \subseteq MissedPorts(l)
      /\ \A t, l : TakenOut(t, l)' = TakenOut(t, l)
  BY <1>1, <1>2 DEF MissedGathering, MissedPorts, TakenOut, poolVars, scanVars
<1>6. RequestExcused'
  <2>1. ASSUME step # "free" PROVE Excused(MissedGathering', underWaiting[created + 1])
    <3>1. created + 1 \in Sender /\ Excused(MissedGathering, underWaiting[created + 1])
      BY <2>1, NextNumber DEF PoolInv, RequestExcused
    <3>. QED  BY <1>5, <3>1, SendersOnly, ExcusedLess DEF PoolInv
  <2>2. ASSUME step = "ports", NEW l \in Backup
        PROVE  Excused(MissedPorts(l)', TakenOut(created + 1, l)')
    <3>1. created + 1 \in Sender /\ Excused(MissedPorts(l), TakenOut(created + 1, l))
      BY <2>2, NextNumber DEF PoolInv, RequestExcused
    <3>2. /\ MissedPorts(l)' \subseteq MissedPorts(l)
          /\ TakenOut(created + 1, l)' = TakenOut(created + 1, l)
      BY <1>1, <1>5 DEF TakenOut, poolVars
    <3>3. /\ MissedPorts(l) \in SUBSET Sender
          /\ TakenOut(created + 1, l) \in SUBSET Sender
      BY <3>1, SendersOnly DEF PoolInv
    <3>. QED  BY <3>1, <3>2, <3>3, ExcusedLess
  <2>. QED  BY <1>1, <2>1, <2>2 DEF RequestExcused, poolVars, scanVars
<1>7. GatherAtOne' /\ ActivePortsDistinct'
  BY <1>1, KeepExcuses
<1>. QED  BY <1>3, <1>4, <1>6, <1>7 DEF PoolInv

\* A sender that leaves from behind the iterator: at most one is missed for it,
\* which stood later in the list.
LEMMA UnsetBehind ==
    ASSUME PoolInv, TypeInv', UNCHANGED <<poolVars, scanVars, serving>>,
           NEW s \in Sender, s \in behind, Unset(s)
    PROVE  PoolInv'
<1>. DEFINE n == created + 1
<1>1. /\ active' = active \ {s} /\ behind' = (behind \ {s}) \cup Upcoming
      /\ step # "free" /\ s \in InList(list) /\ s \in active /\ n \in Sender
      /\ created \in Nat /\ active \subseteq 1 .. created
      /\ \/ /\ step = "waiting" /\ underPorts' = underPorts
            /\ underWaiting' = [underWaiting EXCEPT ![n] = @ \cup {s}]
         \/ /\ step = "ports" /\ underWaiting' = underWaiting
            /\ underPorts' = [underPorts EXCEPT ![n] = @ \cup {s}]
  <2>1. step # "free" /\ s \in InList(list)
    BY DEF PoolInv, Iterator
  <2>. QED  BY <2>1, NextNumber DEF Unset, PoolInv, History, InList
<1>t. /\ underWaiting \in [Sender -> SUBSET Sender] /\ underPorts \in [Sender -> SUBSET Sender]
  BY DEF PoolInv, TypeInv, TypeOK
<1>2. InList(list)' = InList(list) \ {s} /\ \A l : InList(l)' = InList(l) \ {s}
  BY <1>1 DEF InList, poolVars, scanVars
<1>3. \A u \in Upcoming : /\ u \in InList(list) \ behind /\ u \in Sender /\ s < u
                          /\ \A v \in InList(list) \ behind : u <= v
  BY UpcomingFirst DEF PoolInv, Iterator
<1>4. \A u, v \in Upcoming : u = v
  <2>1. \A u, v \in Upcoming : u <= v /\ v <= u /\ u \in Nat /\ v \in Nat
    BY <1>3, NextNumber DEF PoolInv
  <2>. QED  BY <2>1
<1>5. Iterator'
  <2>1. behind' \subseteq InList(list)'
    BY <1>1, <1>2, <1>3 DEF PoolInv, Iterator
  <2>2. ASSUME NEW u \in behind', NEW v \in InList(list)' \ behind' PROVE u < v
    <3>1. v \in InList(list) \ behind /\ v \notin Upcoming
      BY <1>1, <1>2
    <3>2. CASE u \in behind
      BY <3>1, <3>2 DEF PoolInv, Iterator
    <3>3. CASE u \in Upcoming
      <4>1. u <= v /\ u # v /\ u \in Sender /\ v \in Sender
        BY <1>3, <3>1, <3>3, SendersOnly DEF PoolInv
      <4>. QED  BY <4>1, NextNumber DEF PoolInv
    <3>. QED  BY <1>1, <3>2, <3>3
  <2>. QED  BY <1>1, <2>1, <2>2 DEF PoolInv, Iterator, poolVars, scanVars
<1>6. History'
  <2>1. \A t \in Sender : t # n => underWaiting'[t] = underWaiting[t]
                                   /\ underPorts'[t] = underPorts[t]
    BY <1>1, <1>t
  <2>2. /\ underWaiting'[n] \subseteq underWaiting[n] \cup {s}
        /\ underPorts'[n] \subseteq underPorts[n] \cup {s}
        /\ step = "waiting" => underPorts'[n] = underPorts[n]
    BY <1>1, <1>t
  <2>3. s \in 1 .. created
    BY <1>1
  <2>. HIDE DEF n
  <2>4. /\ active' \subseteq 1 .. created
        /\ \A t \in Sender : underWaiting'[t] \subseteq 1 .. created
                             /\ underPorts'[t] \subseteq 1 .. created
    BY <1>1, <2>1, <2>2, <2>3 DEF PoolInv, History
  <2>5. \A t \in Sender : t > n => underWaiting'[t] = {} /\ underPorts'[t] = {}
    <3>1. n \in Nat
      BY <1>1 DEF n
    <3>2. \A t \in Sender : t > n => t # n /\ t > created + 1
      BY <1>1, <3>1 DEF n
    <3>. QED  BY <2>1, <3>2 DEF PoolInv, History
  <2>6. /\ underWaiting'[n] \cap active' = {} /\ underPorts'[n] \cap active' = {}
        /\ step = "waiting" => underPorts'[n] = {}
    BY <1>1, <2>2 DEF PoolInv, History, n
  <2>. QED  BY <1>1, <2>4, <2>5, <2>6 DEF History, n, poolVars, scanVars
<1>7. RequestExcused'
  <2>1. CASE step = "waiting"
    <3>1. /\ MissedGathering' \subseteq MissedGathering \cup Upcoming
          /\ underWaiting'[n] = underWaiting[n] \cup {s}
          /\ s \in Sender \ underWaiting[n]
          /\ Excused(MissedGathering, underWaiting[n])
      BY <1>1, <1>t, <2>1 DEF MissedGathering, PoolInv, RequestExcused, History, poolVars, scanVars
    <3>2. Excused(MissedGathering', underWaiting'[n])
      <4>1. CASE Upcoming = {}
        BY <1>1, <3>1, <4>1, SendersOnly, ExcusedLess DEF PoolInv
      <4>2. CASE Upcoming # {}
        <5>1. PICK m \in Upcoming : TRUE
          BY <4>2
        <5>2. MissedGathering' \subseteq MissedGathering \cup {m}
          BY <1>4, <3>1
        <5>. QED  BY <1>1, <1>3, <3>1, <5>1, <5>2, SendersOnly, ExcusedMore DEF PoolInv
      <4>. QED  BY <4>1, <4>2
    <3>. QED  BY <2>1, <3>2 DEF RequestExcused, poolVars, scanVars
  <2>2. CASE step = "ports"
    <3>1. Excused(MissedGathering', underWaiting'[n])
      <4>1. MissedGathering' \subseteq MissedGathering /\ underWaiting' = underWaiting
            /\ Excused(MissedGathering, underWaiting[n])
        BY <1>1, <2>2 DEF MissedGathering, PoolInv, RequestExcused, poolVars, scanVars
      <4>. QED  BY <1>1, <4>1, SendersOnly, ExcusedLess DEF PoolInv
    <3>2. ASSUME NEW l \in Backup PROVE Excused(MissedPorts(l)', TakenOut(n, l)')
      <4>1. underPorts'[n] = underPorts[n] \cup {s} /\ s \notin underPorts[n]
        BY <1>1, <1>t, <2>2 DEF PoolInv, History
      <4>2. Excused(MissedPorts(l), TakenOut(n, l))
        BY <2>2 DEF PoolInv, RequestExcused
      <4>3. job[s].backup = list
        BY <1>1 DEF InList
      <4>4. CASE l # list
        <5>1. MissedPorts(l)' \subseteq MissedPorts(l)
          BY <1>1, <1>2, <1>3, <4>4 DEF MissedPorts, InList, poolVars, scanVars
        <5>2. TakenOut(n, l)' = TakenOut(n, l)
          BY <4>1, <4>3, <4>4 DEF TakenOut, poolVars
        <5>. QED  BY <1>1, <4>2, <5>1, <5>2, SendersOnly, ExcusedLess DEF PoolInv
      <4>5. CASE l = list
        <5>1. MissedPorts(l)' \subseteq MissedPorts(l) \cup Upcoming
          BY <1>1, <1>2, <4>5 DEF MissedPorts, poolVars, scanVars
        <5>2. TakenOut(n, l)' = TakenOut(n, l) \cup {s} /\ s \notin TakenOut(n, l)
          BY <4>1, <4>3, <4>5 DEF TakenOut, poolVars
        <5>3. CASE Upcoming = {}
          BY <1>1, <4>2, <5>1, <5>2, <5>3, SendersOnly, ExcusedLess DEF PoolInv
        <5>4. CASE Upcoming # {}
          <6>1. PICK m \in Upcoming : TRUE
            BY <5>4
          <6>2. MissedPorts(l)' \subseteq MissedPorts(l) \cup {m}
            BY <1>4, <5>1
          <6>. QED  BY <1>1, <1>3, <4>2, <5>2, <6>1, <6>2, SendersOnly, ExcusedMore DEF PoolInv
        <5>. QED  BY <5>3, <5>4
      <4>. QED  BY <4>4, <4>5
    <3>. QED  BY <3>1, <3>2 DEF RequestExcused, poolVars, scanVars
  <2>. QED  BY <1>1, <2>1, <2>2
<1>8. GatherAtOne' /\ ActivePortsDistinct'
  <2>1. \A t \in active : underWaiting'[t] = underWaiting[t] /\ underPorts'[t] = underPorts[t]
    <3>1. \A t \in active : t \in Sender /\ t # n
      <4>1. active \in SUBSET Sender
        BY DEF PoolInv, TypeInv, TypeOK
      <4>. QED  BY <1>1, <4>1
    <3>. QED  BY <1>1, <1>t, <3>1
  <2>. QED  BY <1>1, <2>1, KeepExcuses
<1>. QED  BY <1>5, <1>6, <1>7, <1>8 DEF PoolInv

\* The steps of a request that list no new sender.
LEMMA RequestStep ==
    ASSUME PoolInv, TypeInv', NEW b \in Backup, NEW a \in Address, Request(b, a)
    PROVE  PoolInv'
<1>1. /\ UNCHANGED <<poolVars, todo, seen, listVars, serving>>
      /\ step = "free" /\ step' = "waiting" /\ behind = {}
      /\ ask' = [backup |-> b, address |-> a] /\ list' = b /\ todo = {}
      /\ created + 1 \in Sender
  <2>1. /\ UNCHANGED <<poolVars, todo, seen, listVars, serving>>
        /\ step = "free" /\ step' = "waiting" /\ created < MaxSenders
        /\ ask' = [backup |-> b, address |-> a] /\ list' = b
    BY DEF Request
  <2>2. behind = {} /\ todo = {}
    BY <2>1 DEF PoolInv, Iterator
  <2>3. created + 1 \in Sender
    BY <2>1, NextNumber DEF PoolInv, Sender
  <2>. QED  BY <2>1, <2>2, <2>3
<1>2. Iterator'
  BY <1>1 DEF Iterator, listVars
<1>3. underWaiting[created + 1] = {} /\ underPorts[created + 1] = {}
  BY <1>1 DEF PoolInv, History
<1>4. History'
  BY <1>1, <1>3 DEF PoolInv, History, poolVars, listVars
<1>5. RequestExcused'
  <2>1. MissedGathering' = {}
    BY <1>1 DEF MissedGathering, listVars
  <2>2. Excused({}, underWaiting[created + 1])
    BY <1>1, SendersOnly, NoneExcused DEF PoolInv
  <2>. QED  BY <1>1, <2>1, <2>2 DEF RequestExcused, poolVars, listVars
<1>6. GatherAtOne' /\ ActivePortsDistinct'
  BY <1>1, KeepExcuses DEF listVars
<1>. QED  BY <1>2, <1>4, <1>5, <1>6 DEF PoolInv

LEMMA JoinStep ==
    ASSUME PoolInv, TypeInv', JoinSender
    PROVE  PoolInv'
<1>1. /\ UNCHANGED <<poolVars, active, serving, underPorts>>
      /\ step = "waiting" /\ step' = "free" /\ behind' = {} /\ todo' = {}
      /\ underWaiting' = [underWaiting EXCEPT ![created + 1] = {}]
  BY DEF JoinSender, Return
<1>2. /\ created \in Nat /\ created + 1 \in Sender
      /\ underWaiting \in [Sender -> SUBSET Sender] /\ active \in SUBSET Sender
  BY <1>1, NextNumber DEF PoolInv, TypeInv, TypeOK
<1>3. Iterator'
  BY <1>1 DEF Iterator
<1>4. \A s \in Sender : underWaiting'[s] = IF s = created + 1 THEN {} ELSE underWaiting[s]
  BY <1>1, <1>2
<1>5. History'
  BY <1>1, <1>4 DEF PoolInv, History, poolVars
<1>6. RequestExcused'
  BY <1>1 DEF RequestExcused
<1>7. GatherAtOne' /\ ActivePortsDistinct'
  <2>1. \A s \in active : s # created + 1 /\ s \in Sender
    BY <1>2 DEF PoolInv, History
  <2>. QED  BY <1>1, <1>4, <2>1, KeepExcuses
<1>. QED  BY <1>3, <1>5, <1>6, <1>7 DEF PoolInv

\* The iterator goes on by one.
LEMMA PrefixGrows ==
    ASSUME PoolInv, NEW u \in Upcoming, behind' = behind \cup {u}, list' = list,
           UNCHANGED <<active, job>>
    PROVE  /\ behind' \subseteq InList(list)'
           /\ \A v \in behind', w \in InList(list)' \ behind' : v < w
<1>1. InList(list)' = InList(list)
  BY DEF InList
<1>2. u \in InList(list) /\ u \in Sender /\ \A v \in InList(list) \ behind : u <= v
  BY UpcomingFirst DEF PoolInv
<1>3. \A v \in InList(list) \ behind' : u < v
  <2>1. InList(list) \subseteq Sender
    BY SendersOnly DEF PoolInv
  <2>. QED  BY <1>2, <2>1, NextNumber DEF PoolInv
<1>. QED  BY <1>1, <1>2, <1>3 DEF PoolInv, Iterator

LEMMA PassStep ==
    ASSUME PoolInv, TypeInv', PassOver
    PROVE  PoolInv'
<1>1. PICK u \in Upcoming : ~Gathers(u) /\ behind' = behind \cup {u}
  BY DEF PassOver
<1>2. /\ UNCHANGED <<poolVars, scanVars, active, underWaiting, underPorts, serving>>
      /\ step = "waiting"
  BY DEF PassOver
<1>3. Iterator'
  BY <1>1, <1>2, PrefixGrows DEF PoolInv, Iterator, poolVars, scanVars
<1>4. History'
  BY <1>2 DEF PoolInv, History, poolVars, scanVars
<1>5. RequestExcused'
  <2>1. MissedGathering' = MissedGathering
    BY <1>1, <1>2 DEF MissedGathering, Gathers, poolVars, scanVars
  <2>. QED  BY <1>2, <2>1 DEF PoolInv, RequestExcused, poolVars, scanVars
<1>6. GatherAtOne' /\ ActivePortsDistinct'
  BY <1>2, KeepExcuses
<1>. QED  BY <1>3, <1>4, <1>5, <1>6 DEF PoolInv

LEMMA NoneStep ==
    ASSUME PoolInv, TypeInv', NoneWaiting
    PROVE  PoolInv'
<1>1. /\ UNCHANGED <<poolVars, ask, seen, active, underWaiting, underPorts, serving>>
      /\ step = "waiting" /\ step' = "ports" /\ behind' = {}
      /\ todo' = Backup \ {list'} /\ list' \in Backup
      /\ InList(list) \subseteq behind /\ ask.backup = list
      /\ created + 1 \in Sender
  BY UpcomingFirst, NextNumber DEF NoneWaiting, PoolInv, Iterator
<1>2. Iterator'
  BY <1>1 DEF Iterator
<1>3. History'
  BY <1>1 DEF PoolInv, History, poolVars
<1>4. RequestExcused'
  <2>1. MissedGathering' \subseteq MissedGathering
    BY <1>1 DEF MissedGathering, InList, poolVars
  <2>2. Excused(MissedGathering', underWaiting[created + 1])
    BY <1>1, <2>1, SendersOnly, ExcusedLess DEF PoolInv, RequestExcused
  <2>3. ASSUME NEW l \in Backup PROVE Excused(MissedPorts(l)', TakenOut(created + 1, l)')
    <3>1. MissedPorts(l)' = {}
      BY <1>1 DEF MissedPorts
    <3>2. TakenOut(created + 1, l)' \in SUBSET Sender
      BY <1>1, SendersOnly DEF PoolInv, TakenOut, poolVars
    <3>. QED  BY <3>1, <3>2, NoneExcused
  <2>. QED  BY <1>1, <2>2, <2>3 DEF RequestExcused, poolVars
<1>5. GatherAtOne' /\ ActivePortsDistinct'
  BY <1>1, KeepExcuses
<1>. QED  BY <1>2, <1>3, <1>4, <1>5 DEF PoolInv

\* The comprehension goes on, in its list or to another.
LEMMA CollectStep ==
    ASSUME PoolInv, TypeInv', CollectPort \/ CollectNextList
    PROVE  PoolInv'
<1>1. /\ UNCHANGED <<poolVars, step, ask, active, underWaiting, underPorts, serving>>
      /\ step = "ports" /\ created + 1 \in Sender
  BY NextNumber DEF CollectPort, CollectNextList, PoolInv
<1>2. Iterator' /\ \A l \in Backup : MissedPorts(l)' \subseteq MissedPorts(l)
  <2>1. CASE CollectPort
    <3>1. PICK u \in Upcoming : behind' = behind \cup {u} /\ seen' = seen \cup {u}
      BY <2>1 DEF CollectPort
    <3>2. UNCHANGED <<list, todo>>
      BY <2>1 DEF CollectPort
    <3>3. Iterator'
      BY <1>1, <3>1, <3>2, PrefixGrows DEF PoolInv, Iterator, poolVars
    <3>. QED  BY <1>1, <3>1, <3>2, <3>3 DEF MissedPorts, InList, poolVars
  <2>2. CASE CollectNextList
    <3>1. /\ behind' = {} /\ seen' = seen /\ InList(list) \subseteq behind
          /\ list' \in todo /\ todo' = todo \ {list'}
      BY <2>2, UpcomingFirst DEF CollectNextList, PoolInv
    <3>2. Iterator'
      BY <1>1, <3>1 DEF Iterator
    <3>. QED  BY <1>1, <3>1, <3>2 DEF MissedPorts, InList, poolVars
  <2>. QED  BY <2>1, <2>2
<1>3. History'
  BY <1>1 DEF PoolInv, History, poolVars
<1>4. RequestExcused'
  <2>1. MissedGathering' = MissedGathering
    BY <1>1 DEF MissedGathering, poolVars
  <2>2. ASSUME NEW l \in Backup PROVE Excused(MissedPorts(l)', TakenOut(created + 1, l)')
    <3>1. /\ MissedPorts(l)' \subseteq MissedPorts(l)
          /\ TakenOut(created + 1, l)' = TakenOut(created + 1, l)
          /\ Excused(MissedPorts(l), TakenOut(created + 1, l))
      BY <1>1, <1>2 DEF TakenOut, PoolInv, RequestExcused, poolVars
    <3>2. /\ MissedPorts(l) \in SUBSET Sender
          /\ TakenOut(created + 1, l) \in SUBSET Sender
      BY <1>1, SendersOnly DEF PoolInv
    <3>. QED  BY <3>1, <3>2, ExcusedLess
  <2>. QED  BY <1>1, <2>1, <2>2 DEF PoolInv, RequestExcused, poolVars
<1>5. GatherAtOne' /\ ActivePortsDistinct'
  BY <1>1, KeepExcuses
<1>. QED  BY <1>2, <1>3, <1>4, <1>5 DEF PoolInv

\* What the request has missed is what the new sender has to be excused for.
LEMMA NewStep ==
    ASSUME PoolInv, TypeInv', NEW k \in 0 .. MaxImgs, NewSender(k)
    PROVE  PoolInv'
<1>n. PICK n \in Sender : n = created + 1
  BY NextNumber DEF NewSender, PoolInv
<1>1. /\ n = created + 1 /\ step = "ports" /\ Upcoming = {} /\ todo = {} /\ step' = "free" /\ behind' = {}
      /\ todo' = {} /\ created' = n /\ n \in Sender /\ created \in Nat
      /\ job' = [job EXCEPT ![n] = ask] /\ port' = [port EXCEPT ![n] = FreePort]
      /\ active' = active \cup {n}
      /\ UNCHANGED <<underWaiting, underPorts, serving>>
  BY <1>n, NextNumber DEF NewSender, Return, PoolInv
<1>2. /\ active \subseteq 1 .. created /\ active \in SUBSET Sender
      /\ port \in [Sender -> Port] /\ job \in [Sender -> Job] /\ seen \in SUBSET Sender
      /\ \A s \in Sender : underWaiting[s] \subseteq 1 .. created /\ underPorts[s] \subseteq 1 .. created
  BY DEF PoolInv, History, TypeInv, TypeOK
<1>3. /\ \A s \in Sender : s # n => job'[s] = job[s] /\ port'[s] = port[s]
      /\ job'[n] = ask /\ port'[n] = FreePort
      /\ \A s \in active : s # n /\ s < n
      /\ \A s \in Sender : n \notin underPorts[s]
  <2>1. \A s \in 1 .. created : s # n /\ s < n
    BY <1>1
  <2>. QED  BY <1>1, <1>2, <2>1
<1>4. Iterator'
  BY <1>1 DEF Iterator
<1>5. History'
  <2>1. \A s \in 1 .. created : s \in 1 .. n
    BY <1>1
  <2>2. \A s \in Sender : s > n + 1 \/ s = n + 1 => s > created + 1 /\ s \in Nat
    BY <1>1, NextNumber DEF PoolInv
  <2>3. n \in 1 .. n
    BY <1>1
  <2>. QED  BY <1>1, <1>2, <2>1, <2>2, <2>3 DEF PoolInv, History
<1>6. RequestExcused'
  BY <1>1 DEF RequestExcused
<1>7. \A s \in Sender : \A l : TakenOut(s, l)' = TakenOut(s, l)
  BY <1>1, <1>2, <1>3 DEF TakenOut
<1>8. GatherAtOne'
  <2>1. ASSUME NEW s \in active PROVE Excused(OlderGathering(s)', underWaiting'[s])
    <3>1. OlderGathering(s)' \subseteq OlderGathering(s)
      BY <1>1, <1>2, <1>3 DEF OlderGathering
    <3>2. s \in Sender /\ Excused(OlderGathering(s), underWaiting[s])
      BY <1>2 DEF PoolInv, GatherAtOne, OlderGathering
    <3>. QED  BY <1>1, <3>1, <3>2, SendersOnly, ExcusedLess DEF PoolInv
  <2>2. Excused(OlderGathering(n)', underWaiting'[n])
    <3>1. OlderGathering(n)' \subseteq MissedGathering
      BY <1>1, <1>2, <1>3 DEF OlderGathering, MissedGathering
    <3>2. Excused(MissedGathering, underWaiting[n])
      BY <1>1 DEF PoolInv, RequestExcused
    <3>. QED  BY <1>1, <3>1, <3>2, SendersOnly, ExcusedLess DEF PoolInv
  <2>. QED  BY <1>1, <2>1, <2>2 DEF GatherAtOne, OlderGathering
<1>9. ActivePortsDistinct'
  <2>1. ASSUME NEW s \in active, NEW l \in Backup
        PROVE  Excused(SharesPort(s, l)', TakenOut(s, l)')
    <3>1. SharesPort(s, l)' \subseteq SharesPort(s, l)
      BY <1>1, <1>2, <1>3 DEF SharesPort, InList
    <3>2. s \in Sender /\ Excused(SharesPort(s, l), TakenOut(s, l))
      BY <1>2 DEF PoolInv, ActivePortsDistinct, SharesPort, TakenOut
    <3>3. /\ SharesPort(s, l) \in SUBSET Sender /\ TakenOut(s, l) \in SUBSET Sender
          /\ TakenOut(s, l)' = TakenOut(s, l)
      BY <1>7, <3>2, SendersOnly DEF PoolInv
    <3>. QED  BY <3>1, <3>2, <3>3, ExcusedLess
  <2>2. ASSUME NEW l \in Backup PROVE Excused(SharesPort(n, l)', TakenOut(n, l)')
    <3>1. InList(list) \subseteq behind
      BY <1>1, UpcomingFirst DEF PoolInv
    <3>2. \A u \in seen : port[u] # FreePort
      BY <1>2, FreePortFound DEF Taken
    <3>3. SharesPort(n, l)' \subseteq MissedPorts(l)
      <4>. SUFFICES ASSUME NEW u \in SharesPort(n, l)' PROVE u \in MissedPorts(l)
        OBVIOUS
      <4>1. /\ u \in active' /\ job'[u].backup = l /\ u < n /\ port'[u] = FreePort
        BY <1>3 DEF SharesPort, InList
      <4>2. u \in active /\ u # n
        BY <1>1, <4>1
      <4>3. u \in InList(l) /\ port[u] = FreePort
        BY <1>2, <1>3, <4>1, <4>2 DEF InList
      <4>4. u \notin seen /\ (l = list => u \in behind)
        BY <3>1, <3>2, <4>3
      <4>. QED  BY <1>1, <4>3, <4>4 DEF MissedPorts
    <3>4. Excused(MissedPorts(l), TakenOut(n, l))
      BY <1>1 DEF PoolInv, RequestExcused
    <3>5. /\ MissedPorts(l) \in SUBSET Sender /\ TakenOut(n, l) \in SUBSET Sender
          /\ TakenOut(n, l)' = TakenOut(n, l)
      BY <1>1, <1>7, SendersOnly DEF PoolInv
    <3>. QED  BY <3>3, <3>4, <3>5, ExcusedLess
  <2>. QED  BY <1>1, <2>1, <2>2 DEF ActivePortsDistinct, SharesPort, TakenOut
<1>. QED  BY <1>4, <1>5, <1>6, <1>8, <1>9 DEF PoolInv

LEMMA ThreadPool ==
    ASSUME PoolInv, TypeInv', NEW s \in Sender, Thread(s)
    PROVE  PoolInv'
<1>1. ASSUME Unset(s), UNCHANGED <<poolVars, scanVars, serving>> PROVE PoolInv'
  BY <1>1, UnsetAhead, UnsetBehind
<1>2. ASSUME UNCHANGED <<poolVars, scanVars, listVars, serving>> PROVE PoolInv'
  BY <1>2, QuietStep
<1>3. CASE ThreadNext(s) \/ ThreadSpawn(s)
  BY <1>2, <1>3 DEF ThreadNext, ThreadSpawn
<1>4. CASE ThreadFeeds(s)
  BY <1>1, <1>2, <1>4 DEF ThreadFeeds, Abort
<1>5. CASE ThreadUnset(s)
  BY <1>1, <1>5 DEF ThreadUnset
<1>. QED  BY <1>3, <1>4, <1>5 DEF Thread

LEMMA ReactorPool ==
    ASSUME PoolInv, TypeInv', NEW s \in Sender,
           Child(s) \/ Event(s) \/ FeedEnds(s) \/ PartMissing(s)
    PROVE  PoolInv'
<1>1. ASSUME UNCHANGED <<poolVars, scanVars, listVars, serving>> PROVE PoolInv'
  BY <1>1, QuietStep
<1>2. CASE Child(s)
  BY <1>1, <1>2 DEF Child, ChildBinds, ChildStarts, ChildCompletes, ChildEnds
<1>3. CASE PipeBreaks(s) \/ PartMissing(s)
  <2>1. Unset(s) /\ UNCHANGED <<poolVars, scanVars, serving>>
    BY <1>3 DEF PipeBreaks, PartMissing, Abort
  <2>. QED  BY <2>1, UnsetAhead, UnsetBehind
<1>4. CASE ErrReceived(s)
  <2>1. serving' = serving \/ serving' = [serving EXCEPT ![s] = TRUE]
    BY <1>4 DEF ErrReceived
  <2>2. \A u \in Sender : serving[u] => serving'[u]
    <3>1. serving \in [Sender -> BOOLEAN]
      BY DEF PoolInv, TypeInv, TypeOK
    <3>. QED  BY <2>1, <3>1
  <2>. QED  BY <1>4, <2>2, QuietStep DEF ErrReceived
<1>5. CASE ProcessEnded(s) \/ FeedEnds(s)
  BY <1>1, <1>5 DEF ProcessEnded, FeedEnds
<1>. QED  BY <1>2, <1>3, <1>4, <1>5 DEF Event

LEMMA PoolHolds == Spec => []PoolInv
<1>1. Init => PoolInv
  <2>. SUFFICES ASSUME Init PROVE PoolInv
    OBVIOUS
  <2>1. TypeInv /\ Iterator
    BY InitTyped DEF Init, Iterator
  <2>2. History
    BY DEF Init, History
  <2>. QED  BY <2>1, <2>2 DEF Init, PoolInv, RequestExcused, GatherAtOne, ActivePortsDistinct
<1>2. PoolInv /\ [Next]_vars => PoolInv'
  <2>. SUFFICES ASSUME PoolInv, [Next]_vars PROVE PoolInv'
    OBVIOUS
  <2>1. TypeInv'
    BY StepTyped DEF PoolInv
  <2>2. ASSUME NEW b \in Backup, NEW a \in Address, Request(b, a) PROVE PoolInv'
    BY <2>1, <2>2, RequestStep
  <2>3. CASE Handler
    BY <2>1, <2>3, JoinStep, PassStep, NoneStep, CollectStep, NewStep DEF Handler
  <2>4. ASSUME NEW s \in Sender,
               Thread(s) \/ Child(s) \/ Event(s) \/ FeedEnds(s) \/ PartMissing(s)
        PROVE  PoolInv'
    BY <2>1, <2>4, ThreadPool, ReactorPool
  <2>5. CASE UNCHANGED vars
    BY <2>1, <2>5, QuietStep DEF vars
  <2>. QED  BY <2>2, <2>3, <2>4, <2>5 DEF Next
<1>. QED  BY <1>1, <1>2, PTL DEF Spec

\* No sender is made while one gathers for the same backup and address, for any
\* number of senders and of threads that leave the lists under the scan; but for
\* one for each that leaves from behind the iterator.
THEOREM GatheredAtOne == Spec => []GatherAtOne
<1>1. PoolInv => GatherAtOne
  BY DEF PoolInv
<1>. QED  BY <1>1, PoolHolds, PTL

\* A new sender takes the port of no sender in the pool, for any number of
\* senders, of ports of other programs and of threads that leave the lists under
\* the search; but for one for each that leaves from behind the comprehension.
THEOREM PortsOfTheirOwn == Spec => []ActivePortsDistinct
<1>1. PoolInv => ActivePortsDistinct
  BY DEF PoolInv
<1>. QED  BY <1>1, PoolHolds, PTL
=============================================================================
