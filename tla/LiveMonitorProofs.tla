------------------------- MODULE LiveMonitorProofs -------------------------
(***************************************************************************)
(* Theorems about LiveMonitor: its type invariant, that no host is ever in *)
(* both halves of the page, and that processing a list leaves no host of   *)
(* it out.  They hold for every set of hosts, groups and statuses, for     *)
(* every length of the channels and for every number of requests.          *)
(***************************************************************************)
EXTENDS LiveMonitor, TLAPS

-----------------------------------------------------------------------------
(* Stores *)

\* The last loops only remove records, and none of a host of the list.
LEMMA SweptStore ==
    ASSUME NEW store, NEW hs, NEW after \in Swept(store, hs)
    PROVE  /\ DOMAIN after \subseteq DOMAIN store
           /\ DOMAIN store \cap hs \subseteq DOMAIN after
           /\ \A h \in DOMAIN after : after[h] = store[h]
BY DEF Swept, Without

\* The empty list is a list.
LEMMA NoListIsList == NoList \in List /\ DOMAIN NoList = {}
<1>1. NoList \in [{} -> Row] /\ DOMAIN NoList = {}
  BY DEF NoList
<1> QED
  BY <1>1 DEF List

\* The domain and the rows of a list.
LEMMA ListRows ==
    ASSUME NEW list \in List
    PROVE  /\ DOMAIN list \subseteq Host
           /\ list \in [DOMAIN list -> Row]
           /\ \A h \in Ungrouped(list) : h \in Host /\ list[h].status \in Status
           /\ \A h \in Grouped(list) : /\ h \in Host
                                       /\ list[h] \in [status : Status, group : Group]
           /\ Ungrouped(list) \cap Grouped(list) = {}
           /\ Ungrouped(list) \cup Grouped(list) = DOMAIN list
<1>1. PICK hs \in SUBSET Host : list \in [hs -> Row]
  BY DEF List
<1>2. DOMAIN list = hs
  BY <1>1
<1>3. \A h \in DOMAIN list : list[h] \in Row
  BY <1>1, <1>2
<1> QED
  BY <1>1, <1>2, <1>3 DEF Row, Ungrouped, Grouped

\* What the two stores hold of the page.
StoresTyped == /\ DOMAIN clients \subseteq Host
               /\ clients \in [DOMAIN clients -> Status]
               /\ DOMAIN groups \subseteq Host
               /\ groups \in [DOMAIN groups -> [status : Status, group : Group]]

\* processData keeps the stores typed.
LEMMA ProcessTyped ==
    ASSUME StoresTyped, NEW list \in List, ProcessData(list)
    PROVE  StoresTyped'
<1> DEFINE cs == ClientsAfter(list)
           gs == GroupsAfter(list)
<1>1. DOMAIN cs \subseteq Host /\ \A h \in DOMAIN cs : cs[h] \in Status
  BY ListRows DEF StoresTyped, ClientsAfter
<1>2. DOMAIN gs \subseteq Host /\ \A h \in DOMAIN gs : gs[h] \in [status : Status, group : Group]
  BY ListRows DEF StoresTyped, GroupsAfter
<1>3. PICK gone : clients' = Without(cs, gone)
  BY DEF ProcessData, Swept
<1>4. PICK out : groups' = Without(gs, out)
  BY DEF ProcessData, Swept
<1>5. DOMAIN clients' \subseteq Host /\ clients' \in [DOMAIN clients' -> Status]
  BY <1>1, <1>3 DEF Without
<1>6. DOMAIN groups' \subseteq Host /\ groups' \in [DOMAIN groups' -> [status : Status, group : Group]]
  BY <1>2, <1>4 DEF Without
<1> QED
  BY <1>5, <1>6 DEF StoresTyped

\* processData keeps the stores apart.
LEMMA ProcessApart ==
    ASSUME OneStore, NEW list \in List, ProcessData(list)
    PROVE  OneStore'
<1>1. DOMAIN ClientsAfter(list) \cap DOMAIN GroupsAfter(list) = {}
  BY ListRows DEF OneStore, ClientsAfter, GroupsAfter
<1>2. DOMAIN clients' \subseteq DOMAIN ClientsAfter(list)
  BY SweptStore DEF ProcessData
<1>3. DOMAIN groups' \subseteq DOMAIN GroupsAfter(list)
  BY SweptStore DEF ProcessData
<1> QED
  BY <1>1, <1>2, <1>3 DEF OneStore

\* processData shows every host of its list.
LEMMA ProcessShows ==
    ASSUME NEW list \in List, ProcessData(list), StoresTyped
    PROVE  ShowsListed(list, clients', groups')
<1> DEFINE cs == ClientsAfter(list)
           gs == GroupsAfter(list)
<1>1. \A h \in Ungrouped(list) : h \in DOMAIN cs \cap DOMAIN list /\ cs[h] = list[h].status
  BY ListRows DEF ClientsAfter
<1>2. \A h \in Grouped(list) : h \in DOMAIN gs \cap DOMAIN list /\ gs[h].status = list[h].status
  BY ListRows DEF GroupsAfter, StoresTyped
<1>3. /\ DOMAIN cs \cap DOMAIN list \subseteq DOMAIN clients'
      /\ \A h \in DOMAIN clients' : clients'[h] = cs[h]
  BY SweptStore DEF ProcessData
<1>4. /\ DOMAIN gs \cap DOMAIN list \subseteq DOMAIN groups'
      /\ \A h \in DOMAIN groups' : groups'[h] = gs[h]
  BY SweptStore DEF ProcessData
<1> QED
  BY <1>1, <1>2, <1>3, <1>4 DEF ShowsListed

-----------------------------------------------------------------------------
(* The two channels *)

\* What is left of a channel when its first list is taken.
LEMMA TailTyped ==
    ASSUME NEW q \in Seq(List), Len(q) <= MaxQueued, q # <<>>
    PROVE  /\ Head(q) \in List
           /\ Tail(q) \in Seq(List)
           /\ Len(Tail(q)) <= MaxQueued
BY BoundsAssumption

\* A channel that had room for one more list.
LEMMA AppendTyped ==
    ASSUME NEW q \in Seq(List), Len(q) < MaxQueued, NEW list \in List
    PROVE  /\ Append(q, list) \in Seq(List)
           /\ Len(Append(q, list)) <= MaxQueued
BY BoundsAssumption

-----------------------------------------------------------------------------
(* The type invariant *)

\* The conjuncts of TypeOK that are not about the stores.
Request == [state : {"idle", "asked", "answered"}, list : List]

LEMMA IdleTyped == Idle \in Request
BY NoListIsList DEF Idle, Request

LEMMA InitTyped == Init => TypeOK
<1> SUFFICES ASSUME Init PROVE TypeOK
  OBVIOUS
<1>1. listed \in List
  BY NoListIsList DEF Init
<1>2. sent \in Seq(List) /\ Len(sent) <= MaxQueued
  BY BoundsAssumption DEF Init
<1>3. wire \in Seq(List) /\ Len(wire) <= MaxQueued
  BY BoundsAssumption DEF Init
<1>4. ajax \in [Slot -> Request]
  BY IdleTyped DEF Init
<1>5. DOMAIN clients \subseteq Host /\ clients \in [DOMAIN clients -> Status]
  BY DEF Init
<1>6. DOMAIN groups \subseteq Host /\ groups \in [DOMAIN groups -> [status : Status, group : Group]]
  BY DEF Init, NoList
<1> QED
  BY <1>1, <1>2, <1>3, <1>4, <1>5, <1>6 DEF Init, TypeOK, Request

LEMMA StepTyped == TypeOK /\ [Next]_vars => TypeOK'
<1> SUFFICES ASSUME TypeOK, [Next]_vars PROVE TypeOK'
  OBVIOUS
<1>t. StoresTyped /\ ajax \in [Slot -> Request]
  BY DEF TypeOK, StoresTyped, Request
<1>1. CASE Publish
  <2>1. PICK list \in List : Update(list)
    BY <1>1 DEF Publish
  <2>2. sent' \in Seq(List) /\ Len(sent') <= MaxQueued
    BY <2>1, AppendTyped DEF TypeOK, Update
  <2> QED
    BY <2>1, <2>2 DEF TypeOK, Update, net, stores
<1>2. CASE LinkUp
  BY <1>2 DEF TypeOK, LinkUp, net, stores
<1>3. CASE LinkLost
  <2>1. sent' \in Seq(List) /\ Len(sent') <= MaxQueued
    BY <1>3, BoundsAssumption DEF LinkLost
  <2> QED
    BY <1>3, <2>1 DEF TypeOK, LinkLost, net, stores
<1>4. CASE Forward
  <2>1. /\ Head(sent) \in List
        /\ sent' \in Seq(List) /\ Len(sent') <= MaxQueued
    BY <1>4, TailTyped DEF TypeOK, Forward
  <2>2. wire' \in Seq(List) /\ Len(wire') <= MaxQueued
    BY <1>4, <2>1, AppendTyped DEF TypeOK, Forward
  <2> QED
    BY <1>4, <2>1, <2>2 DEF TypeOK, Forward, stores
<1>5. CASE Restart
  <2>1. listed' \in List
    BY <1>5, NoListIsList DEF Restart
  <2>2. /\ sent' \in Seq(List) /\ Len(sent') <= MaxQueued
        /\ wire' \in Seq(List) /\ Len(wire') <= MaxQueued
    BY <1>5, BoundsAssumption DEF Restart
  <2>3. ajax' \in [Slot -> Request]
    BY <1>5, <1>t, IdleTyped DEF Restart
  <2> QED
    BY <1>5, <2>1, <2>2, <2>3 DEF TypeOK, Restart, stores, Request
<1>6. CASE StartStomp
  BY <1>6 DEF TypeOK, StartStomp, server, stores
<1>7. CASE OnOpen
  <2>1. PICK s \in Slot : ajax' = [ajax EXCEPT ![s].state = "asked"]
    BY <1>7 DEF OnOpen
  <2>2. ajax' \in [Slot -> Request]
    BY <2>1, <1>t DEF Request
  <2> QED
    BY <1>7, <2>2 DEF TypeOK, OnOpen, server, stores, Request
<1>8. CASE Subscribe
  BY <1>8 DEF TypeOK, Subscribe, server, stores
<1>9. CASE OnClose
  <2>1. wire' \in Seq(List) /\ Len(wire') <= MaxQueued
    BY <1>9, BoundsAssumption DEF OnClose
  <2> QED
    BY <1>9, <2>1 DEF TypeOK, OnClose, server, stores
<1>10. CASE OnMessage
  <2>1. /\ Head(wire) \in List
        /\ wire' \in Seq(List) /\ Len(wire') <= MaxQueued
    BY <1>10, TailTyped DEF TypeOK, OnMessage
  <2>2. StoresTyped'
    BY <1>10, <1>t, <2>1, ProcessTyped DEF OnMessage
  <2> QED
    BY <1>10, <2>1, <2>2 DEF TypeOK, OnMessage, StoresTyped, server
<1>11. CASE Answered
  <2>1. PICK s \in Slot : OnAnswer(s) \/ AnswerFails(s)
    BY <1>11 DEF Answered
  <2>2. ajax' \in [Slot -> Request]
    BY <2>1, <1>t, IdleTyped DEF OnAnswer, AnswerFails
  <2>3. StoresTyped'
    <3>1. CASE OnAnswer(s)
      <4>1. ajax[s].list \in List
        BY <1>t DEF Request
      <4> QED
        BY <3>1, <4>1, <1>t, ProcessTyped DEF OnAnswer
    <3>2. CASE AnswerFails(s)
      BY <3>2, <1>t DEF AnswerFails, stores, StoresTyped
    <3> QED
      BY <2>1, <3>1, <3>2
  <2>4. UNCHANGED <<server, page, wire>>
    BY <2>1 DEF OnAnswer, AnswerFails
  <2> QED
    BY <2>2, <2>3, <2>4 DEF TypeOK, StoresTyped, server, Request
<1>12. CASE \E s \in Slot : JsonStatus(s)
  <2>1. PICK s \in Slot : JsonStatus(s)
    BY <1>12
  <2>2. ajax' \in [Slot -> Request]
    BY <2>1, <1>t DEF JsonStatus, TypeOK, Request
  <2> QED
    BY <2>1, <2>2 DEF TypeOK, JsonStatus, server, stores, Request
<1>13. CASE UNCHANGED vars
  BY <1>13 DEF TypeOK, vars, server, net, stores
<1> QED
  BY <1>1, <1>2, <1>3, <1>4, <1>5, <1>6, <1>7, <1>8, <1>9, <1>10, <1>11,
     <1>12, <1>13 DEF Next

\* Every reachable state is well typed: the channels keep their bound, and
\* groupStore only ever holds hosts of a group.
THEOREM TypeCorrect == Spec => []TypeOK
BY InitTyped, StepTyped, PTL DEF Spec

-----------------------------------------------------------------------------
(* The page *)

\* What processData is given is a list.
LEMMA ProcessedIsList ==
    ASSUME TypeOK
    PROVE  /\ OnMessage => Head(wire) \in List
           /\ \A s \in Slot : ajax[s].list \in List
BY TailTyped DEF TypeOK, OnMessage

LEMMA StepApart == TypeOK /\ OneStore /\ [Next]_vars => OneStore'
<1> SUFFICES ASSUME TypeOK, OneStore, [Next]_vars PROVE OneStore'
  OBVIOUS
<1>1. CASE OnMessage
  BY <1>1, ProcessedIsList, ProcessApart DEF OnMessage
<1>2. ASSUME NEW s \in Slot, OnAnswer(s) PROVE OneStore'
  BY <1>2, ProcessedIsList, ProcessApart DEF OnAnswer
<1>3. CASE UNCHANGED stores
  BY <1>3 DEF stores, OneStore
<1> QED
  BY <1>1, <1>2, <1>3 DEF Next, vars, Publish, Update, LinkUp, LinkLost, Forward,
     Restart, StartStomp, OnOpen, Subscribe, OnClose, Answered, AnswerFails, JsonStatus

\* No host is ever in both halves of the page: processData takes a host out
\* of one store whenever it puts it in the other, whatever list comes late.
THEOREM NeverInBoth == Spec => []OneStore
<1>1. Init => OneStore
  BY DEF Init, OneStore
<1> QED
  BY <1>1, StepApart, TypeCorrect, PTL DEF Spec

\* Whatever list the page processes and whatever it showed before, every host
\* of the list is shown afterwards, in its half and with its status.
THEOREM ListsAreShown == Spec => ListedShown
<1> DEFINE Shows == /\ OnMessage => ShowsListed(Head(wire), clients', groups')
                    /\ \A s \in Slot : OnAnswer(s) => ShowsListed(ajax[s].list, clients', groups')
<1>1. TypeOK => Shows
  <2> SUFFICES ASSUME TypeOK PROVE Shows
    OBVIOUS
  <2>1. StoresTyped
    BY DEF TypeOK, StoresTyped
  <2>2. ASSUME OnMessage PROVE ShowsListed(Head(wire), clients', groups')
    BY <2>1, <2>2, ProcessedIsList, ProcessShows DEF OnMessage
  <2>3. ASSUME NEW s \in Slot, OnAnswer(s)
        PROVE  ShowsListed(ajax[s].list, clients', groups')
    BY <2>1, <2>3, ProcessedIsList, ProcessShows DEF OnAnswer
  <2> QED
    BY <2>2, <2>3
<1> QED
  BY <1>1, TypeCorrect, PTL DEF ListedShown
=============================================================================
