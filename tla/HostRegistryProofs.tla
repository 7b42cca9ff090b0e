------------------------- MODULE HostRegistryProofs -------------------------
(***************************************************************************)
(* Proofs about HostRegistry for any number of clients, requests, groups   *)
(* and commands, and for both behaviours of write() on a finished request. *)
(***************************************************************************)
EXTENDS HostRegistry, FiniteSetTheorems, TLAPS

-----------------------------------------------------------------------------
(* Operators *)

\* A loop of commands only reaches registered hosts whose command returns.
LEMMA ReachedHosts ==
    ASSUME NEW targets, NEW done \in Reached(targets)
    PROVE  /\ done \subseteq Registered
           /\ \A h \in done : Returns(Current(h))
  BY DEF Reached

\* Automatic names are told apart by their number.
LEMMA AutoGroupInjective ==
    ASSUME NEW m \in Nat, NEW n \in Nat, AutoGroup(m) = AutoGroup(n)
    PROVE  m = n
  BY DEF AutoGroup

\* addToGroup keeps the map of groups well typed and adds at most one name.
LEMMA GroupsWithType ==
    ASSUME DOMAIN groups \subseteq GroupName,
           groups \in [DOMAIN groups -> GroupRecord],
           NEW name \in GroupName, NEW hs \in SUBSET Host,
           NEW cfg \in SUBSET Words
    PROVE  LET after == GroupsWith(name, hs, cfg)
           IN  /\ DOMAIN after = DOMAIN groups \cup {name}
               /\ DOMAIN after \subseteq GroupName
               /\ after \in [DOMAIN after -> GroupRecord]
               /\ hs \subseteq after[name].hosts
               /\ \A g \in DOMAIN groups : groups[g].hosts \subseteq after[g].hosts
  <1> DEFINE after == GroupsWith(name, hs, cfg)
  <1>1. DOMAIN after = DOMAIN groups \cup {name}
    BY DEF GroupsWith
  <1>2. \A g \in DOMAIN after : after[g] \in GroupRecord
    BY DEF GroupsWith, GroupRecord
  <1>3. after = [g \in DOMAIN after |-> after[g]]
    BY DEF GroupsWith
  <1>4. hs \subseteq after[name].hosts
    BY DEF GroupsWith
  <1>5. \A g \in DOMAIN groups : groups[g].hosts \subseteq after[g].hosts
    BY DEF GroupsWith, GroupRecord
  <1> HIDE DEF after
  <1>6. after \in [DOMAIN after -> GroupRecord]
    BY <1>2, <1>3
  <1> QED
    BY <1>1, <1>4, <1>5, <1>6 DEF after

\* delFromGroup keeps the groups and every member that is not taken out.
LEMMA GroupsWithoutType ==
    ASSUME groups \in [DOMAIN groups -> GroupRecord], NEW name, NEW out
    PROVE  LET after == GroupsWithout(name, out)
           IN  /\ DOMAIN after = DOMAIN groups
               /\ after \in [DOMAIN groups -> GroupRecord]
               /\ \A g \in DOMAIN groups : groups[g].hosts \ out \subseteq after[g].hosts
               /\ \A g \in DOMAIN groups \ {name} : after[g] = groups[g]
  BY DEF GroupsWithout, GroupRecord

-----------------------------------------------------------------------------
(* Type correctness *)

\* The number of groups is finite and bounded, which the name of an automatic
\* group needs in order to be a name at all; and no automatic name has a
\* number above it.
GroupsCounted ==
    /\ IsFiniteSet(DOMAIN groups)
    /\ Cardinality(DOMAIN groups) <= MaxGroups
    /\ \A n \in 1 .. MaxGroups :
          AutoGroup(n) \in DOMAIN groups => n <= Cardinality(DOMAIN groups)

TypeInv == TypeOK /\ GroupsCounted

\* A map of groups with one more name is still counted, whether the page or
\* request_status made the name.
LEMMA CountedWithOneMore ==
    ASSUME GroupsCounted, NEW name,
           name \in DOMAIN groups \/ Cardinality(DOMAIN groups) < MaxGroups,
           \/ name \in WebGroup
           \/ name \in DOMAIN groups
           \/ name = AutoGroup(Cardinality(DOMAIN groups) + 1),
           DOMAIN groups' = DOMAIN groups \cup {name}
    PROVE  GroupsCounted'
  <1>1. CASE name \in DOMAIN groups
    <2>1. DOMAIN groups' = DOMAIN groups
      BY <1>1
    <2> QED
      BY <2>1 DEF GroupsCounted
  <1>2. CASE name \notin DOMAIN groups
    <2> DEFINE c == Cardinality(DOMAIN groups)
    <2>1. /\ IsFiniteSet(DOMAIN groups')
          /\ Cardinality(DOMAIN groups') = c + 1
      BY <1>2, FS_AddElement DEF GroupsCounted
    <2>2. c \in Nat
      BY FS_CardinalityType DEF GroupsCounted
    <2>3. \A n \in 1 .. MaxGroups :
             AutoGroup(n) \in DOMAIN groups' => n <= c + 1
      <3> SUFFICES ASSUME NEW n \in 1 .. MaxGroups, AutoGroup(n) \in DOMAIN groups'
                   PROVE  n <= c + 1
        OBVIOUS
      <3>1. CASE AutoGroup(n) \in DOMAIN groups
        BY <3>1, <2>2, BoundsAssumption DEF GroupsCounted
      <3>2. CASE AutoGroup(n) = name
        <4>1. name \notin WebGroup
          BY <3>2, NamesAssumption, BoundsAssumption
        <4>2. AutoGroup(n) = AutoGroup(c + 1)
          BY <4>1, <1>2, <3>2
        <4> QED
          BY <4>2, <2>2, AutoGroupInjective, BoundsAssumption
      <3> QED
        BY <3>1, <3>2
    <2> QED
      BY <1>2, <2>1, <2>2, <2>3, BoundsAssumption DEF GroupsCounted
  <1> QED
    BY <1>1, <1>2

\* The name request_status gives is a name of a group.
LEMMA NextAutoGroupName ==
    ASSUME GroupsCounted, Cardinality(DOMAIN groups) < MaxGroups
    PROVE  AutoGroup(Cardinality(DOMAIN groups) + 1) \in GroupName
  <1>1. Cardinality(DOMAIN groups) \in Nat
    BY FS_CardinalityType DEF GroupsCounted
  <1> QED
    BY <1>1, BoundsAssumption DEF GroupName

\* Where Order and its callers leave the variables.
LEMMA TellType ==
    ASSUME TypeOK, NEW targets, NEW done \in Reached(targets),
           NEW cmd \in Command, NEW st \in [Host -> Status],
           Tell(done, cmd, st)
    PROVE  /\ req' \in [Request -> {"unused", "open", "lost"} \cup Command]
           /\ timers' \in SUBSET Request
           /\ status' \in [Host -> Status]
  BY DEF Tell, TypeOK, Answered, Status

\* The list that sendStatus builds.
LEMMA ViewType ==
    ASSUME NEW st \in [Host -> Status], NEW gr \in [Host -> GroupName \cup {NoGroup}]
    PROVE  /\ DOMAIN View(st, gr) = Registered
           /\ DOMAIN View(st, gr) \subseteq Host
           /\ View(st, gr) \in [Registered -> Shown]
  BY DEF View, Registered, Shown

\* Types and the count of groups are kept by every step.
LEMMA TypeStep ==
    ASSUME TypeInv, [Next]_vars
    PROVE  TypeInv'
  <1> USE DEF TypeInv
  <1>1. CASE UNCHANGED vars
    BY <1>1 DEF TypeOK, GroupsCounted, vars, channel, registry, sending
  <1>2. ASSUME NEW h \in Host, Poll(h)
        PROVE  TypeInv'
    <2> DEFINE r == accepted + 1
               o == IF h \in Registered THEN object[h] ELSE r
    <2>1. r \in Request /\ o \in Request /\ r \in 0 .. MaxRequests
      BY <1>2, BoundsAssumption DEF Poll, TypeOK, Registered, Request, None
    <2>2. /\ accepted' \in 0 .. MaxRequests
          /\ req' \in [Request -> {"unused", "open", "lost"} \cup Command]
          /\ timers' \in SUBSET Request
      BY <1>2, <2>1 DEF Poll, TypeOK, Deferred
    <2>3. /\ owner' \in [Request -> 0 .. MaxRequests]
          /\ request' \in [Request -> 0 .. MaxRequests]
          /\ object' \in [Host -> 0 .. MaxRequests]
      BY <1>2, <2>1, BoundsAssumption DEF Poll, TypeOK, WithRequest, Request
    <2>4. /\ status' \in [Host -> Status]
          /\ group' \in [Host -> GroupName \cup {NoGroup}]
          /\ hasMessages' \in BOOLEAN
      BY <1>2 DEF Poll, TypeOK, Status
    <2> QED
      BY <1>2, <2>2, <2>3, <2>4 DEF Poll, TypeOK, GroupsCounted, sending
  <1>3. ASSUME NEW r \in Request, ClientGone(r)
        PROVE  TypeInv'
    BY <1>3 DEF ClientGone, TypeOK, GroupsCounted, registry, sending
  <1>4. ASSUME NEW h \in Host, NEW completed \in BOOLEAN, StatusReport(h, completed)
        PROVE  TypeInv'
    <2> DEFINE auto  == group[h] = NoGroup
               name  == IF auto THEN AutoGroup(Cardinality(DOMAIN groups) + 1)
                                ELSE group[h]
               after == IF auto THEN GroupsWith(name, {h}, {}) ELSE groups
               st    == [status EXCEPT ![h] = "Trabajando"]
    <2>1. name \in GroupName
      BY <1>4, NextAutoGroupName DEF StatusReport, TypeOK
    <2>2. /\ DOMAIN groups' \subseteq GroupName
          /\ groups' \in [DOMAIN groups' -> GroupRecord]
      <3>1. CASE auto
        <4>1. groups' = GroupsWith(name, {h}, {})
          BY <1>4, <3>1 DEF StatusReport
        <4> HIDE DEF name
        <4>2. {h} \in SUBSET Host /\ {} \in SUBSET Words
          OBVIOUS
        <4>3. /\ DOMAIN groups \subseteq GroupName
              /\ groups \in [DOMAIN groups -> GroupRecord]
          BY DEF TypeOK
        <4> QED
          BY <4>1, <4>2, <4>3, <2>1, GroupsWithType
      <3>2. CASE ~auto
        BY <1>4, <3>2 DEF StatusReport, TypeOK
      <3> QED
        BY <3>1, <3>2
    <2>3. GroupsCounted'
      <3>1. CASE auto
        <4>1. DOMAIN groups' = DOMAIN groups \cup {name}
          BY <1>4, <3>1 DEF StatusReport, GroupsWith
        <4>2. Cardinality(DOMAIN groups) < MaxGroups
          BY <1>4, <3>1 DEF StatusReport
        <4>3. name = AutoGroup(Cardinality(DOMAIN groups) + 1)
          BY <3>1
        <4> HIDE DEF name
        <4> QED
          BY <4>1, <4>2, <4>3, CountedWithOneMore
      <3>2. CASE ~auto
        BY <1>4, <3>2 DEF StatusReport, GroupsCounted
      <3> QED
        BY <3>1, <3>2
    <2>4. group' \in [Host -> GroupName \cup {NoGroup}]
      <3>1. group' = Assigned({h}, name)
        BY <1>4 DEF StatusReport
      <3> HIDE DEF name
      <3> QED
        BY <3>1, <2>1 DEF Assigned, TypeOK
    <2>5. /\ DOMAIN snapshot' \subseteq Host
          /\ snapshot' \in [DOMAIN snapshot' -> Shown]
          /\ halfEdited' \in BOOLEAN
      <3>1. CASE auto
        <4>1. snapshot' = View(status, group') /\ halfEdited' = FALSE
          BY <1>4, <3>1 DEF StatusReport, Publish
        <4> QED
          BY <4>1, <2>4, ViewType DEF TypeOK
      <3>2. CASE ~auto
        BY <1>4, <3>2 DEF StatusReport, TypeOK, sending
      <3> QED
        BY <3>1, <3>2
    <2>6. /\ req' \in [Request -> {"unused", "open", "lost"} \cup Command]
          /\ timers' \in SUBSET Request
          /\ status' \in [Host -> Status]
      <3>1. st \in [Host -> Status]
        BY DEF TypeOK, Status
      <3>2. \A cfg : LastWord(cfg) \in Command
        BY DEF LastWord, Command
      <3>3. \/ \E done \in Reached({h}) : Tell(done, LastWord(after[name].config), st)
            \/ status' = st /\ UNCHANGED <<req, timers>>
        BY <1>4 DEF StatusReport
      <3> HIDE DEF st, after, name
      <3> QED
        BY <3>1, <3>2, <3>3, TellType DEF TypeOK
    <2> QED
      BY <1>4, <2>2, <2>3, <2>4, <2>5, <2>6 DEF StatusReport, TypeOK
  <1>5. ASSUME NEW r \in Request, TimerFires(r)
        PROVE  TypeInv'
    <2>1. req' \in [Request -> {"unused", "open", "lost"} \cup Command]
      BY <1>5 DEF TimerFires, TypeOK, Answered, Command
    <2> QED
      BY <1>5, <2>1 DEF TimerFires, TypeOK, Status, GroupsCounted, registry, sending
  <1>6. CASE PeriodicStatus
    <2>1. snapshot' \in [Registered -> Shown] /\ Registered \subseteq Host
      BY <1>6, ViewType DEF PeriodicStatus, Publish, TypeOK
    <2> QED
      BY <1>6, <2>1 DEF PeriodicStatus, Publish, TypeOK, GroupsCounted, channel, registry
  <1>7. ASSUME NEW targets, NEW cmd \in Command, Order(targets, cmd)
        PROVE  TypeInv'
    BY <1>7, TellType DEF Order, TypeOK, GroupsCounted, registry, sending
  <1>8. ASSUME NEW g \in WebGroup, NEW hs \in SUBSET Host, NEW cfg \in Config,
               NEW launch \in BOOLEAN, GroupConfig(g, hs, cfg, launch)
        PROVE  TypeInv'
    <2>1. groups' = GroupsWith(g, hs, cfg) /\ g \in GroupName /\ cfg \in SUBSET Words
      BY <1>8, ConfigAssumption DEF GroupConfig, GroupName
    <2>2. /\ DOMAIN groups' = DOMAIN groups \cup {g}
          /\ DOMAIN groups' \subseteq GroupName
          /\ groups' \in [DOMAIN groups' -> GroupRecord]
      BY <2>1, GroupsWithType DEF TypeOK
    <2>3. GroupsCounted'
      BY <1>8, <2>2, CountedWithOneMore DEF GroupConfig
    <2>4. group' \in [Host -> GroupName \cup {NoGroup}]
      BY <1>8, <2>1 DEF GroupConfig, Assigned, TypeOK
    <2>5. /\ DOMAIN snapshot' \subseteq Host
          /\ snapshot' \in [DOMAIN snapshot' -> Shown]
          /\ halfEdited' \in BOOLEAN
      <3>1. \/ snapshot' = View(status, group') /\ halfEdited' = FALSE
            \/ halfEdited' = TRUE /\ UNCHANGED snapshot
        BY <1>8 DEF GroupConfig, Publish
      <3>2. CASE snapshot' = View(status, group') /\ halfEdited' = FALSE
        BY <3>2, <2>4, ViewType DEF TypeOK
      <3>3. CASE halfEdited' = TRUE /\ UNCHANGED snapshot
        BY <3>3 DEF TypeOK
      <3> QED
        BY <3>1, <3>2, <3>3
    <2>6. /\ req' \in [Request -> {"unused", "open", "lost"} \cup Command]
          /\ timers' \in SUBSET Request
          /\ status' \in [Host -> Status]
          /\ hasMessages' \in BOOLEAN
      <3>1. \/ /\ \E done \in Reached(GroupsWith(g, hs, cfg)[g].hosts) :
                     Tell(done, "backharddi_do", status)
               /\ hasMessages' \in BOOLEAN
            \/ hasMessages' \in BOOLEAN /\ UNCHANGED <<req, timers, status>>
        BY <1>8 DEF GroupConfig, TypeOK
      <3> QED
        BY <3>1, TellType DEF TypeOK, Command
    <2> QED
      BY <1>8, <2>2, <2>3, <2>4, <2>5, <2>6 DEF GroupConfig, TypeOK
  <1>9. ASSUME NEW g \in GroupName, NEW hs \in SUBSET Host, DelFromGroup(g, hs)
        PROVE  TypeInv'
    <2>1. \E out : groups' = GroupsWithout(g, out)
      BY <1>9 DEF DelFromGroup
    <2>2. /\ DOMAIN groups' = DOMAIN groups
          /\ groups' \in [DOMAIN groups -> GroupRecord]
      BY <2>1, GroupsWithoutType DEF TypeOK
    <2>3. group' \in [Host -> GroupName \cup {NoGroup}]
      BY <1>9 DEF DelFromGroup, Assigned, TypeOK
    <2>4. \/ snapshot' = View(status, group') /\ halfEdited' = FALSE /\ hasMessages' = FALSE
          \/ halfEdited' = TRUE /\ UNCHANGED <<snapshot, hasMessages>>
      BY <1>9 DEF DelFromGroup, Publish
    <2>5. /\ DOMAIN snapshot' \subseteq Host
          /\ snapshot' \in [DOMAIN snapshot' -> Shown]
          /\ halfEdited' \in BOOLEAN
          /\ hasMessages' \in BOOLEAN
      <3>1. CASE snapshot' = View(status, group') /\ halfEdited' = FALSE /\ hasMessages' = FALSE
        <4>1. status \in [Host -> Status]
          BY DEF TypeOK
        <4> QED
          BY <2>3, <3>1, <4>1, ViewType
      <3>2. CASE halfEdited' = TRUE /\ UNCHANGED <<snapshot, hasMessages>>
        BY <3>2 DEF TypeOK
      <3> QED
        BY <2>4, <3>1, <3>2
    <2> QED
      BY <1>9, <2>2, <2>3, <2>5 DEF DelFromGroup, TypeOK, GroupsCounted, channel
  <1>10. ASSUME NEW hs \in SUBSET Host, DelFromGui(hs)
         PROVE  TypeInv'
    <2>1. /\ DOMAIN snapshot' \subseteq Host
          /\ snapshot' \in [DOMAIN snapshot' -> Shown]
      BY <1>10 DEF DelFromGui, TypeOK, Shown, Registered
    <2>2. /\ object' \in [Host -> 0 .. MaxRequests]
          /\ status' \in [Host -> Status]
          /\ group' \in [Host -> GroupName \cup {NoGroup}]
      BY <1>10, BoundsAssumption DEF DelFromGui, TypeOK, Assigned, None, Status
    <2> QED
      BY <1>10, <2>1, <2>2 DEF DelFromGui, TypeOK, GroupsCounted, channel
  <1>11. CASE Client
    BY <1>11, <1>2, <1>3, <1>4 DEF Client
  <1>12. CASE Operator
    <2>1. ASSUME NEW g \in GroupName, LaunchGroup(g)
          PROVE  TypeInv'
      BY <2>1, <1>7 DEF LaunchGroup, Command
    <2>2. ASSUME NEW hs, NEW word \in PageOrder, PageCommand(hs, word)
          PROVE  TypeInv'
      BY <2>2, <1>7, OrderAssumption DEF PageCommand, Command
    <2>3. ASSUME SyncHosts
          PROVE  TypeInv'
      BY <2>3, <1>7 DEF SyncHosts, Command
    <2> QED
      BY <1>12, <2>1, <2>2, <2>3, <1>8, <1>9, <1>10 DEF Operator
  <1> QED
    BY <1>1, <1>5, <1>6, <1>11, <1>12 DEF Next, Timer

\* The initial state is typed and has no group.
LEMMA TypeInit == Init => TypeInv
  <1> SUFFICES ASSUME Init PROVE TypeInv
    OBVIOUS
  <1>1. DOMAIN groups = {}
    BY DEF Init
  <1>2. GroupsCounted
    BY <1>1, FS_EmptySet, BoundsAssumption DEF GroupsCounted
  <1>3. groups \in [DOMAIN groups -> GroupRecord]
    BY <1>1 DEF Init
  <1>4. DOMAIN snapshot = {} /\ snapshot \in [DOMAIN snapshot -> Shown]
    BY DEF Init
  <1>5. /\ accepted \in 0 .. MaxRequests
        /\ owner \in [Request -> 0 .. MaxRequests]
        /\ request \in [Request -> 0 .. MaxRequests]
        /\ object \in [Host -> 0 .. MaxRequests]
    BY BoundsAssumption DEF Init, None
  <1>6. /\ req \in [Request -> {"unused", "open", "lost"} \cup Command]
        /\ timers \in SUBSET Request
        /\ status \in [Host -> Status]
        /\ group \in [Host -> GroupName \cup {NoGroup}]
    BY DEF Init, Status
  <1>7. hasMessages \in BOOLEAN /\ halfEdited \in BOOLEAN
    BY DEF Init
  <1>8. TypeOK
    BY <1>1, <1>3, <1>4, <1>5, <1>6, <1>7 DEF TypeOK
  <1> QED
    BY <1>2, <1>8 DEF TypeInv

\* Every variable keeps its type, for any number of clients and groups.
THEOREM TypeCorrect == Spec => []TypeOK
  <1>1. TypeInv /\ [Next]_vars => TypeInv'
    BY TypeStep
  <1>2. TypeInv => TypeOK
    BY DEF TypeInv
  <1> QED
    BY TypeInit, <1>1, <1>2, PTL DEF Spec

\* The next automatic name is free in every reachable state.
THEOREM AutoGroupsFresh == Spec => []NextAutoGroupFree
  <1>1. TypeInv => NextAutoGroupFree
    <2> SUFFICES ASSUME TypeInv PROVE NextAutoGroupFree
      OBVIOUS
    <2> DEFINE n == Cardinality(DOMAIN groups) + 1
    <2>1. n \in 1 .. (MaxGroups + 1)
      BY FS_CardinalityType, BoundsAssumption DEF TypeInv, GroupsCounted
    <2>2. CASE n <= MaxGroups
      <3>1. n \in 1 .. MaxGroups
        BY <2>1, <2>2, BoundsAssumption
      <3>2. ~(n <= Cardinality(DOMAIN groups))
        BY FS_CardinalityType DEF TypeInv, GroupsCounted
      <3>3. AutoGroup(n) \notin DOMAIN groups
        BY <3>1, <3>2 DEF TypeInv, GroupsCounted
      <3> QED
        BY <3>3 DEF NextAutoGroupFree
    <2>3. CASE n = MaxGroups + 1
      <3>1. AutoGroup(n) \notin WebGroup
        BY <2>1, NamesAssumption
      <3>2. \A k \in 1 .. MaxGroups : AutoGroup(k) # AutoGroup(n)
        BY <2>1, <2>3, AutoGroupInjective, BoundsAssumption
      <3> QED
        BY <3>1, <3>2 DEF TypeInv, TypeOK, GroupName, NextAutoGroupFree
    <2> QED
      BY <2>1, <2>2, <2>3, BoundsAssumption
  <1>2. TypeInv /\ [Next]_vars => TypeInv'
    BY TypeStep
  <1> QED
    BY TypeInit, <1>1, <1>2, PTL DEF Spec

-----------------------------------------------------------------------------
(* Requests, timers and Host objects *)

\* How requests, Host objects and addresses hang together: the numbers given
\* out, an object and its latest request naming each other, an object
\* registered for one address only.
RequestsLinked ==
    /\ \A r \in Request : req[r] = "unused" <=> r > accepted
    /\ \A r \in timers : r <= accepted
    /\ \A r \in 1 .. accepted : /\ owner[r] \in 1 .. accepted
                                /\ request[owner[r]] \in 1 .. accepted
                                /\ owner[request[owner[r]]] = owner[r]
    /\ \A h \in Registered : /\ object[h] \in 1 .. accepted
                             /\ owner[object[h]] = object[h]
    /\ \A h, k \in Registered : object[h] = object[k] => h = k

\* The inductive invariant behind the three properties of the requests.
RequestInv == RequestsLinked /\ WaitingHasTimer /\ StatusTellsRequest

\* A registered address and its object name each other's requests.
LEMMA CurrentOwned ==
    ASSUME TypeOK, RequestsLinked, NEW h \in Registered
    PROVE  /\ Current(h) \in 1 .. accepted
           /\ Current(h) \in Request
           /\ owner[Current(h)] = object[h]
  BY BoundsAssumption DEF TypeOK, RequestsLinked, Current, Registered, Request

LEMMA LinkedImpliesOwn ==
    ASSUME TypeOK, RequestsLinked
    PROVE  OwnRequest
  BY CurrentOwned DEF OwnRequest, RequestsLinked

\* No two registered addresses hold the same request.
LEMMA CurrentDistinct ==
    ASSUME TypeOK, RequestsLinked, NEW h \in Registered, NEW k \in Registered,
           Current(h) = Current(k)
    PROVE  h = k
  <1>1. object[h] = object[k]
    BY CurrentOwned
  <1> QED
    BY <1>1 DEF RequestsLinked

\* What a step that accepts nothing and registers nobody leaves alone.
Settled == UNCHANGED <<accepted, owner, request, object>>

\* Links survive any step that only moves requests on and drops timers.
LEMMA LinkedSettled ==
    ASSUME RequestsLinked, Settled, timers' \subseteq timers,
           \A r \in Request : req'[r] = "unused" <=> req[r] = "unused"
    PROVE  RequestsLinked' /\ Registered' = Registered
  BY DEF RequestsLinked, Settled, Registered

\* Answering some of the registered hosts keeps the invariant, whatever
\* progress reports come with it.
LEMMA TellKeeps ==
    ASSUME TypeOK, RequestInv, Settled,
           NEW targets, NEW done \in Reached(targets), NEW cmd \in Command,
           NEW st \in [Host -> Status],
           \A k \in Host : st[k] \in {status[k], "Trabajando"},
           Tell(done, cmd, st)
    PROVE  RequestInv'
  <1> DEFINE R == {Current(h) : h \in done}
  <1>1. done \subseteq Registered /\ \A h \in done : Returns(Current(h))
    BY ReachedHosts
  <1>2. /\ \A r \in Request : req'[r] = IF r \in R /\ req[r] = "open" THEN cmd ELSE req[r]
        /\ timers' = timers \ R
        /\ \A h \in Host : status'[h] = IF h \in done THEN "Desconectado" ELSE st[h]
    BY DEF Tell, Answered
  <1>3. cmd \notin {"unused", "open", "lost"}
    BY DEF Command
  <1> HIDE DEF R
  <1>4. RequestsLinked' /\ Registered' = Registered
    BY <1>2, <1>3, LinkedSettled DEF RequestInv
  <1>5. WaitingHasTimer'
    <2> SUFFICES ASSUME NEW r \in Request, req'[r] = "open", request[owner[r]] = r
                 PROVE  r \in timers'
      BY DEF WaitingHasTimer, Settled
    <2>1. req[r] = "open" /\ r \notin R
      BY <1>2, <1>3
    <2> QED
      BY <2>1, <1>2 DEF RequestInv, WaitingHasTimer
  <1>6. StatusTellsRequest'
    <2> SUFFICES ASSUME NEW h \in Registered
                 PROVE  /\ status'[h] = "Conectado" => req'[Current(h)] \notin Command
                        /\ status'[h] = "Desconectado" => req'[Current(h)] \in Command
      BY <1>4 DEF StatusTellsRequest, Current, Settled
    <2>1. h \in Host /\ Current(h) \in Request
      BY CurrentOwned DEF RequestInv, Registered
    <2>2. CASE h \in done
      <3>1. Current(h) \in R /\ Returns(Current(h))
        BY <2>2, <1>1 DEF R
      <3>2. req'[Current(h)] \in Command
        BY <3>1, <2>1, <1>2 DEF Returns
      <3> QED
        BY <3>2, <2>1, <2>2, <1>2
    <2>3. CASE h \notin done
      <3>1. Current(h) \notin R
        BY <2>3, <1>1, CurrentDistinct DEF R, RequestInv
      <3>2. req'[Current(h)] = req[Current(h)] /\ status'[h] \in {status[h], "Trabajando"}
        BY <3>1, <2>1, <2>3, <1>2
      <3> QED
        BY <3>2 DEF RequestInv, StatusTellsRequest
    <2> QED
      BY <2>2, <2>3
  <1> QED
    BY <1>4, <1>5, <1>6 DEF RequestInv

\* A step that answers nobody, whatever progress reports come with it.
LEMMA QuietKeeps ==
    ASSUME TypeOK, RequestInv, Settled, UNCHANGED <<req, timers>>,
           \A k \in Host : status'[k] \in {status[k], "Trabajando"}
    PROVE  RequestInv'
  <1>1. RequestsLinked' /\ Registered' = Registered
    BY LinkedSettled DEF RequestInv
  <1>2. WaitingHasTimer'
    BY DEF RequestInv, WaitingHasTimer, Settled
  <1>3. StatusTellsRequest'
    BY <1>1 DEF RequestInv, StatusTellsRequest, Settled, Current, Registered
  <1> QED
    BY <1>1, <1>2, <1>3 DEF RequestInv

\* A poll: the new request is held by the object of the address and timed.
LEMMA PollKeeps ==
    ASSUME TypeOK, RequestInv, NEW h \in Host, Poll(h)
    PROVE  RequestInv'
  <1> DEFINE r == accepted + 1
             o == IF h \in Registered THEN object[h] ELSE r
  <1>1. r \in Request /\ accepted \in Nat /\ accepted' = r
    BY DEF Poll, TypeOK
  <1>2. o \in Request /\ o \in 1 .. r /\ (o # r => h \in Registered /\ o = object[h])
    BY <1>1, BoundsAssumption DEF TypeOK, RequestInv, RequestsLinked, Registered, Request
  <1>3. /\ \A x \in Request : req'[x] = IF x = r THEN "open" ELSE req[x]
        /\ \A x \in Request : owner'[x] = IF x = r THEN o ELSE owner[x]
        /\ \A x \in Request : request'[x] = IF x = o THEN r ELSE request[x]
        /\ \A k \in Host : object'[k] = IF k = h THEN o ELSE object[k]
        /\ timers' = timers \cup {r}
    BY <1>1, <1>2 DEF Poll, TypeOK, WithRequest, Deferred
  <1>4. Registered' = Registered \cup {h}
    BY <1>1, <1>2, <1>3 DEF Registered, None, Request
  <1>5. \A k \in Registered : k # h =>
           object[k] # o /\ object[k] \in Request /\ Current(k) \in Request /\ Current(k) # r
    <2> SUFFICES ASSUME NEW k \in Registered, k # h
                 PROVE  /\ object[k] # o /\ object[k] \in Request
                        /\ Current(k) \in Request /\ Current(k) # r
      OBVIOUS
    <2>1. object[k] \in 1 .. accepted /\ Current(k) \in 1 .. accepted /\ Current(k) \in Request
      BY CurrentOwned DEF RequestInv, RequestsLinked
    <2>2. object[k] # o
      BY <2>1, <1>1, <1>2 DEF RequestInv, RequestsLinked
    <2> QED
      BY <2>1, <2>2, <1>1, BoundsAssumption DEF Request
  <1>6. \A x \in 1 .. accepted : x \in Request /\ x # r
    BY <1>1, BoundsAssumption DEF Request, TypeOK
  <1> HIDE DEF o, r
  <1>7. RequestsLinked'
    <2>1. \A x \in Request : req'[x] = "unused" <=> x > accepted'
      BY <1>1, <1>3 DEF RequestInv, RequestsLinked, r, Request
    <2>2. \A x \in timers' : x <= accepted'
      BY <1>1, <1>3, BoundsAssumption DEF RequestInv, RequestsLinked, r, TypeOK, Request
    <2>3. \A x \in 1 .. accepted' : /\ owner'[x] \in 1 .. accepted'
                                    /\ request'[owner'[x]] \in 1 .. accepted'
                                    /\ owner'[request'[owner'[x]]] = owner'[x]
      <3> SUFFICES ASSUME NEW x \in 1 .. r
                   PROVE  /\ owner'[x] \in 1 .. r
                          /\ request'[owner'[x]] \in 1 .. r
                          /\ owner'[request'[owner'[x]]] = owner'[x]
        BY <1>1
      <3>0. r \in 1 .. r
        BY <1>1 DEF r
      <3>1. CASE x = r
        BY <3>0, <3>1, <1>1, <1>2, <1>3
      <3>2. CASE x # r
        <4>1. x \in 1 .. accepted /\ x \in Request
          BY <3>2, <1>1, <1>6 DEF r
        <4>2. /\ owner[x] \in 1 .. accepted /\ request[owner[x]] \in 1 .. accepted
              /\ owner[request[owner[x]]] = owner[x]
          BY <4>1 DEF RequestInv, RequestsLinked
        <4>3. /\ owner'[x] = owner[x] /\ owner[x] \in Request
              /\ request[owner[x]] \in Request /\ request[owner[x]] # r
          BY <4>1, <4>2, <3>2, <1>3, <1>6
        <4>4. CASE owner[x] = o
          BY <4>1, <4>2, <4>3, <4>4, <3>0, <1>1, <1>2, <1>3 DEF r
        <4>5. CASE owner[x] # o
          BY <4>1, <4>2, <4>3, <4>5, <1>1, <1>3 DEF r
        <4> QED
          BY <4>4, <4>5
      <3> QED
        BY <3>1, <3>2
    <2>4. \A k \in Registered' : /\ object'[k] \in 1 .. accepted'
                                 /\ owner'[object'[k]] = object'[k]
      <3> SUFFICES ASSUME NEW k \in Registered'
                   PROVE  object'[k] \in 1 .. r /\ owner'[object'[k]] = object'[k]
        BY <1>1
      <3>1. CASE k = h
        <4>1. object'[k] = o
          BY <3>1, <1>3
        <4>2. CASE o = r
          BY <4>1, <4>2, <1>1, <1>2, <1>3
        <4>3. CASE o # r
          <5>1. owner[o] = o
            BY <4>3, <1>2 DEF RequestInv, RequestsLinked
          <5> QED
            BY <5>1, <4>1, <4>3, <1>1, <1>2, <1>3
        <4> QED
          BY <4>2, <4>3
      <3>2. CASE k # h
        <4>1. k \in Registered /\ k \in Host
          BY <3>2, <1>4 DEF Registered
        <4>2. object[k] \in 1 .. accepted /\ owner[object[k]] = object[k]
          BY <4>1 DEF RequestInv, RequestsLinked
        <4> QED
          BY <4>1, <4>2, <3>2, <1>1, <1>3, <1>6 DEF r
      <3> QED
        BY <3>1, <3>2
    <2>5. \A k, l \in Registered' : object'[k] = object'[l] => k = l
      <3>1. \A k \in Registered' : k \in Host /\ (k # h => k \in Registered)
        BY <1>4 DEF Registered
      <3> QED
        BY <3>1, <1>3, <1>5 DEF RequestInv, RequestsLinked
    <2> QED
      BY <2>1, <2>2, <2>3, <2>4, <2>5 DEF RequestsLinked
  <1>8. WaitingHasTimer'
    <2> SUFFICES ASSUME NEW x \in Request, req'[x] = "open", request'[owner'[x]] = x,
                        x # r
                 PROVE  x \in timers
      BY <1>3 DEF WaitingHasTimer
    <2>1. req[x] = "open" /\ owner'[x] = owner[x]
      BY <1>3
    <2>2. owner[x] \in Request
      <3>1. x \in 1 .. accepted
        BY <2>1, <1>1 DEF RequestInv, RequestsLinked, Request
      <3> QED
        BY <3>1, <1>6 DEF RequestInv, RequestsLinked
    <2>3. request[owner[x]] = x
      BY <2>1, <2>2, <1>3
    <2> QED
      BY <2>1, <2>3 DEF RequestInv, WaitingHasTimer
  <1>9. StatusTellsRequest'
    <2> SUFFICES ASSUME NEW k \in Registered'
                 PROVE  /\ status'[k] = "Conectado" =>
                              req'[request'[object'[k]]] \notin Command
                        /\ status'[k] = "Desconectado" =>
                              req'[request'[object'[k]]] \in Command
      BY DEF StatusTellsRequest, Current
    <2>1. CASE k = h
      <3>1. req'[request'[object'[k]]] = "open"
        BY <2>1, <1>1, <1>2, <1>3
      <3>2. status'[h] # "Desconectado"
        BY DEF Poll, TypeOK
      <3> QED
        BY <3>1, <3>2, <2>1 DEF Command
    <2>2. CASE k # h
      <3>1. k \in Registered /\ k \in Host
        BY <2>2, <1>4 DEF Registered
      <3>2. req'[request'[object'[k]]] = req[Current(k)]
        BY <3>1, <2>2, <1>3, <1>5 DEF Current
      <3>3. status'[k] = status[k]
        BY <3>1, <2>2 DEF Poll, TypeOK
      <3> QED
        BY <3>1, <3>2, <3>3 DEF RequestInv, StatusTellsRequest
    <2> QED
      BY <2>1, <2>2
  <1> QED
    BY <1>7, <1>8, <1>9 DEF RequestInv

\* A timer, its own object's latest or a superseded one, of a registered
\* object or of a deleted one.
LEMMA TimerKeeps ==
    ASSUME TypeOK, RequestInv, NEW r \in Request, TimerFires(r)
    PROVE  RequestInv'
  <1> DEFINE o == owner[r]
             q == request[o]
  <1>1. /\ r \in timers /\ r \in 1 .. accepted
        /\ o \in 1 .. accepted /\ q \in 1 .. accepted /\ q \in Request
        /\ owner[q] = o
    BY BoundsAssumption DEF TimerFires, RequestInv, RequestsLinked, TypeOK, Request
  <1>2. Settled
    BY DEF TimerFires, Settled, registry
  <1>3. CASE Returns(q)
    <2>1. /\ \A x \in Request : req'[x] = IF x = q /\ req[x] = "open" THEN "true" ELSE req[x]
          /\ timers' = timers \ {r, q}
          /\ \A h \in Host : status'[h] = IF object[h] = o THEN "Desconectado" ELSE status[h]
      BY <1>3 DEF TimerFires, Answered
    <2> HIDE DEF q, o
    <2>2. RequestsLinked' /\ Registered' = Registered
      BY <2>1, <1>2, LinkedSettled DEF RequestInv
    <2>3. WaitingHasTimer'
      <3> SUFFICES ASSUME NEW x \in Request, req'[x] = "open", request[owner[x]] = x
                   PROVE  x \in timers'
        BY <1>2 DEF WaitingHasTimer, Settled
      <3>1. x # q /\ req[x] = "open"
        BY <2>1
      <3>2. x # r
        BY <3>1 DEF q, o
      <3> QED
        BY <3>1, <3>2, <2>1 DEF RequestInv, WaitingHasTimer
    <2>4. StatusTellsRequest'
      <3> SUFFICES ASSUME NEW h \in Registered
                   PROVE  /\ status'[h] = "Conectado" => req'[Current(h)] \notin Command
                          /\ status'[h] = "Desconectado" => req'[Current(h)] \in Command
        BY <2>2, <1>2 DEF StatusTellsRequest, Current, Settled
      <3>1. h \in Host /\ Current(h) \in Request /\ owner[Current(h)] = object[h]
        BY CurrentOwned DEF RequestInv, Registered
      <3>2. CASE object[h] = o
        <4>1. Current(h) = q
          BY <3>2 DEF Current, q
        <4>2. req'[q] \in Command
          BY <1>1, <1>3, <2>1 DEF Returns, Command
        <4> QED
          BY <4>1, <4>2, <3>1, <3>2, <2>1
      <3>3. CASE object[h] # o
        <4>1. Current(h) # q
          BY <3>1, <3>3, <1>1
        <4> QED
          BY <4>1, <3>1, <3>3, <2>1 DEF RequestInv, StatusTellsRequest
      <3> QED
        BY <3>2, <3>3
    <2> QED
      BY <2>2, <2>3, <2>4 DEF RequestInv
  <1>4. CASE ~Returns(q)
    <2>1. timers' = timers \ {r} /\ UNCHANGED <<req, status>>
      BY <1>4 DEF TimerFires
    <2>2. RequestsLinked' /\ Registered' = Registered
      BY <2>1, <1>2, LinkedSettled DEF RequestInv
    <2>3. WaitingHasTimer'
      <3> SUFFICES ASSUME NEW x \in Request, req[x] = "open", request[owner[x]] = x
                   PROVE  x \in timers'
        BY <1>2, <2>1 DEF WaitingHasTimer, Settled
      <3>1. x # r
        BY <1>4 DEF Returns
      <3> QED
        BY <3>1, <2>1 DEF RequestInv, WaitingHasTimer
    <2>4. StatusTellsRequest'
      BY <1>2, <2>1, <2>2 DEF RequestInv, StatusTellsRequest, Settled, Current
    <2> QED
      BY <2>2, <2>3, <2>4 DEF RequestInv
  <1> QED
    BY <1>3, <1>4

\* A lost connection is noticed by nobody.
LEMMA GoneKeeps ==
    ASSUME TypeOK, RequestInv, NEW r \in Request, ClientGone(r)
    PROVE  RequestInv'
  <1>1. Settled /\ timers' = timers /\ status' = status
    BY DEF ClientGone, Settled, registry
  <1>2. \A x \in Request : req'[x] = IF x = r THEN "lost" ELSE req[x]
    BY DEF ClientGone, TypeOK
  <1>3. req[r] = "open"
    BY DEF ClientGone
  <1>4. RequestsLinked' /\ Registered' = Registered
    BY <1>1, <1>2, <1>3, LinkedSettled DEF RequestInv
  <1>5. WaitingHasTimer'
    BY <1>1, <1>2 DEF RequestInv, WaitingHasTimer, Settled
  <1>6. StatusTellsRequest'
    <2> SUFFICES ASSUME NEW h \in Registered
                 PROVE  /\ status[h] = "Conectado" => req'[Current(h)] \notin Command
                        /\ status[h] = "Desconectado" => req'[Current(h)] \in Command
      BY <1>1, <1>4 DEF StatusTellsRequest, Current, Settled
    <2>1. Current(h) \in Request
      BY CurrentOwned DEF RequestInv
    <2> QED
      BY <2>1, <1>2, <1>3 DEF RequestInv, StatusTellsRequest, Command
  <1> QED
    BY <1>4, <1>5, <1>6 DEF RequestInv

\* A deletion leaves requests and timers running.
LEMMA DelFromGuiKeeps ==
    ASSUME TypeOK, RequestInv, NEW hs \in SUBSET Host, DelFromGui(hs)
    PROVE  RequestInv'
  <1>1. /\ UNCHANGED <<accepted, req, owner, request, timers>>
        /\ \A h \in Host : object'[h] = IF h \in hs THEN None ELSE object[h]
        /\ \A h \in Host \ hs : status'[h] = status[h]
    BY DEF DelFromGui, channel
  <1>2. Registered' = Registered \ hs
    BY <1>1 DEF Registered
  <1>3. \A h \in Registered' : h \in Registered /\ h \in Host \ hs /\ object'[h] = object[h]
    BY <1>1, <1>2 DEF Registered
  <1>4. RequestsLinked'
    BY <1>1, <1>3 DEF RequestInv, RequestsLinked
  <1>5. WaitingHasTimer'
    BY <1>1 DEF RequestInv, WaitingHasTimer
  <1>6. StatusTellsRequest'
    BY <1>1, <1>3 DEF RequestInv, StatusTellsRequest, Current
  <1> QED
    BY <1>4, <1>5, <1>6 DEF RequestInv

\* Every step keeps the invariant of the requests.
LEMMA RequestStep ==
    ASSUME TypeInv, RequestInv, [Next]_vars
    PROVE  RequestInv'
  <1> USE DEF TypeInv
  <1>1. CASE UNCHANGED vars
    <2>1. Settled /\ UNCHANGED <<req, timers, status>>
      BY <1>1 DEF vars, channel, registry, Settled
    <2> QED
      BY <2>1, QuietKeeps
  <1>2. ASSUME NEW h \in Host, NEW completed \in BOOLEAN, StatusReport(h, completed)
        PROVE  RequestInv'
    <2> DEFINE st == [status EXCEPT ![h] = "Trabajando"]
    <2>1. Settled
      BY <1>2 DEF StatusReport, Settled
    <2>2. /\ st \in [Host -> Status]
          /\ \A k \in Host : st[k] \in {status[k], "Trabajando"}
      BY DEF TypeOK, Status
    <2>3. \A cfg : LastWord(cfg) \in Command
      BY DEF LastWord, Command
    <2>4. \/ \E done \in Reached({h}), cmd \in Command : Tell(done, cmd, st)
          \/ status' = st /\ UNCHANGED <<req, timers>>
      BY <1>2, <2>3 DEF StatusReport
    <2> HIDE DEF st
    <2> QED
      BY <2>1, <2>2, <2>4, TellKeeps, QuietKeeps
  <1>3. CASE PeriodicStatus
    <2>1. Settled /\ UNCHANGED <<req, timers, status>>
      BY <1>3 DEF PeriodicStatus, channel, registry, Settled
    <2> QED
      BY <2>1, QuietKeeps
  <1>4. ASSUME NEW targets, NEW cmd \in Command, Order(targets, cmd)
        PROVE  RequestInv'
    <2>1. Settled /\ \E done \in Reached(targets) : Tell(done, cmd, status)
      BY <1>4 DEF Order, Settled, registry
    <2>2. status \in [Host -> Status] /\ \A k \in Host : status[k] \in {status[k], "Trabajando"}
      BY DEF TypeOK
    <2> QED
      BY <2>1, <2>2, TellKeeps
  <1>5. ASSUME NEW g, NEW hs, NEW cfg, NEW launch, GroupConfig(g, hs, cfg, launch)
        PROVE  RequestInv'
    <2>1. Settled
      BY <1>5 DEF GroupConfig, Settled
    <2>2. \/ \E done \in Reached(GroupsWith(g, hs, cfg)[g].hosts) :
                Tell(done, "backharddi_do", status)
          \/ UNCHANGED <<req, timers, status>>
      BY <1>5 DEF GroupConfig
    <2>3. status \in [Host -> Status] /\ \A k \in Host : status[k] \in {status[k], "Trabajando"}
      BY DEF TypeOK
    <2>4. "backharddi_do" \in Command
      BY DEF Command
    <2>5. CASE UNCHANGED <<req, timers, status>>
      BY <2>1, <2>5, QuietKeeps
    <2> QED
      BY <2>1, <2>2, <2>3, <2>4, <2>5, TellKeeps
  <1>6. ASSUME NEW g, NEW hs, DelFromGroup(g, hs)
        PROVE  RequestInv'
    <2>1. Settled /\ UNCHANGED <<req, timers, status>>
      BY <1>6 DEF DelFromGroup, channel, Settled
    <2> QED
      BY <2>1, QuietKeeps
  <1>7. CASE Client
    BY <1>7, <1>2, PollKeeps, GoneKeeps DEF Client
  <1>8. CASE Operator
    <2>1. ASSUME NEW g \in GroupName, LaunchGroup(g)
          PROVE  RequestInv'
      BY <2>1, <1>4 DEF LaunchGroup, Command
    <2>2. ASSUME NEW hs, NEW word \in PageOrder, PageCommand(hs, word)
          PROVE  RequestInv'
      BY <2>2, <1>4, OrderAssumption DEF PageCommand, Command
    <2>3. ASSUME SyncHosts
          PROVE  RequestInv'
      BY <2>3, <1>4 DEF SyncHosts, Command
    <2> QED
      BY <1>8, <2>1, <2>2, <2>3, <1>5, <1>6, DelFromGuiKeeps DEF Operator
  <1> QED
    BY <1>1, <1>3, <1>7, <1>8, TimerKeeps DEF Next, Timer

LEMMA RequestInit == Init => RequestInv
  <1> SUFFICES ASSUME Init PROVE RequestInv
    OBVIOUS
  <1>1. Registered = {}
    BY DEF Init, Registered
  <1>2. RequestsLinked
    BY <1>1, BoundsAssumption DEF Init, RequestsLinked, Request
  <1>3. WaitingHasTimer /\ StatusTellsRequest
    BY <1>1 DEF Init, WaitingHasTimer, StatusTellsRequest
  <1> QED
    BY <1>2, <1>3 DEF RequestInv

\* Whatever the clients, timers and the operator do: a registered address
\* holds a request of its own, a waiting client has its own timer running,
\* and the status shown tells whether the client's request was answered.
THEOREM RequestsCorrect ==
    Spec => [](OwnRequest /\ WaitingHasTimer /\ StatusTellsRequest)
  <1>1. TypeInv /\ RequestInv => OwnRequest /\ WaitingHasTimer /\ StatusTellsRequest
    BY LinkedImpliesOwn DEF TypeInv, RequestInv
  <1>2. (TypeInv /\ RequestInv) /\ [Next]_vars => (TypeInv /\ RequestInv)'
    BY TypeStep, RequestStep
  <1> QED
    BY TypeInit, RequestInit, <1>1, <1>2, PTL DEF Spec

\* The object of a registered address holds a request that came from that
\* address, through deletions, returns and old timers.
THEOREM OwnRequests == Spec => []OwnRequest
  BY RequestsCorrect, PTL

\* The status shown to the operator tells whether the client waits.
THEOREM StatusTells == Spec => []StatusTellsRequest
  BY RequestsCorrect, PTL

-----------------------------------------------------------------------------
(* Groups *)

\* Membership survives when each registered host keeps a group that still
\* lists it, has none, or has been put in one that lists it.
LEMMA MembershipKept ==
    ASSUME GroupMembership,
           \A h \in Registered' :
              \/ group'[h] = NoGroup
              \/ group'[h] \in DOMAIN groups' /\ h \in groups'[group'[h]].hosts
              \/ /\ h \in Registered /\ group'[h] = group[h]
                 /\ group[h] \in DOMAIN groups =>
                       /\ group[h] \in DOMAIN groups'
                       /\ h \in groups[group[h]].hosts => h \in groups'[group[h]].hosts
    PROVE  GroupMembership'
  BY DEF GroupMembership

\* Every step keeps a registered host in the list of the group it is shown in.
LEMMA MembershipStep ==
    ASSUME TypeInv, GroupMembership, [Next]_vars
    PROVE  GroupMembership'
  <1> USE DEF TypeInv
  <1>1. ASSUME UNCHANGED registry
        PROVE  GroupMembership'
    BY <1>1, MembershipKept DEF registry, Registered
  <1>2. ASSUME NEW h \in Host, Poll(h)
        PROVE  GroupMembership'
    <2>1. groups' = groups /\ \A k \in Host : k # h => object'[k] = object[k] /\ group'[k] = group[k]
      BY <1>2 DEF Poll, TypeOK
    <2>2. \/ h \in Registered /\ group'[h] = group[h]
          \/ group'[h] = NoGroup
      BY <1>2 DEF Poll, TypeOK
    <2>3. \A k \in Registered' : k \in Host /\ (k # h => k \in Registered)
      BY <2>1 DEF Registered
    <2> QED
      BY <2>1, <2>2, <2>3, MembershipKept
  <1>3. ASSUME NEW h \in Host, NEW completed \in BOOLEAN, StatusReport(h, completed)
        PROVE  GroupMembership'
    <2> DEFINE name == IF group[h] = NoGroup
                       THEN AutoGroup(Cardinality(DOMAIN groups) + 1) ELSE group[h]
    <2>1. Registered' = Registered /\ h \in Registered
      BY <1>3 DEF StatusReport, Registered
    <2>2. \A k \in Host : group'[k] = IF k = h THEN name ELSE group[k]
      BY <1>3 DEF StatusReport, Assigned
    <2>3. CASE group[h] = NoGroup
      <3>1. /\ groups' = GroupsWith(name, {h}, {})
            /\ name \in GroupName
        BY <1>3, <2>3, NextAutoGroupName DEF StatusReport
      <3> HIDE DEF name
      <3>2. /\ DOMAIN groups' = DOMAIN groups \cup {name}
            /\ h \in groups'[name].hosts
            /\ \A g \in DOMAIN groups : groups[g].hosts \subseteq groups'[g].hosts
        BY <3>1, GroupsWithType DEF TypeOK, Registered
      <3>3. \A k \in Registered : k \in Host
        BY DEF Registered
      <3> QED
        BY <2>1, <2>2, <3>2, <3>3, MembershipKept
    <2>4. CASE group[h] # NoGroup
      <3>1. groups' = groups /\ \A k \in Registered : group'[k] = group[k]
        BY <1>3, <2>2, <2>4 DEF StatusReport, Registered
      <3> QED
        BY <2>1, <3>1, MembershipKept
    <2> QED
      BY <2>3, <2>4
  <1>4. ASSUME NEW g \in WebGroup, NEW hs \in SUBSET Host, NEW cfg \in Config,
               NEW launch, GroupConfig(g, hs, cfg, launch)
        PROVE  GroupMembership'
    <2>1. groups' = GroupsWith(g, hs, cfg) /\ g \in GroupName /\ cfg \in SUBSET Words
      BY <1>4, ConfigAssumption DEF GroupConfig, GroupName
    <2>2. /\ DOMAIN groups' = DOMAIN groups \cup {g}
          /\ hs \subseteq groups'[g].hosts
          /\ \A k \in DOMAIN groups : groups[k].hosts \subseteq groups'[k].hosts
      BY <2>1, GroupsWithType DEF TypeOK
    <2>3. \E in \in SUBSET hs : group' = Assigned(in, g)
      BY <1>4 DEF GroupConfig
    <2>4. Registered' = Registered /\ Registered \subseteq Host
      BY <1>4 DEF GroupConfig, Registered
    <2>5. \A k \in Host : group'[k] = group[k] \/ (k \in hs /\ group'[k] = g)
      BY <2>3 DEF Assigned
    <2> QED
      BY <2>2, <2>4, <2>5, MembershipKept
  <1>5. ASSUME NEW g \in GroupName, NEW hs \in SUBSET Host, DelFromGroup(g, hs)
        PROVE  GroupMembership'
    <2>1. PICK in \in SUBSET Host, out \in SUBSET Host :
             /\ group' = Assigned(in, NoGroup)
             /\ groups' = GroupsWithout(g, out)
             /\ out \cap Registered \subseteq in
      <3> DEFINE mem == IF g \in DOMAIN groups THEN groups[g].hosts \cap hs ELSE {}
      <3>1. mem \in SUBSET Host
        OBVIOUS
      <3>2. \/ mem \subseteq Registered /\ group' = Assigned(mem, NoGroup)
               /\ groups' = GroupsWithout(g, mem)
            \/ \E before \in SUBSET (mem \cap Registered), bad \in mem \ Registered :
                  /\ group' = Assigned(before, NoGroup)
                  /\ groups' = GroupsWithout(g, before \cup {bad})
        BY <1>5 DEF DelFromGroup
      <3> HIDE DEF mem
      <3>3. CASE /\ mem \subseteq Registered /\ group' = Assigned(mem, NoGroup)
                 /\ groups' = GroupsWithout(g, mem)
        BY <3>1, <3>3
      <3>4. ASSUME NEW before \in SUBSET (mem \cap Registered),
                   NEW bad \in mem \ Registered,
                   group' = Assigned(before, NoGroup),
                   groups' = GroupsWithout(g, before \cup {bad})
            PROVE  \E in \in SUBSET Host, out \in SUBSET Host :
                      /\ group' = Assigned(in, NoGroup)
                      /\ groups' = GroupsWithout(g, out)
                      /\ out \cap Registered \subseteq in
        <4>1. before \in SUBSET Host /\ before \cup {bad} \in SUBSET Host
          BY <3>1, <3>4
        <4>2. (before \cup {bad}) \cap Registered \subseteq before
          BY <3>4
        <4> QED
          BY <3>4, <4>1, <4>2
      <3> QED
        BY <3>2, <3>3, <3>4
    <2>2. /\ DOMAIN groups' = DOMAIN groups
          /\ \A k \in DOMAIN groups : groups[k].hosts \ out \subseteq groups'[k].hosts
      BY <2>1, GroupsWithoutType DEF TypeOK
    <2>3. Registered' = Registered /\ Registered \subseteq Host
      BY <1>5 DEF DelFromGroup, Registered
    <2>4. \A k \in Host : IF k \in in THEN group'[k] = NoGroup ELSE group'[k] = group[k]
      BY <2>1 DEF Assigned
    <2>5. \A k \in Registered : k \notin in => k \notin out
      BY <2>1
    <2> QED
      BY <2>2, <2>3, <2>4, <2>5, MembershipKept
  <1>6. ASSUME NEW hs \in SUBSET Host, DelFromGui(hs)
        PROVE  GroupMembership'
    <2>1. /\ groups' = groups
          /\ \A k \in Host : k \notin hs => object'[k] = object[k] /\ group'[k] = group[k]
          /\ \A k \in hs : object'[k] = None
      BY <1>6 DEF DelFromGui, Assigned
    <2>2. \A k \in Registered' : k \in Registered /\ group'[k] = group[k]
      BY <2>1 DEF Registered
    <2> QED
      BY <2>1, <2>2, MembershipKept
  <1>7. CASE Operator
    <2>1. ASSUME NEW targets, NEW cmd, Order(targets, cmd)
          PROVE  GroupMembership'
      BY <2>1, <1>1 DEF Order
    <2> QED
      BY <1>7, <2>1, <1>4, <1>5, <1>6 DEF Operator, LaunchGroup, PageCommand, SyncHosts
  <1>8. CASE Client
    BY <1>8, <1>1, <1>2, <1>3 DEF Client, ClientGone
  <1>9. CASE Timer \/ PeriodicStatus \/ UNCHANGED vars
    BY <1>9, <1>1 DEF Timer, TimerFires, PeriodicStatus, vars
  <1> QED
    BY <1>7, <1>8, <1>9 DEF Next

\* Whatever the edits, deletions and returns, a registered host is listed in
\* the group it is shown in: request_status always finds the group's command.
THEOREM MembersListed == Spec => []GroupMembership
  <1>1. Init => GroupMembership
    BY DEF Init, GroupMembership, Registered
  <1>2. (TypeInv /\ GroupMembership) /\ [Next]_vars => (TypeInv /\ GroupMembership)'
    BY TypeStep, MembershipStep
  <1> QED
    BY TypeInit, <1>1, <1>2, PTL DEF Spec

-----------------------------------------------------------------------------
(* The list given to the page *)

\* Host.sendStatus has just listed the registered hosts as they are.
LEMMA ViewCurrent ==
    ASSUME snapshot' = View(status, group'), Registered' = Registered,
           \A h \in Registered : status'[h] = status[h]
    PROVE  SnapshotCurrent'
  BY DEF View, SnapshotCurrent

\* Nothing that the list shows has changed since it was right, except groups
\* in an edit that raised.
LEMMA ListStays ==
    ASSUME SnapshotCurrent, hasMessages' = hasMessages, snapshot' = snapshot,
           Registered' = Registered,
           \A h \in Registered : status'[h] = status[h],
           \/ halfEdited' = TRUE
           \/ halfEdited' = halfEdited /\ \A h \in Registered : group'[h] = group[h]
    PROVE  SnapshotCurrent'
  BY DEF SnapshotCurrent

\* Every step keeps the list right or leaves an update due.
LEMMA SnapshotStep ==
    ASSUME TypeInv, SnapshotCurrent, [Next]_vars
    PROVE  SnapshotCurrent'
  <1> USE DEF TypeInv
  <1>0. Registered \subseteq Host
    BY DEF Registered
  <1>1. ASSUME hasMessages' = TRUE
        PROVE  SnapshotCurrent'
    BY <1>1 DEF SnapshotCurrent
  <1>2. ASSUME UNCHANGED <<status, registry, hasMessages, sending>>
        PROVE  SnapshotCurrent'
    BY <1>2, ListStays DEF registry, sending, Registered
  <1>3. ASSUME NEW h \in Host, Poll(h)
        PROVE  SnapshotCurrent'
    <2>1. CASE h \in Registered /\ status[h] # "Desconectado"
      <3>1. object' = object /\ UNCHANGED <<status, group, groups, hasMessages, sending>>
        BY <1>3, <2>1 DEF Poll, TypeOK
      <3> QED
        BY <3>1, <1>2 DEF registry
    <2>2. CASE ~(h \in Registered /\ status[h] # "Desconectado")
      BY <1>1, <1>3, <2>2 DEF Poll
    <2> QED
      BY <2>1, <2>2
  <1>4. ASSUME NEW r \in Request, TimerFires(r)
        PROVE  SnapshotCurrent'
    BY <1>1, <1>2, <1>4 DEF TimerFires
  <1>5. CASE PeriodicStatus
    <2>1. snapshot' = View(status, group') /\ UNCHANGED <<status, object>>
      BY <1>5 DEF PeriodicStatus, Publish, registry
    <2> QED
      BY <2>1, ViewCurrent DEF Registered
  <1>6. ASSUME NEW targets, NEW cmd, Order(targets, cmd)
        PROVE  SnapshotCurrent'
    <2>1. PICK done \in Reached(targets) :
             /\ Tell(done, cmd, status)
             /\ hasMessages' = (hasMessages \/ done # {})
             /\ UNCHANGED <<registry, sending>>
      BY <1>6 DEF Order
    <2>2. CASE done = {}
      <3>1. \A h \in Host : status'[h] = status[h]
        BY <2>1, <2>2 DEF Tell
      <3>2. hasMessages' = hasMessages
        BY <2>1, <2>2 DEF TypeOK
      <3> QED
        BY <1>0, <2>1, <3>1, <3>2, ListStays DEF registry, sending, Registered
    <2> QED
      BY <1>1, <2>1, <2>2
  <1>7. ASSUME NEW g, NEW hs, NEW cfg, NEW launch, GroupConfig(g, hs, cfg, launch)
        PROVE  SnapshotCurrent'
    <2>1. Registered' = Registered
      BY <1>7 DEF GroupConfig, Registered
    <2>2. CASE snapshot' = View(status, group') /\ status' = status
      BY <2>1, <2>2, ViewCurrent
    <2>3. CASE halfEdited' = TRUE /\ UNCHANGED <<snapshot, status, hasMessages>>
      BY <2>1, <2>3, ListStays
    <2>4. ASSUME NEW done, snapshot' = View(status, group'),
                 Tell(done, "backharddi_do", status), hasMessages' = (done # {})
          PROVE  SnapshotCurrent'
      <3>1. CASE done = {}
        <4>1. \A h \in Host : status'[h] = status[h]
          BY <2>4, <3>1 DEF Tell
        <4> QED
          BY <1>0, <2>1, <2>4, <4>1, ViewCurrent
      <3> QED
        BY <1>1, <2>4, <3>1
    <2> QED
      BY <1>7, <2>2, <2>3, <2>4 DEF GroupConfig, Publish
  <1>8. ASSUME NEW g, NEW hs, DelFromGroup(g, hs)
        PROVE  SnapshotCurrent'
    <2>1. Registered' = Registered /\ status' = status
      BY <1>8 DEF DelFromGroup, Registered
    <2>2. \/ snapshot' = View(status, group')
          \/ halfEdited' = TRUE /\ UNCHANGED <<snapshot, hasMessages>>
      BY <1>8 DEF DelFromGroup, Publish
    <2> QED
      BY <2>1, <2>2, ViewCurrent, ListStays
  <1>9. ASSUME NEW hs \in SUBSET Host, DelFromGui(hs)
        PROVE  SnapshotCurrent'
    <2>1. /\ \A h \in Host : object'[h] = IF h \in hs THEN None ELSE object[h]
          /\ \A h \in Host : h \notin hs => status'[h] = status[h] /\ group'[h] = group[h]
          /\ snapshot' = [h \in Registered \ hs |-> [status |-> status[h], group |-> group[h]]]
      BY <1>9 DEF DelFromGui, Assigned
    <2>2. Registered' = Registered \ hs
      BY <2>1 DEF Registered
    <2> QED
      BY <1>0, <2>1, <2>2 DEF SnapshotCurrent
  <1>10. CASE Client
    BY <1>10, <1>1, <1>2, <1>3 DEF Client, ClientGone, StatusReport
  <1>11. CASE Operator
    BY <1>11, <1>6, <1>7, <1>8, <1>9
    DEF Operator, LaunchGroup, PageCommand, SyncHosts
  <1>12. CASE UNCHANGED vars
    BY <1>12, <1>2 DEF vars
  <1> QED
    BY <1>4, <1>5, <1>10, <1>11, <1>12 DEF Next, Timer

\* When no update is due, json_status shows every registered host with its
\* status, and with its group unless a group edit raised half way.
THEOREM SnapshotsCurrent == Spec => []SnapshotCurrent
  <1>1. Init => SnapshotCurrent
    BY DEF Init, SnapshotCurrent, Registered
  <1>2. (TypeInv /\ SnapshotCurrent) /\ [Next]_vars => (TypeInv /\ SnapshotCurrent)'
    BY TypeStep, SnapshotStep
  <1> QED
    BY TypeInit, <1>1, <1>2, PTL DEF Spec

-----------------------------------------------------------------------------
(* The channel seen by the clients *)

\* A step that neither accepts nor answers.
LEMMA ChannelStutters ==
    ASSUME UNCHANGED <<accepted, owner, request>>, req' = req
    PROVE  [Polls!Next]_(Polls!vars)
  <1>1. Held' = Held
    BY DEF Held
  <1> QED
    BY <1>1 DEF Polls!vars

LEMMA HeldRequests == TypeOK => Held \subseteq Request
  BY BoundsAssumption DEF Held, TypeOK, Request

\* A step that answers some of the requests that are held.
LEMMA ChannelTells ==
    ASSUME Settled, NEW R \in SUBSET Held, Held \subseteq Request, NEW cmd \in Command,
           req' = Answered(R, cmd)
    PROVE  [Polls!Next]_(Polls!vars)
  <1> DEFINE rs == {r \in R : req[r] = "open"}
  <1>1. rs \subseteq {r \in Held : req[r] = "open"} /\ rs \in SUBSET Request
    OBVIOUS
  <1>2. req' = [r \in Request |-> IF r \in rs THEN cmd ELSE req[r]]
    BY DEF Answered
  <1>3. owner' = owner /\ Held' = Held
    BY DEF Settled, Held
  <1> HIDE DEF rs
  <1>4. Polls!Tell(rs, cmd)
    BY <1>1, <1>2, <1>3 DEF Polls!Tell
  <1> QED
    BY <1>1, <1>4 DEF Polls!Next

\* The loops of commands reach requests that are held.
LEMMA ChannelReached ==
    ASSUME TypeOK, RequestInv, Settled, NEW targets, NEW done \in Reached(targets),
           NEW cmd \in Command, NEW st, Tell(done, cmd, st)
    PROVE  [Polls!Next]_(Polls!vars)
  <1> DEFINE R == {Current(h) : h \in done}
  <1>1. \A h \in done : Current(h) \in 1 .. accepted /\ owner[Current(h)] = object[h]
    BY ReachedHosts, CurrentOwned DEF RequestInv
  <1>2. R \in SUBSET Held
    BY <1>1 DEF Held, Current
  <1>3. Held \subseteq Request
    BY HeldRequests
  <1>4. req' = Answered(R, cmd)
    BY DEF Tell
  <1> HIDE DEF R
  <1> QED
    BY <1>2, <1>3, <1>4, ChannelTells

\* A poll asks on the line of its Host object, or on a new one.
LEMMA ChannelAsks ==
    ASSUME TypeOK, RequestInv, NEW h \in Host, Poll(h)
    PROVE  [Polls!Next]_(Polls!vars)
  <1> DEFINE r == accepted + 1
             o == IF h \in Registered THEN object[h] ELSE r
  <1>1. r \in Request /\ accepted \in Nat /\ accepted' = r
    BY DEF Poll, TypeOK
  <1>2. req[r] = "unused"
    BY <1>1 DEF RequestInv, RequestsLinked
  <1>3. \A x \in 1 .. accepted : x \in Request /\ x # r
    BY <1>1, BoundsAssumption DEF Request, TypeOK
  <1>4. o \in Request
    BY <1>1, <1>3 DEF RequestInv, RequestsLinked
  <1>5. /\ req' = [req EXCEPT ![r] = "open"] /\ owner' = [owner EXCEPT ![r] = o]
        /\ \A x \in Request : request'[x] = IF x = o THEN r ELSE request[x]
    BY <1>4 DEF Poll, TypeOK, WithRequest
  <1>6. \A x \in Request : owner'[x] = IF x = r THEN o ELSE owner[x]
    BY <1>5 DEF TypeOK
  <1>7. \A x \in 1 .. accepted : owner[x] \in 1 .. accepted
    BY DEF RequestInv, RequestsLinked
  <1>8. 1 .. accepted' = (1 .. accepted) \cup {r}
    BY <1>1
  <1>9. CASE h \in Registered
    <2>1. o = object[h] /\ o \in 1 .. accepted
      BY <1>9 DEF RequestInv, RequestsLinked
    <2> DEFINE old == request[o]
    <2>2. old \in 1 .. accepted /\ owner[old] = o
      BY <1>9, <2>1, CurrentOwned DEF RequestInv, Current
    <2> HIDE DEF r, o, old
    <2>3. old \in Held /\ old \in Request
      BY <1>3, <2>2 DEF Held, old
    <2>4. Held' = (Held \ {old}) \cup {r}
      <3>1. \A x \in 1 .. accepted : x \in Held' <=> x \in Held \ {old}
        <4> SUFFICES ASSUME NEW x \in 1 .. accepted PROVE x \in Held' <=> x \in Held \ {old}
          OBVIOUS
        <4>1. /\ x \in Request /\ x # r /\ owner[x] \in Request /\ owner'[x] = owner[x]
              /\ x \in 1 .. accepted'
          BY <1>3, <1>6, <1>7, <1>8
        <4>2. CASE owner[x] = o
          <5>1. request'[owner'[x]] = r
            BY <1>5, <4>1, <4>2
          <5>2. x \in Held => x = old
            BY <4>2 DEF Held, old
          <5> QED
            BY <4>1, <5>1, <5>2 DEF Held
        <4>3. CASE owner[x] # o
          <5>1. request'[owner'[x]] = request[owner[x]]
            BY <1>5, <4>1, <4>3
          <5>2. x # old
            BY <2>2, <4>3
          <5> QED
            BY <4>1, <5>1, <5>2 DEF Held
        <4> QED
          BY <4>2, <4>3
      <3>2. r \in Held'
        BY <1>1, <1>4, <1>5, <1>6, <1>8 DEF Held
      <3>3. Held' \subseteq (1 .. accepted) \cup {r} /\ Held \subseteq 1 .. accepted
        BY <1>8 DEF Held
      <3> QED
        BY <3>1, <3>2, <3>3
    <2>5. Polls!AskAgain(r, old)
      BY <1>2, <1>5, <2>2, <2>3, <2>4 DEF Polls!AskAgain
    <2> QED
      BY <1>1, <2>3, <2>5 DEF Polls!Next
  <1>10. CASE h \notin Registered
    <2>1. o = r
      BY <1>10
    <2> HIDE DEF r, o
    <2>2. Held' = Held \cup {r}
      <3>1. \A x \in 1 .. accepted : x \in Held' <=> x \in Held
        <4> SUFFICES ASSUME NEW x \in 1 .. accepted PROVE x \in Held' <=> x \in Held
          OBVIOUS
        <4>1. /\ x # r /\ owner[x] \in Request /\ owner[x] # o /\ owner'[x] = owner[x]
              /\ x \in 1 .. accepted'
          BY <1>3, <1>6, <1>7, <1>8, <2>1
        <4> QED
          BY <1>5, <4>1 DEF Held
      <3>2. r \in Held'
        BY <1>1, <1>4, <1>5, <1>6, <1>8 DEF Held
      <3>3. Held' \subseteq (1 .. accepted) \cup {r} /\ Held \subseteq 1 .. accepted
        BY <1>8 DEF Held
      <3> QED
        BY <3>1, <3>2, <3>3
    <2>3. \A x \in Request : req[x] # "unused" => owner[x] # r
      <3> SUFFICES ASSUME NEW x \in Request, req[x] # "unused" PROVE owner[x] # r
        OBVIOUS
      <3>1. x \in 1 .. accepted
        BY <1>1 DEF RequestInv, RequestsLinked, Request
      <3> QED
        BY <1>3, <1>7, <3>1
    <2>4. Polls!Ask(r, r)
      BY <1>2, <1>5, <2>1, <2>2, <2>3 DEF Polls!Ask
    <2> QED
      BY <1>1, <2>4 DEF Polls!Next
  <1> QED
    BY <1>9, <1>10

\* The request that an object holds is one of those held.
LEMMA ChannelTimer ==
    ASSUME TypeOK, RequestInv, NEW r \in Request, TimerFires(r)
    PROVE  [Polls!Next]_(Polls!vars)
  <1> DEFINE q == request[owner[r]]
  <1>1. Settled
    BY DEF TimerFires, Settled, registry
  <1>2. r \in 1 .. accepted
    BY BoundsAssumption DEF TimerFires, RequestInv, RequestsLinked, TypeOK, Request
  <1>3. q \in 1 .. accepted /\ owner[q] = owner[r]
    BY <1>2 DEF RequestInv, RequestsLinked
  <1>4. {q} \in SUBSET Held
    BY <1>3 DEF Held
  <1>5. Held \subseteq Request
    BY HeldRequests
  <1>6. req' = Answered({q}, "true") \/ req' = req
    BY DEF TimerFires
  <1>7. "true" \in Command
    BY DEF Command
  <1> HIDE DEF q
  <1> QED
    BY <1>1, <1>4, <1>5, <1>6, <1>7, ChannelTells, ChannelStutters DEF Settled

\* The server does not notice that a client is gone.
LEMMA ChannelLeaves ==
    ASSUME NEW r \in Request, ClientGone(r)
    PROVE  [Polls!Next]_(Polls!vars)
  <1>1. req[r] = "open" /\ req' = [req EXCEPT ![r] = "lost"] /\ UNCHANGED <<owner, Held>>
    BY DEF ClientGone, Held
  <1>2. Polls!Leave(r)
    BY <1>1 DEF Polls!Leave
  <1> QED
    BY <1>2 DEF Polls!Next

\* Every step of the registry is a step of the channel or leaves it alone.
LEMMA ChannelStep ==
    ASSUME TypeInv, RequestInv, [Next]_vars
    PROVE  [Polls!Next]_(Polls!vars)
  <1> USE DEF TypeInv
  <1>1. CASE UNCHANGED vars
    <2>1. Settled /\ req' = req
      BY <1>1 DEF vars, channel, registry, Settled
    <2> QED
      BY <2>1, ChannelStutters DEF Settled
  <1>2. ASSUME NEW h \in Host, NEW completed \in BOOLEAN, StatusReport(h, completed)
        PROVE  [Polls!Next]_(Polls!vars)
    <2> DEFINE st == [status EXCEPT ![h] = "Trabajando"]
    <2>1. Settled
      BY <1>2 DEF StatusReport, Settled
    <2>2. \A cfg : LastWord(cfg) \in Command
      BY DEF LastWord, Command
    <2>3. \/ \E done \in Reached({h}), cmd \in Command : Tell(done, cmd, st)
          \/ req' = req
      BY <1>2, <2>2 DEF StatusReport
    <2> HIDE DEF st
    <2> QED
      BY <2>1, <2>3, ChannelReached, ChannelStutters DEF Settled
  <1>3. CASE PeriodicStatus
    <2>1. Settled /\ req' = req
      BY <1>3 DEF PeriodicStatus, channel, registry, Settled
    <2> QED
      BY <2>1, ChannelStutters DEF Settled
  <1>4. ASSUME NEW targets, NEW cmd \in Command, Order(targets, cmd)
        PROVE  [Polls!Next]_(Polls!vars)
    <2>1. Settled /\ \E done \in Reached(targets) : Tell(done, cmd, status)
      BY <1>4 DEF Order, Settled, registry
    <2> QED
      BY <2>1, ChannelReached
  <1>5. ASSUME NEW g, NEW hs, NEW cfg, NEW launch, GroupConfig(g, hs, cfg, launch)
        PROVE  [Polls!Next]_(Polls!vars)
    <2>1. Settled
      BY <1>5 DEF GroupConfig, Settled
    <2>2. \/ \E done \in Reached(GroupsWith(g, hs, cfg)[g].hosts) :
                Tell(done, "backharddi_do", status)
          \/ req' = req
      BY <1>5 DEF GroupConfig
    <2>3. "backharddi_do" \in Command
      BY DEF Command
    <2> QED
      BY <2>1, <2>2, <2>3, ChannelReached, ChannelStutters DEF Settled
  <1>6. ASSUME NEW g, NEW hs, DelFromGroup(g, hs)
        PROVE  [Polls!Next]_(Polls!vars)
    <2>1. Settled /\ req' = req
      BY <1>6 DEF DelFromGroup, channel, Settled
    <2> QED
      BY <2>1, ChannelStutters DEF Settled
  <1>7. ASSUME NEW hs, DelFromGui(hs)
        PROVE  [Polls!Next]_(Polls!vars)
    <2>1. UNCHANGED channel
      BY <1>7 DEF DelFromGui
    <2> QED
      BY <2>1, ChannelStutters DEF channel
  <1>8. CASE Client
    BY <1>8, <1>2, ChannelAsks, ChannelLeaves DEF Client
  <1>9. CASE Operator
    <2>1. ASSUME NEW g \in GroupName, LaunchGroup(g)
          PROVE  [Polls!Next]_(Polls!vars)
      BY <2>1, <1>4 DEF LaunchGroup, Command
    <2>2. ASSUME NEW hs, NEW word \in PageOrder, PageCommand(hs, word)
          PROVE  [Polls!Next]_(Polls!vars)
      BY <2>2, <1>4, OrderAssumption DEF PageCommand, Command
    <2>3. ASSUME SyncHosts
          PROVE  [Polls!Next]_(Polls!vars)
      BY <2>3, <1>4 DEF SyncHosts, Command
    <2> QED
      BY <1>9, <2>1, <2>2, <2>3, <1>5, <1>6, <1>7 DEF Operator
  <1> QED
    BY <1>1, <1>3, <1>8, <1>9, ChannelTimer DEF Next, Timer

LEMMA ChannelInit == Init => Polls!Init
  <1> SUFFICES ASSUME Init PROVE Polls!Init
    OBVIOUS
  <1>1. accepted = 0 /\ 1 .. accepted = {}
    BY DEF Init
  <1> QED
    BY <1>1 DEF Init, Polls!Init, Held

\* The registry implements PollChannel: through old timers, loops that raise
\* half way, deletions and returns, a client is answered at most once, and
\* only on the last request of its line.
THEOREM RegistryKeepsPolls == Spec => AnswersHeld
  <1>1. (TypeInv /\ RequestInv) /\ [Next]_vars => (TypeInv /\ RequestInv)'
    BY TypeStep, RequestStep
  <1>2. (TypeInv /\ RequestInv) /\ [Next]_vars => [Polls!Next]_(Polls!vars)
    BY ChannelStep
  <1> QED
    BY TypeInit, RequestInit, ChannelInit, <1>1, <1>2, PTL
       DEF Spec, AnswersHeld, Polls!Spec
=============================================================================
