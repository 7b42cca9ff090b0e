---------------------------- MODULE LiveMonitor ----------------------------
(***************************************************************************)
(* How the list of hosts reaches the page of the control web (monitor.js). *)
(*                                                                         *)
(* Host.sendStatus builds the list and hands it to LiveMonitor, a STOMP    *)
(* client of the broker that runs in the same process.  The broker copies  *)
(* it to the subscribers of the topic '/livemonitor', which are the pages. *)
(* A page asks for the list once with Ajax when its connection opens, then *)
(* follows the topic; both lead to processData.  The answer of the Ajax    *)
(* request and the messages travel on different connections.  A page that  *)
(* loses its connection tries again 2 s later and keeps what it shows.     *)
(*                                                                         *)
(* One page is modelled: pages share nothing but the topic.  What the      *)
(* registry holds is HostRegistry's matter: any list may be published.     *)
(* The order of a store is any order: names order one of the two stores,   *)
(* and the other changes its direction every time it is sorted.            *)
(***************************************************************************)
EXTENDS Naturals, Sequences, SequencesExt

CONSTANTS
    Host,       \* client addresses
    Group,      \* names of groups
    NoGroup,    \* null, as a group
    Status,     \* the texts of a host's status
    MaxQueued,  \* bound: lists on their way in each of the two channels
    MaxRequests \* bound: Ajax requests outstanding

ASSUME GroupAssumption  == NoGroup \notin Group
ASSUME BoundsAssumption == MaxQueued \in Nat \ {0} /\ MaxRequests \in Nat \ {0}

Row  == [status : Status, group : Group \cup {NoGroup}]
List == UNION {[hs -> Row] : hs \in SUBSET Host}
Slot == 1 .. MaxRequests

VARIABLES
    listed,  \* Host.status, the list that sendStatus built last
    link,    \* the STOMP connection of LiveMonitor: none yet, up or lost
    sent,    \* lists it has sent and the broker has not read
    page,    \* the page: waiting to try again, connecting, open, subscribed
    wire,    \* messages from the broker to the page
    ajax,    \* the page's outstanding requests for json_status
    clients, \* clientStore: the hosts without a group, with their status
    groups   \* groupStore: the hosts in a group, with status and group

server == <<listed, link, sent>>
net    == <<page, wire, ajax>>
stores == <<clients, groups>>
vars   == <<server, net, stores>>

NoList == [h \in {} |-> [status |-> CHOOSE s \in Status : TRUE, group |-> NoGroup]]
Idle   == [state |-> "idle", list |-> NoList]

-----------------------------------------------------------------------------
(* processData *)

Grouped(list)   == {h \in DOMAIN list : list[h].group # NoGroup}
Ungrouped(list) == DOMAIN list \ Grouped(list)

\* mutant of ClientsAfter: hosts that the store does not have are not added.
ClientsRefreshed(list) ==
    [h \in DOMAIN clients \ Grouped(list) |->
        IF h \in DOMAIN list THEN list[h].status ELSE clients[h]]

\* clientStore after the first loop and loadData: hosts that are in a group
\* now are removed, the others have their status refreshed or are added.
ClientsAfter(list) ==
    [h \in (DOMAIN clients \ Grouped(list)) \cup Ungrouped(list) |->
        IF h \in DOMAIN list THEN list[h].status ELSE clients[h]]

\* mutant of GroupsAfter: a host that left its group is not removed.
GroupsKept(list) ==
    [h \in DOMAIN groups \cup Grouped(list) |->
        IF h \notin DOMAIN list THEN groups[h]
        ELSE IF h \in DOMAIN groups
             THEN [groups[h] EXCEPT !.status = list[h].status]
             ELSE list[h]]

\* mutant of GroupsAfter: hosts without a group are added too.
GroupsOfAll(list) ==
    [h \in DOMAIN groups \cup DOMAIN list |->
        IF h \notin DOMAIN list THEN groups[h]
        ELSE IF h \in DOMAIN groups
             THEN [groups[h] EXCEPT !.status = list[h].status]
             ELSE list[h]]

\* groupStore after the first loop and loadData.  A host that is in the store
\* keeps the group it was added with.
GroupsAfter(list) ==
    [h \in (DOMAIN groups \ Ungrouped(list)) \cup Grouped(list) |->
        IF h \notin DOMAIN list THEN groups[h]
        ELSE IF h \in DOMAIN groups
             THEN [groups[h] EXCEPT !.status = list[h].status]
             ELSE list[h]]

\* mutant of Sweeps: nothing is removed.
SweepsNothing(order, gone, out) == out = {}

\* The last loops, on a store in this order, remove the records in out of
\* those in gone.  A removal moves the rest of the store up, so the loop
\* passes over the record that follows.
Sweeps(order, gone, out) ==
    \A i \in DOMAIN order :
        order[i] \in gone =>
            (order[i] \in out <=> (i = 1 \/ order[i - 1] \notin out))

Without(store, out) == [h \in DOMAIN store \ out |-> store[h]]

\* A store after the last loops, when hs are the hosts of the list.
Swept(store, hs) ==
    {Without(store, out) : out \in
        {o \in SUBSET (DOMAIN store \ hs) :
            \E order \in SetToSeqs(DOMAIN store) :
                Sweeps(order, DOMAIN store \ hs, o)}}

ProcessData(list) ==
    /\ clients' \in Swept(ClientsAfter(list), DOMAIN list)
    /\ groups' \in Swept(GroupsAfter(list), DOMAIN list)

-----------------------------------------------------------------------------
(* The service and the broker *)

\* Host.sendStatus and LiveMonitor.update.  Before the connection is made
\* there is no attribute send; once it is lost, writing to it does nothing.
Update(list) ==
    /\ listed' = list
    /\ \/ /\ link = "up"
          /\ Len(sent) < MaxQueued
          /\ sent' = Append(sent, list)
       \/ /\ link # "up"
          /\ UNCHANGED sent
    /\ UNCHANGED <<link, net, stores>>

\* buildProtocol, and the broker reads CONNECT.  A failed attempt is repeated.
LinkUp ==
    /\ link = "none"
    /\ link' = "up"
    /\ UNCHANGED <<listed, sent, net, stores>>

\* clientConnectionLost only prints: nothing connects again.
LinkLost ==
    /\ link = "up"
    /\ link' = "lost"
    /\ sent' = <<>>
    /\ UNCHANGED <<listed, net, stores>>

\* frame_send and Topic.send: the page has it, if it is subscribed.
Forward ==
    /\ sent # <<>>
    /\ sent' = Tail(sent)
    /\ \/ /\ page = "subscribed"
          /\ Len(wire) < MaxQueued
          /\ wire' = Append(wire, Head(sent))
       \/ /\ page # "subscribed"
          /\ UNCHANGED wire
    /\ UNCHANGED <<listed, link, page, ajax, stores>>

\* json_status
JsonStatus(s) ==
    /\ ajax[s].state = "asked"
    /\ ajax' = [ajax EXCEPT ![s] = [state |-> "answered", list |-> listed]]
    /\ UNCHANGED <<server, page, wire, stores>>

\* The process ends, with all its connections, and is started again.
Restart ==
    /\ listed' = NoList
    /\ link' = "none"
    /\ sent' = <<>>
    /\ page' = "waiting"
    /\ wire' = <<>>
    /\ ajax' = [s \in Slot |-> IF ajax[s].state = "answered" THEN ajax[s] ELSE Idle]
    /\ UNCHANGED stores

-----------------------------------------------------------------------------
(* The page *)

\* The DelayedTask of onclose: startStomp.
StartStomp ==
    /\ page = "waiting"
    /\ page' = "connecting"
    /\ UNCHANGED <<server, wire, ajax, stores>>

\* onopen
OnOpen ==
    /\ page = "connecting"
    /\ page' = "open"
    /\ \E s \in Slot : /\ ajax[s] = Idle
                       /\ ajax' = [ajax EXCEPT ![s].state = "asked"]
    /\ UNCHANGED <<server, wire, stores>>

\* onconnectedframe, and the broker reads the SUBSCRIBE.
Subscribe ==
    /\ page = "open"
    /\ page' = "subscribed"
    /\ UNCHANGED <<server, wire, ajax, stores>>

\* onclose: the connection is refused or lost.
OnClose ==
    /\ page # "waiting"
    /\ page' = "waiting"
    /\ wire' = <<>>
    /\ UNCHANGED <<server, ajax, stores>>

\* onmessageframe
OnMessage ==
    /\ wire # <<>>
    /\ ProcessData(Head(wire))
    /\ wire' = Tail(wire)
    /\ UNCHANGED <<server, page, ajax>>

\* The success callback of the request, whatever connection asked for it.
OnAnswer(s) ==
    /\ ajax[s].state = "answered"
    /\ ProcessData(ajax[s].list)
    /\ ajax' = [ajax EXCEPT ![s] = Idle]
    /\ UNCHANGED <<server, page, wire>>

\* The request fails; there is no callback for that.
AnswerFails(s) ==
    /\ ajax[s] # Idle
    /\ ajax' = [ajax EXCEPT ![s] = Idle]
    /\ UNCHANGED <<server, page, wire, stores>>

-----------------------------------------------------------------------------
Init ==
    /\ listed = NoList
    /\ link = "none"
    /\ sent = <<>>
    /\ page = "connecting"
    /\ wire = <<>>
    /\ ajax = [s \in Slot |-> Idle]
    /\ clients = [h \in {} |-> CHOOSE s \in Status : TRUE]
    /\ groups = NoList

Publish  == \E list \in List : Update(list)
Answered == \E s \in Slot : OnAnswer(s) \/ AnswerFails(s)

Next == \/ Publish \/ LinkUp \/ LinkLost \/ Forward \/ Restart
        \/ StartStomp \/ OnOpen \/ Subscribe \/ OnClose \/ OnMessage
        \/ Answered \/ \E s \in Slot : JsonStatus(s)

\* The broker reads what it is sent, the page handles its messages, and a
\* request ends.  Nothing else is promised.
Fairness == WF_vars(Forward) /\ WF_vars(OnMessage) /\ WF_vars(Answered)

Spec     == Init /\ [][Next]_vars
FairSpec == Spec /\ Fairness

-----------------------------------------------------------------------------
(* Correctness *)

\* Every variable holds a value of its kind.
TypeOK ==
    /\ listed \in List
    /\ link \in {"none", "up", "lost"}
    /\ sent \in Seq(List) /\ Len(sent) <= MaxQueued
    /\ page \in {"waiting", "connecting", "open", "subscribed"}
    /\ wire \in Seq(List) /\ Len(wire) <= MaxQueued
    /\ ajax \in [Slot -> [state : {"idle", "asked", "answered"}, list : List]]
    /\ DOMAIN clients \subseteq Host
    /\ clients \in [DOMAIN clients -> Status]
    /\ DOMAIN groups \subseteq Host
    /\ groups \in [DOMAIN groups -> [status : Status, group : Group]]

Shown == DOMAIN clients \cup DOMAIN groups

\* A host is never in both halves of the page, in whatever order messages and
\* late answers are processed.
OneStore == DOMAIN clients \cap DOMAIN groups = {}

\* The stores cs and gs show every host of the list, in the half of the page
\* that it belongs to and with its status.
ShowsListed(list, cs, gs) ==
    /\ \A h \in Ungrouped(list) : h \in DOMAIN cs /\ cs[h] = list[h].status
    /\ \A h \in Grouped(list) : h \in DOMAIN gs /\ gs[h].status = list[h].status

\* Processing a list, from a message or from an answer that came late, leaves
\* no host of it out, in the wrong half or with another status.
ListedShown ==
    [][/\ OnMessage => ShowsListed(Head(wire), clients', groups')
       /\ \A s \in Slot : OnAnswer(s) => ShowsListed(ajax[s].list, clients', groups')]_vars

Stable == <>[](link = "up" /\ page = "subscribed")

\* While lists go on being published, and the connections last, what lasts in
\* the list is in the end what the page shows: a late answer, a list missed
\* before the subscription and a record passed over by the sweep are all
\* repaired.
PageConverges ==
    (Stable /\ []<><<Publish>>_vars) =>
        /\ \A hs \in SUBSET Host : <>[](DOMAIN listed = hs) => <>[](Shown = hs)
        /\ \A h \in Host, s \in Status :
              <>[](h \in Ungrouped(listed) /\ listed[h].status = s)
                 => <>[](h \in DOMAIN clients /\ clients[h] = s)
        /\ \A h \in Host, s \in Status :
              <>[](h \in Grouped(listed) /\ listed[h].status = s)
                 => <>[](h \in DOMAIN groups /\ groups[h].status = s)
=============================================================================
