---------------------------- MODULE HostRegistry ----------------------------
(***************************************************************************)
(* The registry of client computers and the long-poll command channel      *)
(* (host.py, and the request_*/do_* methods of service.py with the control *)
(* resource of monitor.py that calls them).                                *)
(*                                                                         *)
(* A client asks the server for a command and is kept waiting; the server  *)
(* answers 'true' after 30 s, or earlier with what the operator of the web *)
(* page decided.  Every handler runs in the one reactor thread, so each is *)
(* one action; what interleaves is the clients, the page and the timers.   *)
(*                                                                         *)
(* Requests are numbered in the order they are accepted.  A Host object is *)
(* named by the request that created it, so that an object deleted from    *)
(* the registry (whose timer still runs) differs from the one that the     *)
(* same address gets when it comes back.  The 30 s timer that a request    *)
(* starts is named by the request; all delays are equal, so timers fire in *)
(* that order.                                                             *)
(***************************************************************************)
EXTENDS Naturals, FiniteSets

CONSTANTS
    Host,           \* the client addresses
    WebGroup,       \* group names made by the control page (they hold ' - ')
    Config,         \* which end words a group's command may carry
    NoGroup,        \* Python's None, as a group
    FinishedRaises, \* does write() on a finished request raise (Twisted >= 10.1)?
    PageOrder,      \* the orders given by button: "reboot", "poweroff"
    MaxRequests,    \* bound: requests accepted
    MaxGroups       \* bound: groups created

Words   == {"reboot", "shutdown"}
Command == {"true", "reboot", "poweroff", "backharddi_do"}
Status  == {"Conectado", "Desconectado", "Trabajando"}

Request == 1 .. MaxRequests
None    == 0                     \* no Host object for this address

\* 'Grupo %d' % n
AutoGroup(n) == <<"Grupo", n>>
GroupName == WebGroup \cup {AutoGroup(n) : n \in 1 .. MaxGroups}

ASSUME BoundsAssumption  == MaxRequests \in Nat /\ MaxGroups \in Nat
ASSUME ConfigAssumption  == Config \subseteq SUBSET Words
ASSUME OrderAssumption   == PageOrder \subseteq {"reboot", "poweroff"}
ASSUME RaisesAssumption  == FinishedRaises \in BOOLEAN
\* A name made by group_config holds ' - ', which no 'Grupo %d' does.
ASSUME NamesAssumption   == /\ \A n \in 1 .. (MaxGroups + 1) :
                                 AutoGroup(n) \notin WebGroup
                            /\ NoGroup \notin GroupName

VARIABLES
    accepted,    \* how many requests have been accepted
    req,         \* what became of each request
    owner,       \* the Host object a request was given to
    request,     \* Host.request (and _deferred_command) of each object
    timers,      \* requests whose 30 s timer is pending
    object,      \* Host.hosts: the object registered for an address
    status,      \* Host.status of the registered object
    group,       \* Host.group of the registered object
    groups,      \* Host.groups: name -> members and command
    hasMessages, \* Host.has_messages
    snapshot,    \* the list Host.sendStatus built last (class attribute Host.status)
    halfEdited   \* history: a group edit raised before its sendStatus, and
                 \* nothing has been sent since

channel  == <<accepted, req, owner, request>>
registry == <<object, group, groups>>
sending  == <<snapshot, halfEdited>>
vars     == <<channel, timers, status, registry, hasMessages, sending>>

-----------------------------------------------------------------------------
(* Helpers *)

Registered == {h \in Host : object[h] # None}
Current(h) == request[object[h]]

\* self.request = request
WithRequestShared(o, r) == [x \in Request |-> r]     \* mutant: a class attribute
WithRequest(o, r) == [request EXCEPT ![o] = r]

\* deferred_command: start the timer of r, which is now o's.
DeferredOnce(o, r) ==                    \* mutant: only in the constructor
    IF request[o] = None THEN timers \cup {r} ELSE timers
Deferred(o, r) == timers \cup {r}

\* What Host.sendStatus lists.
ViewConnected(st, gr) ==                 \* mutant: leaves out who is gone
    [h \in {k \in Registered : st[k] # "Desconectado"} |->
        [status |-> st[h], group |-> gr[h]]]
View(st, gr) == [h \in Registered |-> [status |-> st[h], group |-> gr[h]]]

\* Host.sendStatus with the given statuses and groups.
Publish(st, gr) == /\ snapshot' = View(st, gr)
                   /\ halfEdited' = FALSE

\* Does Host.command return?  finish() raises when the connection was lost;
\* write() on a finished request raises or is ignored, by Twisted's version.
Returns(r) == req[r] = "open" \/ (req[r] \in Command /\ ~FinishedRaises)

\* mutant: an answered request is answered again.
AnsweredAgain(R, cmd) == [r \in Request |-> IF r \in R THEN cmd ELSE req[r]]

\* write() and finish() of the requests in R: those that are open get cmd.
Answered(R, cmd) ==
    [r \in Request |-> IF r \in R /\ req[r] = "open" THEN cmd ELSE req[r]]

\* The hosts that a loop of commands reaches: all of them, or, when one
\* raises, those that came before it in the order of the list.
Reached(targets) ==
    LET here == targets \cap Registered
        able == {h \in here : Returns(Current(h))}
    IN  IF able = here THEN {here} ELSE SUBSET able

\* mutant of Tell: the status is left as it was.
TellSilently(done, cmd, st) ==
    /\ req' = Answered({Current(h) : h \in done}, cmd)
    /\ timers' = timers \ {Current(h) : h \in done}
    /\ status' = st

\* Host.command on each of the hosts in done: answer, cancel the current
\* timer, setStatus.  st is their status before.
Tell(done, cmd, st) ==
    /\ req' = Answered({Current(h) : h \in done}, cmd)
    /\ timers' = timers \ {Current(h) : h \in done}
    /\ status' = [h \in Host |-> IF h \in done THEN "Desconectado" ELSE st[h]]

\* mutant of GroupsWith: configuring a group again replaces its members.
GroupsReplaced(name, hs, cfg) ==
    [g \in DOMAIN groups \cup {name} |->
        IF g # name THEN groups[g] ELSE [hosts |-> hs, config |-> cfg]]

\* Host.groups after addToGroup(name, hs, cfg); None as cfg is {}.
GroupsWith(name, hs, cfg) ==
    [g \in DOMAIN groups \cup {name} |->
        IF g # name THEN groups[g]
        ELSE IF name \in DOMAIN groups
             THEN [hosts  |-> groups[name].hosts \cup hs,
                   config |-> IF cfg # {} THEN cfg ELSE groups[name].config]
             ELSE [hosts |-> hs, config |-> cfg]]

\* mutant of GroupsWithout: a group left without members is dropped.
GroupsPruned(name, out) ==
    [g \in {k \in DOMAIN groups : k # name \/ groups[k].hosts \ out # {}} |->
        IF g # name THEN groups[g]
        ELSE [hosts |-> groups[g].hosts \ out, config |-> groups[g].config]]

\* Host.groups after removing the hosts in out from a group; the group stays.
GroupsWithout(name, out) ==
    [g \in DOMAIN groups |->
        IF g # name THEN groups[g]
        ELSE [hosts |-> groups[g].hosts \ out, config |-> groups[g].config]]

Assigned(hs, g) == [h \in Host |-> IF h \in hs THEN g ELSE group[h]]

-----------------------------------------------------------------------------
(* The clients *)

\* request_command.  A known address keeps its Host object and replaces the
\* request; the timer of the request before it is left running.
Poll(h) ==
    LET r == accepted + 1
        o == IF h \in Registered THEN object[h] ELSE r
    IN
    /\ r \in Request
    /\ accepted' = r
    /\ req' = [req EXCEPT ![r] = "open"]
    /\ owner' = [owner EXCEPT ![r] = o]
    /\ request' = WithRequest(o, r)
    /\ timers' = Deferred(o, r)
    /\ object' = [object EXCEPT ![h] = o]
    /\ \/ /\ h \in Registered
          /\ status[h] # "Desconectado"
          /\ UNCHANGED <<status, group, hasMessages>>
       \/ /\ h \in Registered
          /\ status[h] = "Desconectado"
          /\ status' = [status EXCEPT ![h] = "Conectado"]
          /\ hasMessages' = TRUE
          /\ UNCHANGED group
       \/ /\ h \notin Registered
          /\ status' = [status EXCEPT ![h] = "Conectado"]
          /\ group' = [group EXCEPT ![h] = NoGroup]
          /\ hasMessages' = TRUE
    /\ UNCHANGED <<groups, sending>>

\* The connection of a waiting request is lost.  Nobody asks Twisted to be
\* told, so the registry does not change.
ClientGone(r) ==
    /\ req[r] = "open"
    /\ req' = [req EXCEPT ![r] = "lost"]
    /\ UNCHANGED <<accepted, owner, request, timers, status, registry,
                   hasMessages, sending>>

LastWordAsGiven(cfg) ==          \* mutant: 'shutdown' sent for 'poweroff'
    IF "reboot" \in cfg THEN "reboot" ELSE "shutdown"

\* The command with which request_status answers a finished client.  When the
\* group's command holds both words, do_shutdown runs after do_reboot has
\* finished the request: it raises or is ignored and changes nothing.
LastWord(cfg) == IF "reboot" \in cfg THEN "reboot" ELSE "poweroff"

\* request_status from a registered address; completed: msg is 'Completado'.
StatusReport(h, completed) ==
    LET auto == group[h] = NoGroup
        name == IF auto THEN AutoGroup(Cardinality(DOMAIN groups) + 1)
                        ELSE group[h]
        after == IF auto THEN GroupsWith(name, {h}, {}) ELSE groups
        st   == [status EXCEPT ![h] = "Trabajando"]
        orders == completed /\ after[name].config # {}
    IN
    /\ h \in Registered
    /\ auto => Cardinality(DOMAIN groups) < MaxGroups
    /\ groups' = after
    /\ group' = Assigned({h}, name)
    /\ IF auto THEN Publish(status, Assigned({h}, name)) ELSE UNCHANGED sending
    /\ IF orders
       THEN \E done \in Reached({h}) : Tell(done, LastWord(after[name].config), st)
       ELSE status' = st /\ UNCHANGED <<req, timers>>
    /\ hasMessages' = TRUE
    /\ UNCHANGED <<accepted, owner, request, object>>

-----------------------------------------------------------------------------
(* The reactor's timers *)

\* deferred_command: the timer of r answers 'true' to whatever request the
\* object holds now.
TimerFires(r) ==
    LET o == owner[r]
        q == request[o]
    IN
    /\ r \in timers
    /\ \A s \in timers : r <= s
    /\ \/ /\ Returns(q)
          /\ req' = Answered({q}, "true")
          /\ timers' = timers \ {r, q}
          /\ status' = [h \in Host |->
                          IF object[h] = o THEN "Desconectado" ELSE status[h]]
          /\ hasMessages' = TRUE
       \/ /\ ~Returns(q)
          /\ timers' = timers \ {r}
          /\ UNCHANGED <<req, status, hasMessages>>
    /\ UNCHANGED <<accepted, owner, request, registry, sending>>

\* Service.sendStatus, every 10 s.
PeriodicStatus ==
    /\ hasMessages
    /\ hasMessages' = FALSE
    /\ Publish(status, group)
    /\ UNCHANGED <<channel, timers, status, registry>>

-----------------------------------------------------------------------------
(* The control page *)

\* Handlers that only answer requests.
Order(targets, cmd) ==
    \E done \in Reached(targets) :
        /\ Tell(done, cmd, status)
        /\ hasMessages' = (hasMessages \/ done # {})
        /\ UNCHANGED <<accepted, owner, request, registry, sending>>

LaunchGroup(g) ==
    /\ g \in DOMAIN groups
    /\ Order(groups[g].hosts, "backharddi_do")

\* reboot and shutdown of the hosts selected in the page.
PageCommand(hs, word) == Order(hs, word)

\* do_sync_hosts
SyncHosts == Order(Registered, "true")

\* group_config: addToGroup, then do_launch_group when the box was ticked.
\* An address that is not registered raises KeyError in the second loop of
\* addToGroup: the hosts before it have been assigned and nothing is sent.
GroupConfig(g, hs, cfg, launch) ==
    LET after   == GroupsWith(g, hs, cfg)
        members == after[g].hosts
    IN
    /\ g \in DOMAIN groups \/ Cardinality(DOMAIN groups) < MaxGroups
    /\ groups' = after
    /\ \/ /\ hs \subseteq Registered
          /\ group' = Assigned(hs, g)
          /\ Publish(status, Assigned(hs, g))
          /\ \/ /\ launch
                /\ \E done \in Reached(members) :
                     /\ Tell(done, "backharddi_do", status)
                     /\ hasMessages' = (done # {})
             \/ /\ ~launch
                /\ hasMessages' = FALSE
                /\ UNCHANGED <<req, timers, status>>
       \/ /\ ~(hs \subseteq Registered)
          /\ \E before \in SUBSET (hs \cap Registered) :
               group' = Assigned(before, g)
          /\ halfEdited' = TRUE
          /\ UNCHANGED <<req, timers, status, hasMessages, snapshot>>
    /\ UNCHANGED <<accepted, owner, request, object>>

\* delFromGroup.  A member that is no longer registered is removed and then
\* raises KeyError: the hosts before it are done and nothing is sent.
DelFromGroup(g, hs) ==
    LET out == IF g \in DOMAIN groups THEN groups[g].hosts \cap hs ELSE {}
    IN
    /\ \/ /\ out \subseteq Registered
          /\ group' = Assigned(out, NoGroup)
          /\ groups' = GroupsWithout(g, out)
          /\ hasMessages' = FALSE
          /\ Publish(status, Assigned(out, NoGroup))
       \/ \E before \in SUBSET (out \cap Registered), bad \in out \ Registered :
          /\ group' = Assigned(before, NoGroup)
          /\ groups' = GroupsWithout(g, before \cup {bad})
          /\ halfEdited' = TRUE
          /\ UNCHANGED <<hasMessages, snapshot>>
    /\ UNCHANGED <<channel, timers, status, object>>

\* mutant of DelFromGui: delHost without its sendStatus.
DelFromGuiUnsent(hs) ==
    /\ object' = [h \in Host |-> IF h \in hs THEN None ELSE object[h]]
    /\ status' = [h \in Host |-> IF h \in hs THEN "Desconectado" ELSE status[h]]
    /\ group' = Assigned(hs, NoGroup)
    /\ UNCHANGED <<channel, timers, groups, hasMessages, sending>>

\* del_from_gui: delHost leaves the groups and the pending timers alone.  The
\* status and group of an address without an object are kept at a fixed value.
DelFromGui(hs) ==
    /\ object' = [h \in Host |-> IF h \in hs THEN None ELSE object[h]]
    /\ snapshot' = [h \in Registered \ hs |->
                      [status |-> status[h], group |-> group[h]]]
    /\ status' = [h \in Host |-> IF h \in hs THEN "Desconectado" ELSE status[h]]
    /\ group' = Assigned(hs, NoGroup)
    /\ halfEdited' = FALSE
    /\ hasMessages' = FALSE
    /\ UNCHANGED <<channel, timers, groups>>

-----------------------------------------------------------------------------
Init ==
    /\ accepted = 0
    /\ req = [r \in Request |-> "unused"]
    /\ owner = [r \in Request |-> None]
    /\ request = [r \in Request |-> None]
    /\ timers = {}
    /\ object = [h \in Host |-> None]
    /\ status = [h \in Host |-> "Desconectado"]
    /\ group = [h \in Host |-> NoGroup]
    /\ groups = [g \in {} |-> [hosts |-> {}, config |-> {}]]
    /\ hasMessages = FALSE
    /\ snapshot = [h \in {} |-> [status |-> "Desconectado", group |-> NoGroup]]
    /\ halfEdited = FALSE

Client == \/ \E h \in Host : Poll(h)
          \/ \E r \in Request : ClientGone(r)
          \/ \E h \in Host, completed \in BOOLEAN : StatusReport(h, completed)

Timer == \E r \in Request : TimerFires(r)

Operator == \/ \E g \in GroupName : LaunchGroup(g)
            \/ \E hs \in SUBSET Host \ {{}}, word \in PageOrder : PageCommand(hs, word)
            \/ SyncHosts
            \/ \E g \in WebGroup, hs \in SUBSET Host \ {{}}, cfg \in Config,
                  launch \in BOOLEAN : GroupConfig(g, hs, cfg, launch)
            \/ \E g \in GroupName, hs \in SUBSET Host \ {{}} : DelFromGroup(g, hs)
            \/ \E hs \in SUBSET Host \ {{}} : DelFromGui(hs)

Next == Client \/ Timer \/ PeriodicStatus \/ Operator

\* The reactor runs the delayed calls that are due; it owes nothing to the
\* clients or to the operator.
Fairness == WF_vars(Timer) /\ WF_vars(PeriodicStatus)

Spec     == Init /\ [][Next]_vars
FairSpec == Spec /\ Fairness

-----------------------------------------------------------------------------
(* Correctness *)

GroupRecord == [hosts : SUBSET Host, config : SUBSET Words]
Shown       == [status : Status, group : GroupName \cup {NoGroup}]

\* Every variable holds a value of its kind.
TypeOK ==
    /\ accepted \in 0 .. MaxRequests
    /\ req \in [Request -> {"unused", "open", "lost"} \cup Command]
    /\ owner \in [Request -> 0 .. MaxRequests]
    /\ request \in [Request -> 0 .. MaxRequests]
    /\ timers \in SUBSET Request
    /\ object \in [Host -> 0 .. MaxRequests]
    /\ status \in [Host -> Status]
    /\ group \in [Host -> GroupName \cup {NoGroup}]
    /\ DOMAIN groups \subseteq GroupName
    /\ groups \in [DOMAIN groups -> GroupRecord]
    /\ hasMessages \in BOOLEAN
    /\ DOMAIN snapshot \subseteq Host
    /\ snapshot \in [DOMAIN snapshot -> Shown]
    /\ halfEdited \in BOOLEAN

\* The object an address is registered with holds a request that was given to
\* it, and no two addresses share an object: an answer never reaches the
\* wrong computer, even after deletions and returns.
OwnRequest ==
    \A h \in Registered :
        /\ Current(h) \in 1 .. accepted
        /\ owner[Current(h)] = object[h]
        /\ \A k \in Registered : object[k] = object[h] => k = h

\* A waiting client always has its own 30 s timer running: no answer, timer
\* of an earlier request or deletion leaves it waiting without a deadline.
WaitingHasTimer ==
    \A r \in Request :
        (req[r] = "open" /\ request[owner[r]] = r) => r \in timers

\* The page shows 'Conectado' only for a client whose request has not been
\* answered, and 'Desconectado' only for one whose request has been, so a
\* command is never sent to a computer shown as gone that is in fact waiting.
StatusTellsRequest ==
    \A h \in Registered :
        /\ status[h] = "Conectado" => req[Current(h)] \notin Command
        /\ status[h] = "Desconectado" => req[Current(h)] \in Command

\* The group a host is shown in exists and lists it (launching the group the
\* page shows commands the host, and request_status finds its command),
\* whatever the order of edits, deletions, returns and half-done edits.
GroupMembership ==
    \A h \in Registered :
        group[h] # NoGroup => /\ group[h] \in DOMAIN groups
                              /\ h \in groups[group[h]].hosts

\* The name request_status makes for a host without a group names no group
\* yet: a client that reports by itself never joins a group the operator
\* configured, nor inherits its reboot or shutdown.
NextAutoGroupFree ==
    AutoGroup(Cardinality(DOMAIN groups) + 1) \notin DOMAIN groups

\* When nothing is due to be sent, the list that json_status returns shows
\* the registered hosts with their status, and their group too unless an edit
\* of a group raised before its sendStatus.
SnapshotCurrent ==
    ~hasMessages =>
        /\ DOMAIN snapshot = Registered
        /\ \A h \in Registered :
              /\ snapshot[h].status = status[h]
              /\ ~halfEdited => snapshot[h].group = group[h]

\* The requests that are held: the last one of each Host object.
Held == {r \in 1 .. accepted : request[owner[r]] = r}

\* The registry keeps the promise of PollChannel, with a Host object for a
\* line, through timers of earlier requests, loops of commands that raise half
\* way, deletions and returns: no request is answered twice, or after its
\* client has asked again, or in the place of another's.
Polls == INSTANCE PollChannel
            WITH Line <- Request, NoLine <- None, answer <- req, line <- owner, held <- Held
AnswersHeld == Polls!Spec

\* An open request that its object still holds is answered or lost, unless
\* the client asks again: no client waits for ever.
EveryPollEnds ==
    \A r \in Request :
        (req[r] = "open" /\ request[owner[r]] = r)
            ~> (req[r] # "open" \/ request[owner[r]] # r)

\* A status that lasts ends up in what json_status returns.
LastingStatusShown ==
    \A h \in Host, s \in Status :
        <>[](h \in Registered /\ status[h] = s)
            => <>[](h \in DOMAIN snapshot /\ snapshot[h].status = s)

\* Launching a group reaches every member that waits for a command, whatever
\* became of the other members (debian/changelog, 0.19).
LaunchReachesTheRest ==
    [][\A g \in GroupName : LaunchGroup(g) =>
         \A h \in groups[g].hosts \cap Registered :
            req[Current(h)] = "open" => req'[Current(h)] = "backharddi_do"]_vars
=============================================================================
