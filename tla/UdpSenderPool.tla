--------------------------- MODULE UdpSenderPool ---------------------------
(***************************************************************************)
(* The pool of multicast senders (udpsender.py, and waiting and            *)
(* request_get_imgs of service.py).                                        *)
(*                                                                         *)
(* A client that restores a backup asks for its images and is given the    *)
(* port of a UDPSender: one that still gathers receivers for that backup,  *)
(* or a new one.  A sender serves the images of the backup one by one,     *)
(* each with a udp-sender process whose stdin the reactor feeds and whose  *)
(* stderr it reads.  start_next runs in a thread of the reactor's pool: it *)
(* may take its sender out of a list that a request is going through, and  *)
(* the reactor may read from a process that start_next has not yet got     *)
(* ready.  stdin, stderr and the end of the process reach the reactor as   *)
(* separate events, between requests.                                      *)
(*                                                                         *)
(* Senders are numbered in the order they are created, which is their      *)
(* order in the lists of UDPSender.active.  Port i stands for              *)
(* PORTBASE + 2 * i.  A line of stderr arrives whole; what is only logged  *)
(* or passed on (requests, participants, minclients, maxwait) is left out. *)
(***************************************************************************)
EXTENDS Naturals, FiniteSets, Sequences

CONSTANTS
    Backup,     \* backup directories
    Address,    \* addresses of the server that clients talk to
    Foreign,    \* ports whose port + 1 another program holds
    MaxSenders, \* bound: senders created
    MaxImgs     \* bound: images of a backup

Sender == 1 .. MaxSenders

ASSUME BoundsAssumption == MaxSenders \in Nat /\ MaxImgs \in Nat
ASSUME ClientAssumption == Backup # {} /\ Address # {}
ASSUME ForeignAssumption == Foreign \subseteq Nat /\ IsFiniteSet(Foreign)

Job     == [backup : Backup, address : Address]
AnyJob  == CHOOSE j \in Job : TRUE \* where the program has none
Port    == 0 .. (MaxSenders + Cardinality(Foreign))
Running == {"launched", "listening", "sending"}

VARIABLES
    created,  \* how many senders have been created
    active,   \* UDPSender.active, the lists of all backups together
    job,      \* the backup and address of each sender
    port,     \* its port
    imgs,     \* images its iterator has left
    serving,  \* 'Starting transfer' has been read once
    finish,   \* 'Transfer complete.' has been read for this process
    thread,   \* its start_next, if one is queued or running
    child,    \* its udp-sender process
    said,     \* whether the process said that the transfer was complete
    stdin,    \* the reactor's end of the process's stdin
    stderr,   \* lines the reactor has not read yet
    step,     \* what the reactor does: "free", or a request's "waiting" or "ports"
    ask,      \* the backup and address of the request
    list,     \* the backup whose list it is going through
    behind,   \* the members of that list that its iterator has behind it
    todo,     \* the lists that the comprehension has not come to
    seen,     \* the senders whose ports it has collected
    underWaiting, \* history, of each sender: those that a thread took out from
    underPorts    \* behind the iterator while waiting, or the comprehension, of
                  \* the request that made it was going through their list

poolVars    == <<created, job, port>>
scanVars    == <<step, ask, list, todo, seen>>
listVars    == <<active, behind, underWaiting, underPorts>>
processVars == <<child, said, stdin, stderr>>
vars == <<poolVars, scanVars, listVars, imgs, serving, finish, thread, processVars>>

-----------------------------------------------------------------------------
(* Helpers *)

\* A process holds its port from the moment it has bound it.
Bound(s) == child[s] \in {"listening", "sending"}

\* portInUse(port + 1)
PortInUse(p) == p \in Foreign \/ \E s \in Sender : Bound(s) /\ port[s] = p

PortIgnoringActive ==       \* mutant: only the system's ports are asked
    CHOOSE p \in Port : ~PortInUse(p) /\ \A q \in 0 .. (p - 1) : PortInUse(q)

\* The constructor's search, from the ports that the comprehension collected.
FreePort ==
    LET taken(p) == p \in {port[s] : s \in seen} \/ PortInUse(p)
    IN  CHOOSE p \in Port : ~taken(p) /\ \A q \in 0 .. (p - 1) : taken(q)

GathersLaunched(s) ==       \* mutant: only once its process has been launched
    job[s] = ask /\ ~serving[s] /\ child[s] \in Running

\* The test of Service.waiting.
Gathers(s) == job[s] = ask /\ ~serving[s]

InList(l) == {s \in active : job[s].backup = l}
First(S)  == {s \in S : \A u \in S : s <= u}

\* What the iterator yields next; nothing when it has come to the end.
Upcoming == First(InList(list) \ behind)

\* unset_active.  When s is behind the iterator, which counts positions, the
\* member that it would have yielded next moves behind it, unseen.
Unset(s) ==
    LET n == created + 1
    IN  /\ active' = active \ {s}
        /\ \/ /\ s \in behind
              /\ behind' = (behind \ {s}) \cup Upcoming
              /\ \/ /\ step = "waiting"
                    /\ underWaiting' = [underWaiting EXCEPT ![n] = @ \cup {s}]
                    /\ UNCHANGED underPorts
                 \/ /\ step = "ports"
                    /\ underPorts' = [underPorts EXCEPT ![n] = @ \cup {s}]
                    /\ UNCHANGED underWaiting
           \/ /\ s \notin behind
              /\ UNCHANGED <<behind, underWaiting, underPorts>>

-----------------------------------------------------------------------------
(* The clients' requests: request_get_imgs, in the reactor *)

\* waiting begins.
Request(b, a) ==
    /\ step = "free" /\ created < MaxSenders
    /\ step' = "waiting"
    /\ ask' = [backup |-> b, address |-> a]
    /\ list' = b
    /\ UNCHANGED <<poolVars, todo, seen, listVars, imgs, serving, finish, thread,
                   processVars>>

\* The handler is done; its locals are gone.
Return == /\ step' = "free"
          /\ ask' = AnyJob /\ list' = AnyJob.backup
          /\ behind' = {} /\ todo' = {} /\ seen' = {}

\* waiting returns a sender, and the client is given its port.
JoinSender ==
    /\ step = "waiting"
    /\ \E s \in Upcoming : Gathers(s)
    /\ Return
    /\ underWaiting' = [underWaiting EXCEPT ![created + 1] = {}]
    /\ UNCHANGED <<poolVars, active, underPorts, imgs, serving, finish, thread,
                   processVars>>

\* waiting goes on to the next sender.
PassOver ==
    /\ step = "waiting"
    /\ \E s \in Upcoming : ~Gathers(s) /\ behind' = behind \cup {s}
    /\ UNCHANGED <<poolVars, scanVars, active, underWaiting, underPorts, imgs,
                   serving, finish, thread, processVars>>

\* waiting returns None: the constructor begins to collect the ports of the
\* senders in all the lists, which come in any order.
NoneWaiting ==
    /\ step = "waiting" /\ Upcoming = {}
    /\ step' = "ports"
    /\ behind' = {}
    /\ \E l \in Backup : list' = l /\ todo' = Backup \ {l}
    /\ UNCHANGED <<poolVars, ask, seen, active, underWaiting, underPorts, imgs,
                   serving, finish, thread, processVars>>

CollectPort ==
    /\ step = "ports"
    /\ \E s \in Upcoming : behind' = behind \cup {s} /\ seen' = seen \cup {s}
    /\ UNCHANGED <<poolVars, step, ask, list, todo, active, underWaiting,
                   underPorts, imgs, serving, finish, thread, processVars>>

CollectNextList ==
    /\ step = "ports" /\ Upcoming = {}
    /\ \E l \in todo : list' = l /\ todo' = todo \ {l}
    /\ behind' = {}
    /\ UNCHANGED <<poolVars, step, ask, seen, active, underWaiting, underPorts,
                   imgs, serving, finish, thread, processVars>>

\* The new UDPSender, with n images, takes a port and its place in the list;
\* its start_next is handed to the thread pool.
NewSender(n) ==
    LET s == created + 1
    IN  /\ step = "ports" /\ Upcoming = {} /\ todo = {}
        /\ created' = s
        /\ job' = [job EXCEPT ![s] = ask]
        /\ port' = [port EXCEPT ![s] = FreePort]
        /\ imgs' = [imgs EXCEPT ![s] = n]
        /\ active' = active \cup {s}
        /\ thread' = [thread EXCEPT ![s] = "queued"]
        /\ Return
        /\ UNCHANGED <<underWaiting, underPorts, serving, finish, processVars>>

-----------------------------------------------------------------------------
(* start_next, in a thread of the pool *)

\* mutant of ThreadNext: one image too many.
ThreadNextPastEnd(s) ==
    /\ thread[s] = "queued"
    /\ finish' = [finish EXCEPT ![s] = FALSE]
    /\ imgs' = [imgs EXCEPT ![s] = @ - 1]
    /\ thread' = [thread EXCEPT ![s] = IF imgs[s] >= 0 THEN "took" ELSE "drained"]
    /\ UNCHANGED <<poolVars, scanVars, listVars, serving, processVars>>

\* finish is cleared and the iterator asked for the next image.
ThreadNext(s) ==
    /\ thread[s] = "queued"
    /\ finish' = [finish EXCEPT ![s] = FALSE]
    /\ \/ /\ imgs[s] > 0
          /\ imgs' = [imgs EXCEPT ![s] = @ - 1]
          /\ thread' = [thread EXCEPT ![s] = "took"]
       \/ /\ imgs[s] = 0
          /\ thread' = [thread EXCEPT ![s] = "drained"]
          /\ UNCHANGED imgs
    /\ UNCHANGED <<poolVars, scanVars, listVars, serving, processVars>>

\* spawnProcess, up to the fork: the process runs, and the reactor may read
\* its stderr.
ThreadSpawn(s) ==
    /\ thread[s] = "took"
    /\ thread' = [thread EXCEPT ![s] = "forked"]
    /\ child' = [child EXCEPT ![s] = "launched"]
    /\ said' = [said EXCEPT ![s] = FALSE]
    /\ stdin' = [stdin EXCEPT ![s] = "unfed"]
    /\ stderr' = [stderr EXCEPT ![s] = <<>>]
    /\ UNCHANGED <<poolVars, scanVars, listVars, imgs, serving, finish>>

\* transferAbort
Abort(s, how) ==
    /\ finish' = [finish EXCEPT ![s] = FALSE]
    /\ Unset(s)
    /\ stdin' = [stdin EXCEPT ![s] = how]

\* spawnProcess goes on: connectionMade, and then the process is registered
\* to be reaped.  The first part is being written; or there are no parts left
\* (put_img removes the directory of a backup that is uploaded again) and
\* stdin is closed; or a part vanishes before it is opened and the exception
\* is logged; or the process is gone already and the transfer aborted.
ThreadFeeds(s) ==
    /\ thread[s] = "forked"
    /\ thread' = [thread EXCEPT ![s] = "idle"]
    /\ \/ /\ \E how \in {"feeding", "closed", "unfed"} :
                 stdin' = [stdin EXCEPT ![s] = how]
          /\ UNCHANGED <<listVars, finish>>
       \/ /\ child[s] \notin Running
          /\ Abort(s, "broken")
    /\ UNCHANGED <<poolVars, scanVars, imgs, serving, child, said, stderr>>

\* mutant of ThreadUnset: the last image leaves the sender in the pool.
ThreadForgets(s) ==
    /\ thread[s] = "drained"
    /\ thread' = [thread EXCEPT ![s] = "idle"]
    /\ UNCHANGED <<poolVars, scanVars, listVars, imgs, serving, finish, processVars>>

\* StopIteration: unset_active.
ThreadUnset(s) ==
    /\ thread[s] = "drained"
    /\ thread' = [thread EXCEPT ![s] = "idle"]
    /\ Unset(s)
    /\ UNCHANGED <<poolVars, scanVars, imgs, serving, finish, processVars>>

-----------------------------------------------------------------------------
(* The udp-sender process *)

\* It binds its port, unless another process holds it.
ChildBinds(s) ==
    /\ child[s] = "launched"
    /\ ~PortInUse(port[s])
    /\ child' = [child EXCEPT ![s] = "listening"]
    /\ UNCHANGED <<poolVars, scanVars, listVars, imgs, serving, finish, thread, said,
                   stdin, stderr>>

\* Enough receivers, or max-wait is over: it says so and sends.
ChildStarts(s) ==
    /\ child[s] = "listening"
    /\ child' = [child EXCEPT ![s] = "sending"]
    /\ stderr' = [stderr EXCEPT ![s] = Append(@, "Starting transfer")]
    /\ UNCHANGED <<poolVars, scanVars, listVars, imgs, serving, finish, thread, said, stdin>>

\* It has sent all of its input, or every receiver has been dropped: it says
\* that the transfer is complete and exits, normally or not.
ChildCompletes(s, code) ==
    /\ child[s] = "sending"
    /\ child' = [child EXCEPT ![s] = code]
    /\ said' = [said EXCEPT ![s] = TRUE]
    /\ stderr' = [stderr EXCEPT ![s] = Append(@, "Transfer complete.")]
    /\ UNCHANGED <<poolVars, scanVars, listVars, imgs, serving, finish, thread, stdin>>

\* It ends in any other way.
ChildEnds(s, code) ==
    /\ child[s] \in Running
    /\ child' = [child EXCEPT ![s] = code]
    /\ UNCHANGED <<poolVars, scanVars, listVars, imgs, serving, finish, thread, said,
                   stdin, stderr>>

-----------------------------------------------------------------------------
(* The reactor's events, which it handles between requests *)

\* The last part has been written: closeStdin.
FeedEnds(s) ==
    /\ step = "free"
    /\ stdin[s] = "feeding"
    /\ child[s] \in Running
    /\ stdin' = [stdin EXCEPT ![s] = "closed"]
    /\ UNCHANGED <<poolVars, scanVars, listVars, imgs, serving, finish, thread, child,
                   said, stderr>>

\* The process is gone while a part is being written: the producer is
\* stopped and its errback called.
PipeBreaks(s) ==
    /\ step = "free"
    /\ stdin[s] = "feeding"
    /\ child[s] \in {"exited0", "failed"}
    /\ Abort(s, "broken")
    /\ UNCHANGED <<poolVars, scanVars, imgs, serving, thread, child, said, stderr>>

\* The next part cannot be opened (put_img removes the directory of a backup
\* that is uploaded again).  The process lives on, its stdin never closed.
\* Parts are larger than the pipe, so the process is sending by then.
PartMissing(s) ==
    /\ step = "free"
    /\ stdin[s] = "feeding"
    /\ child[s] = "sending"
    /\ Abort(s, "stuck")
    /\ UNCHANGED <<poolVars, scanVars, imgs, serving, thread, child, said, stderr>>

\* mutant of ErrReceived: the next image at once, not when the process ended.
ErrReceivedStartsNext(s) ==
    /\ step = "free" /\ stderr[s] # <<>>
    /\ stderr' = [stderr EXCEPT ![s] = Tail(@)]
    /\ IF Head(stderr[s]) = "Starting transfer"
       THEN serving' = [serving EXCEPT ![s] = TRUE] /\ UNCHANGED thread
       ELSE thread' = [thread EXCEPT ![s] = "queued"] /\ UNCHANGED serving
    /\ UNCHANGED <<poolVars, scanVars, listVars, imgs, finish, child, said, stdin>>

\* errReceived
ErrReceived(s) ==
    /\ step = "free" /\ stderr[s] # <<>>
    /\ stderr' = [stderr EXCEPT ![s] = Tail(@)]
    /\ \/ /\ Head(stderr[s]) = "Starting transfer"
          /\ serving' = [serving EXCEPT ![s] = TRUE]
          /\ UNCHANGED finish
       \/ /\ Head(stderr[s]) = "Transfer complete."
          /\ finish' = [finish EXCEPT ![s] = TRUE]
          /\ UNCHANGED serving
    /\ UNCHANGED <<poolVars, scanVars, listVars, imgs, thread, child, said, stdin>>

\* mutant of NextWanted: the exit code is not looked at.
NextOnFinish(s) == finish[s]

\* The condition of processEnded.
NextWanted(s) == child[s] = "exited0" /\ finish[s]

\* processEnded: the process is reaped and its pipes have been closed.
ProcessEnded(s) ==
    /\ step = "free" /\ thread[s] # "forked"
    /\ child[s] \in {"exited0", "failed"}
    /\ stdin[s] # "feeding"
    /\ stderr[s] = <<>>
    /\ child' = [child EXCEPT ![s] = "none"]
    /\ IF NextWanted(s) THEN thread' = [thread EXCEPT ![s] = "queued"]
                        ELSE UNCHANGED thread
    /\ UNCHANGED <<poolVars, scanVars, listVars, imgs, serving, finish, said, stdin, stderr>>

-----------------------------------------------------------------------------
Init ==
    /\ created = 0
    /\ active = {}
    /\ job = [s \in Sender |-> AnyJob]
    /\ port = [s \in Sender |-> 0]
    /\ imgs = [s \in Sender |-> 0]
    /\ serving = [s \in Sender |-> FALSE]
    /\ finish = [s \in Sender |-> FALSE]
    /\ thread = [s \in Sender |-> "idle"]
    /\ child = [s \in Sender |-> "none"]
    /\ said = [s \in Sender |-> FALSE]
    /\ stdin = [s \in Sender |-> "closed"]
    /\ stderr = [s \in Sender |-> <<>>]
    /\ step = "free"
    /\ ask = AnyJob /\ list = AnyJob.backup
    /\ behind = {} /\ todo = {} /\ seen = {}
    /\ underWaiting = [s \in Sender |-> {}]
    /\ underPorts = [s \in Sender |-> {}]

\* The handler of a request goes on.
Handler == \/ JoinSender \/ PassOver \/ NoneWaiting
           \/ CollectPort \/ CollectNextList
           \/ \E n \in 0 .. MaxImgs : NewSender(n)

Thread(s) == ThreadNext(s) \/ ThreadSpawn(s) \/ ThreadFeeds(s) \/ ThreadUnset(s)

Child(s) == \/ ChildBinds(s) \/ ChildStarts(s)
            \/ \E code \in {"exited0", "failed"} :
                  ChildCompletes(s, code) \/ ChildEnds(s, code)

Event(s) == PipeBreaks(s) \/ ErrReceived(s) \/ ProcessEnded(s)

Next == \/ \E b \in Backup, a \in Address : Request(b, a)
        \/ Handler
        \/ \E s \in Sender : \/ Thread(s) \/ Child(s) \/ Event(s)
                             \/ FeedEnds(s) \/ PartMissing(s)

\* The thread pool runs what it is given, and a handler of the reactor goes on
\* to its end.  Between any two requests the reactor may handle events, and in
\* each of its rounds it handles all that are due: an event does not wait for
\* ever, however many requests come in between.  Nothing is assumed of the
\* processes or of the clients.
Fairness == /\ WF_vars(Handler)
            /\ \A s \in Sender : WF_vars(Thread(s)) /\ SF_vars(Event(s))

Spec     == Init /\ [][Next]_vars
FairSpec == Spec /\ Fairness

-----------------------------------------------------------------------------
(* Correctness *)

\* Every variable holds a value of its kind.
TypeOK ==
    /\ created \in 0 .. MaxSenders
    /\ active \in SUBSET Sender
    /\ job \in [Sender -> Job]
    /\ port \in [Sender -> Port]
    /\ imgs \in [Sender -> 0 .. MaxImgs]
    /\ serving \in [Sender -> BOOLEAN]
    /\ finish \in [Sender -> BOOLEAN]
    /\ thread \in [Sender -> {"idle", "queued", "took", "forked", "drained"}]
    /\ child \in [Sender -> Running \cup {"none", "exited0", "failed"}]
    /\ said \in [Sender -> BOOLEAN]
    /\ stdin \in [Sender -> {"unfed", "feeding", "closed", "broken", "stuck"}]
    /\ stderr \in [Sender -> Seq({"Starting transfer", "Transfer complete."})]
    /\ step \in {"free", "waiting", "ports"}
    /\ ask \in Job /\ list \in Backup /\ todo \in SUBSET Backup
    /\ behind \in SUBSET Sender /\ seen \in SUBSET Sender
    /\ underWaiting \in [Sender -> SUBSET Sender]
    /\ underPorts \in [Sender -> SUBSET Sender]

\* Each of the senders in A was missed because of one of its own in T, which
\* stood before it in the list.
Excused(A, T) == /\ Cardinality(A) <= Cardinality(T)
                 /\ \A m \in A : \E t \in T : t < m

\* A new sender takes the port of no sender that is in the pool, although ports
\* are bound some time after they are chosen and any thread may leave a list
\* while it is searched; but for one sender for each that a thread took out from
\* behind the comprehension, and one that stood later in the same list.
ActivePortsDistinct ==
    \A s \in active, l \in Backup :
        Excused({u \in InList(l) : u < s /\ port[u] = port[s]},
                {t \in underPorts[s] : job[t].backup = l})

\* No sender is made while one gathers for the same backup and address, so that
\* clients gather at one; but for one sender for each that a thread took out
\* from behind the iterator of waiting, and one that stood later in its list.
GatherAtOne ==
    \A s \in active :
        Excused({u \in active : u < s /\ job[u] = job[s] /\ ~serving[u]},
                underWaiting[s])

\* A sender runs one thing at a time: a process of the sender is neither alive
\* nor waits to be reaped when start_next is queued or takes the next image, and
\* it is not reaped before start_next is done with it.
OneProcessPerSender ==
    \A s \in Sender :
        /\ thread[s] \in {"queued", "took", "drained"} => child[s] = "none"
        /\ thread[s] = "forked" => child[s] # "none"

\* The next image is only asked for when the process before it said that the
\* transfer was complete and exited with code 0.
NextAfterSuccess ==
    [][\A s \in 1 .. created :
         (thread[s] = "idle" /\ thread'[s] = "queued")
            => said[s] /\ child[s] = "exited0"]_vars

\* A sender whose processes all end, saying that they completed and with code
\* 0, leaves the pool in the end, whatever the order of its events.
GoodSendersLeave ==
    \A s \in Sender :
        (/\ []<>(child[s] \notin Running)
         /\ [](child[s] # "failed")
         /\ [](child[s] = "exited0" => said[s]))
            => []((s \in active) => <>(s \notin active))

\* After an aborted transfer the next file is not served
\* (debian/changelog, 0.18).
NoFileAfterAbort ==
    [][\A s \in Sender :
         stdin[s] \in {"broken", "stuck"} => ~ThreadSpawn(s)]_vars
=============================================================================
