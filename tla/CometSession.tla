--------------------------- MODULE CometSession ---------------------------
(***************************************************************************)
(* The connection that Orbited gives to a page: Orbited.CometSession and   *)
(* its transport in the page (Orbited.js), TCPConnectionResource and its   *)
(* transports in the service (cometsession.py, transports/).               *)
(*                                                                         *)
(* Down, the page keeps one GET open; the service writes numbered frames   *)
(* to it and keeps them until they are acknowledged, which the next GET or *)
(* POST does; a new GET replaces the transport of the previous one and is  *)
(* sent all that is not acknowledged.  Up, the page has one POST at a time *)
(* with all that it has queued, and posts it again when it fails.          *)
(*                                                                         *)
(* Packets are what TCPConnectionResource.send is given, in log; the frame *)
(* 'open' is no packet: it is written once and never kept.  The clock is   *)
(* left out: a timer that is set may go off at any time.                   *)
(***************************************************************************)
EXTENDS Naturals, Sequences, FiniteSets

CONSTANTS
    Data,         \* what the protocol of the service writes
    Transports,   \* the transports that the page's browser may choose
    Statuses,     \* what the status of a failed request may be: "zero",
                  \* "null", or the browser "throws" when it is read
    MaxRetries,   \* RETRY_TIMEOUT / RETRY_INTERVAL
    MaxWritten,   \* bound: packets of the protocol, and pings while the page is
                  \* there
    MaxPosted,    \* bound: packets of the page
    MaxFaults     \* bound: requests and answers that are lost

ASSUME TransportsAssumption == Transports \subseteq {"longpoll", "xhrstream"}
ASSUME StatusesAssumption   == Statuses \subseteq {"zero", "null", "throws"}
ASSUME DataAssumption       == Data \cap {"opt", "ping", "close", "open"} = {}
ASSUME BoundsAssumption     ==
    /\ MaxRetries \in Nat \ {0}
    /\ MaxWritten \in Nat
    /\ MaxPosted \in Nat
    /\ MaxFaults \in Nat

Packet == Data \cup {"opt", "ping", "close"}
Frame  == [id : Nat, what : Packet \cup {"open"}]
Upward == [id : Nat, name : {"data", "ping", "close"}]
Post   == [ack : Nat, frames : Seq(Upward)]

VARIABLES
    \* the service
    conn,       \* the connection: none yet, live or closed
    opened,     \* self.open: the frame 'open' was written
    msgQueue,   \* packets that wait for a transport
    unackQueue, \* frames written and not acknowledged
    lastAckId,
    packetId,
    cur,        \* cometTransport: none, that of the page's GET, or that of a
                \* stale GET, which the page has given up and the service not
    timer,      \* the timer that is set: ping, timeout or none
    toParse,    \* the bodies of POSTs that wait for parseData
    \* the page
    transport,  \* the transport that chooseTransport chooses
    rs,         \* readyState of the session; LEFT when the page is gone
    ct,         \* readyState of the transport: none, open or closed
    get,        \* its GET: none, sent, held by the service, done or missing
    body,       \* what was written to the GET and the page has not read
    part,       \* XHRStream has read a part of the first frame of the body
    torn,       \* XHRStream has lost the rest of a frame it had read in part
    ackId,      \* the id that the transport read last
    lastPacketId,
    sendQueue,
    packetCount,
    post,       \* the other request: idle, for the key (key, keyback), a POST
                \* (sent, answered, refused), waiting for a retry, or stuck
    posted,     \* what the POST carries
    retries,
    \* between them
    late,       \* acks of given up GETs that may still arrive
    latePosts,  \* given up POSTs that may still arrive
    faults,
    \* history
    log,        \* what was given to send
    got,        \* the packets that the page has read, until torn
    taken       \* ids of the page's frames that parseData has handled

queues  == <<msgQueue, unackQueue, lastAckId, packetId, log>>
answer  == <<get, body, part, torn>>
page    == <<transport, rs, ct>>
read    == <<ackId, lastPacketId, got>>
up      == <<sendQueue, packetCount, post, posted, retries>>
network == <<late, latePosts, faults>>
vars    == <<conn, opened, queues, cur, timer, toParse, answer, page, read,
             up, network, taken>>

NoPost == [ack |-> 0, frames |-> <<>>]

Init ==
    /\ conn = "none" /\ opened = FALSE /\ cur = "none" /\ timer = "none"
    /\ msgQueue = <<>> /\ unackQueue = <<>> /\ lastAckId = 0 /\ packetId = 0
    /\ toParse = <<>>
    /\ transport \in Transports
    /\ rs = "INITIALIZED" /\ ct = "none" /\ get = "none" /\ body = <<>>
    /\ part = FALSE /\ torn = FALSE /\ ackId = 0 /\ lastPacketId = 0
    /\ sendQueue = <<>> /\ packetCount = 0
    /\ post = "idle" /\ posted = NoPost /\ retries = 0
    /\ late = {} /\ latePosts = {} /\ faults = 0
    /\ log = <<>> /\ got = <<>> /\ taken = <<>>

Larger(a, b)  == IF a > b THEN a ELSE b
Smaller(a, b) == IF a < b THEN a ELSE b
Drop(s, n)    == SubSeq(s, n + 1, Len(s))

-----------------------------------------------------------------------------
(* The service: packets, acknowledgements and transports *)

\* Mutants of ack: packets above packetId are forgotten too; nothing is taken
\* from unackQueue.
AckedUnsent(a) == Larger(lastAckId, Larger(a, packetId))
UnackedAll(a)  == unackQueue

\* ack(a): the value of lastAckId, and what is left of unackQueue.
Acked(a)   == Larger(lastAckId, Smaller(a, packetId))
Unacked(a) == Drop(unackQueue, Acked(a) - lastAckId)

\* frames are written to the transport t and flushed.  LongPoll ends its answer
\* with them; XHRStream ends it when it has become too long.  What is written
\* to a stale GET gets nowhere.
WriteTo(t, frames) ==
    \E ends \in IF frames = <<>> THEN {FALSE}
                ELSE IF transport = "longpoll" THEN {TRUE} ELSE BOOLEAN :
        /\ cur' = IF ends THEN "none" ELSE t
        /\ IF t = "page"
           THEN /\ body' = body \o frames
                /\ get' = IF ends THEN "done" ELSE "held"
           ELSE UNCHANGED <<body, get>>

\* transport.close: the request of the current transport is finished.
FinishCurrent == get' = IF cur = "page" THEN "done" ELSE get

\* A mutant of send: the frame is not kept.
SendPacketOnce(what) ==
    LET frame == [id |-> packetId + 1, what |-> what] IN
    /\ log' = Append(log, what)
    /\ IF cur = "none"
       THEN /\ msgQueue' = Append(msgQueue, what)
            /\ UNCHANGED <<packetId, cur, body, get>>
       ELSE /\ packetId' = packetId + 1
            /\ WriteTo(cur, <<frame>>)
            /\ UNCHANGED msgQueue
    /\ UNCHANGED <<lastAckId, unackQueue, part, torn>>

\* TCPConnectionResource.send
SendPacket(what) ==
    LET frame == [id |-> packetId + 1, what |-> what] IN
    /\ log' = Append(log, what)
    /\ IF cur = "none"
       THEN /\ msgQueue' = Append(msgQueue, what)
            /\ UNCHANGED <<packetId, unackQueue, cur, body, get>>
       ELSE /\ packetId' = packetId + 1
            /\ unackQueue' = Append(unackQueue, frame)
            /\ WriteTo(cur, <<frame>>)
            /\ UNCHANGED msgQueue
    /\ UNCHANGED <<lastAckId, part, torn>>

\* close(reason, now=True) with the transport t: the packet 'close' goes out
\* if there is a transport, and then the resource is gone.
CloseConn(t) ==
    LET frame == [id |-> packetId + 1, what |-> "close"] IN
    /\ conn' = "closed"
    /\ timer' = "none"
    /\ cur' = "none"
    /\ log' = Append(log, "close")
    /\ IF t = "none"
       THEN /\ msgQueue' = Append(msgQueue, "close")
            /\ UNCHANGED <<packetId, unackQueue>>
       ELSE /\ packetId' = packetId + 1
            /\ unackQueue' = Append(unackQueue, frame)
            /\ UNCHANGED msgQueue
    /\ body' = IF t = "page" THEN Append(body, frame) ELSE body
    /\ get' = IF t = "page" THEN "done" ELSE get
    /\ UNCHANGED <<lastAckId, part, torn>>

\* A mutant: 'open' is queued as a packet with the options.
CreateOpen ==
    /\ post = "key"
    /\ post' = "keyback"
    /\ conn' = "live"
    /\ timer' = "ping"
    /\ msgQueue' = <<"opt", "opt", "open">>
    /\ log' = <<"opt", "opt", "open">>
    /\ UNCHANGED <<opened, unackQueue, lastAckId, packetId, cur, toParse,
                   answer, page, read, sendQueue, packetCount, posted, retries,
                   network, taken>>

\* TCPResource.render: a key for the page; the proxy's connectionMade gives
\* the connection its two options.
Create ==
    /\ post = "key"
    /\ post' = "keyback"
    /\ conn' = "live"
    /\ timer' = "ping"
    /\ msgQueue' = <<"opt", "opt">>
    /\ log' = <<"opt", "opt">>
    /\ UNCHANGED <<opened, unackQueue, lastAckId, packetId, cur, toParse,
                   answer, page, read, sendQueue, packetCount, posted, retries,
                   network, taken>>

\* How many packets were given to send besides the options and 'close'.
Written == Cardinality({i \in DOMAIN log : log[i] \notin {"opt", "close"}})

\* The protocol behind the connection writes, or closes it.
Write ==
    /\ conn = "live"
    /\ Written < MaxWritten
    /\ \E d \in Data : SendPacket(d)
    /\ UNCHANGED <<conn, opened, timer, toParse, page, read, up, network,
                   taken>>

LoseConnection ==
    /\ conn = "live"
    /\ CloseConn(cur)
    /\ UNCHANGED <<opened, toParse, page, read, up, network, taken>>

\* transportOpened for a GET that says ack = a: of the page, or stale.  The
\* previous transport is closed, which finishes the GET of the page if it
\* was that one.
TransportOpened(a, whose) ==
    LET kept     == Unacked(a)
        numbered == [i \in 1 .. Len(msgQueue) |->
                        [id |-> packetId + i, what |-> msgQueue[i]]]
        last     == packetId + Len(msgQueue)
        first    == IF opened THEN <<>>
                    ELSE <<[id |-> last, what |-> "open"]>>
        frames   == kept \o numbered \o first
    IN
    /\ timer' = "ping"
    /\ lastAckId' = Acked(a)
    /\ unackQueue' = kept \o numbered
    /\ packetId' = last
    /\ msgQueue' = <<>>
    /\ opened' = TRUE
    /\ IF whose = "page"
       THEN WriteTo("page", frames)
       ELSE /\ cur' \in IF frames = <<>> THEN {"stale"}
                        ELSE IF transport = "longpoll" THEN {"none"}
                        ELSE {"none", "stale"}
            /\ FinishCurrent
            /\ UNCHANGED body
    /\ UNCHANGED <<conn, toParse, part, torn, log>>

GetArrives ==
    /\ get = "sent"
    /\ IF conn = "live"
       THEN TransportOpened(ackId, "page")
       ELSE /\ get' = "missing"
            /\ UNCHANGED <<conn, opened, queues, cur, timer, toParse, body,
                           part, torn>>
    /\ UNCHANGED <<page, read, up, network, taken>>

LateGetArrives ==
    /\ \E a \in late :
        /\ late' = late \ {a}
        /\ IF conn = "live"
           THEN TransportOpened(a, "stale")
           ELSE UNCHANGED <<conn, opened, queues, cur, timer, toParse, answer>>
    /\ UNCHANGED <<page, read, up, latePosts, faults, taken>>

\* triggerCloseTimeout: LongPoll ends an answer that stays empty.
EmptyAnswer ==
    /\ transport = "longpoll"
    /\ cur # "none"
    /\ cur' = "none"
    /\ FinishCurrent
    /\ UNCHANGED <<conn, opened, queues, timer, toParse, body, part, torn, page,
                   read, up, network, taken>>

\* connectionAborted: the service notices that a GET was given up.
ConnectionAborted ==
    /\ cur = "stale"
    /\ CloseConn("none")
    /\ UNCHANGED <<opened, toParse, page, read, up, network, taken>>

\* A mutant: the ping does not start the timer for its answer.
SendPingNoTimer ==
    /\ timer = "ping"
    /\ \/ rs \in {"CLOSED", "LEFT"}
       \/ Written < MaxWritten
    /\ timer' = "none"
    /\ SendPacket("ping")
    /\ UNCHANGED <<conn, opened, toParse, page, read, up, network, taken>>

\* A page that is there is sent a bounded number of pings.
SendPing ==
    /\ timer = "ping"
    /\ \/ rs \in {"CLOSED", "LEFT"}
       \/ Written < MaxWritten
    /\ timer' = "timeout"
    /\ SendPacket("ping")
    /\ UNCHANGED <<conn, opened, toParse, page, read, up, network, taken>>

Timeout ==
    /\ timer = "timeout"
    /\ CloseConn(cur)
    /\ UNCHANGED <<opened, toParse, page, read, up, network, taken>>

\* TCPConnectionResource.render of the POST p; parseData is called later.
PostRendered(p) ==
    /\ lastAckId' = Acked(p.ack)
    /\ unackQueue' = Unacked(p.ack)
    /\ timer' = "ping"
    /\ toParse' = Append(toParse, p.frames)
    /\ UNCHANGED <<conn, opened, msgQueue, packetId, log, cur, answer>>

PostArrives ==
    /\ post = "sent"
    /\ IF conn = "live"
       THEN post' = "answered" /\ PostRendered(posted)
       ELSE /\ post' = "refused"
            /\ UNCHANGED <<conn, opened, queues, cur, timer, toParse, answer>>
    /\ UNCHANGED <<page, read, sendQueue, packetCount, posted, retries, network,
                   taken>>

LatePostArrives ==
    /\ \E p \in latePosts :
        /\ latePosts' = latePosts \ {p}
        /\ IF conn = "live" THEN PostRendered(p)
           ELSE UNCHANGED <<conn, opened, queues, cur, timer, toParse, answer>>
    /\ UNCHANGED <<page, read, up, late, faults, taken>>

\* parseData: every frame is handled, whatever its id; the first 'close'
\* closes the connection, and data is handed over even after that.
ParseData ==
    /\ toParse # <<>>
    /\ toParse' = Tail(toParse)
    /\ LET frames == Head(toParse) IN
        /\ taken' = taken \o [i \in DOMAIN frames |-> frames[i].id]
        /\ IF conn = "live" /\ \E i \in DOMAIN frames : frames[i].name = "close"
           THEN CloseConn(cur)
           ELSE UNCHANGED <<conn, queues, cur, timer, answer>>
    /\ UNCHANGED <<opened, page, read, up, network>>

-----------------------------------------------------------------------------
(* The page: what both its requests do *)

\* The page gives up its GET: the service does not know, or the GET has not
\* arrived there and may still do so.
GiveUpGet ==
    /\ cur' = IF cur = "page" THEN "stale" ELSE cur
    /\ late' \in {late} \cup (IF get = "sent" THEN {late \cup {ackId}} ELSE {})
    /\ get' = "none"
    /\ body' = <<>>

\* doClose: the transport is closed, and nothing listens to it any more.
DoClose(state) ==
    /\ rs' = state
    /\ ct' = "closed"
    /\ GiveUpGet
    /\ part' = FALSE
    /\ UNCHANGED <<transport, torn>>

Ongoing == rs \in {"OPENING", "OPEN", "CLOSING"}

\* doSend(0) with what is queued, when nothing is being sent.
DoSend(queue, ack) ==
    /\ sendQueue' = queue
    /\ IF post # "idle" \/ queue = <<>>
       THEN UNCHANGED <<post, posted>>
       ELSE /\ post' = "sent"
            /\ posted' = [ack |-> ack, frames |-> queue]
    /\ UNCHANGED retries

\* A packet of the page is queued, and sent if nothing is being sent.
Push(name, ack) ==
    /\ packetCount' = packetCount + 1
    /\ DoSend(Append(sendQueue, [id |-> packetCount + 1, name |-> name]), ack)

OpenSession ==
    /\ rs = "INITIALIZED"
    /\ rs' = "OPENING"
    /\ post' = "key"
    /\ UNCHANGED <<conn, opened, queues, cur, timer, toParse, answer, transport,
                   ct, read, sendQueue, packetCount, posted, retries, network,
                   taken>>

KeyAnswered ==
    /\ post = "keyback"
    /\ post' = "idle"
    /\ ct' = "open"
    /\ get' = "sent"
    /\ UNCHANGED <<conn, opened, queues, cur, timer, toParse, body, part, torn,
                   transport, rs, read, sendQueue, packetCount, posted, retries,
                   network, taken>>

\* The request for the key fails: a status that throws leaves the session
\* without one.
KeyFails ==
    /\ post \in {"key", "keyback"}
    /\ faults < MaxFaults
    /\ faults' = faults + 1
    /\ \E status \in Statuses :
        IF status = "throws" THEN post' = "stuck" /\ UNCHANGED rs
        ELSE post' = "idle" /\ rs' = "CLOSED"
    /\ UNCHANGED <<conn, opened, queues, cur, timer, toParse, answer, transport,
                   ct, read, sendQueue, packetCount, posted, retries, late,
                   latePosts, taken>>

Send ==
    /\ rs = "OPEN"
    /\ packetCount < MaxPosted
    /\ Push("data", lastPacketId)
    /\ UNCHANGED <<conn, opened, queues, cur, timer, toParse, answer, page, read,
                   network, taken>>

\* close, once the transport is there.
Close ==
    /\ rs \in {"OPENING", "OPEN"}
    /\ ct = "open"
    /\ rs' = "CLOSING"
    /\ Push("close", lastPacketId)
    /\ UNCHANGED <<conn, opened, queues, cur, timer, toParse, answer, transport,
                   ct, read, network, taken>>

\* timedOut: the timer is set from the answer with the key on.
TimedOut ==
    /\ Ongoing
    /\ ct = "open"
    /\ DoClose("CLOSED")
    /\ UNCHANGED <<conn, opened, queues, timer, toParse, read, up, latePosts,
                   faults, taken>>

\* The page goes away, with its requests.
PageLeaves ==
    /\ Ongoing
    /\ DoClose("LEFT")
    /\ latePosts' \in {latePosts}
            \cup (IF post = "sent" THEN {latePosts \cup {posted}} ELSE {})
    /\ post' = "idle"
    /\ sendQueue' = <<>>
    /\ posted' = NoPost
    /\ UNCHANGED <<conn, opened, queues, timer, toParse, read, packetCount,
                   retries, faults, taken>>

-----------------------------------------------------------------------------
(* The page: its GETs *)

\* setTimeout(open, 0) after an answer, or the retry of a failed GET.
GetOpens ==
    /\ ct = "open"
    /\ get = "none"
    /\ get' = "sent"
    /\ UNCHANGED <<conn, opened, queues, cur, timer, toParse, body, part, torn,
                   page, read, up, network, taken>>

\* transportOnReadFrame for frames, in order; 'open' is the last one of its
\* answer.
ReadFrames(frames) ==
    LET n           == Len(frames)
        named(name) == \E i \in 1 .. n : frames[i].what = name
        packets     == IF named("open") THEN n - 1 ELSE n
        last        == IF n = 0 THEN ackId ELSE frames[n].id
        highest     == Larger(lastPacketId, last)
    IN
    /\ ackId' = last
    /\ lastPacketId' = highest
    /\ got' = IF torn THEN got
              ELSE got \o [i \in 1 .. packets |-> frames[i].what]
    /\ rs' = IF named("close") THEN "CLOSED"
             ELSE IF named("open") /\ rs = "OPENING" THEN "OPEN" ELSE rs
    /\ ct' = IF named("close") THEN "closed" ELSE ct
    /\ IF transport = "xhrstream" /\ named("ping") THEN Push("ping", highest)
       ELSE UNCHANGED up

\* LongPoll reads its answer as a whole, and opens the next GET later.
ReadAnswer ==
    /\ transport = "longpoll"
    /\ get = "done"
    /\ ReadFrames(body)
    /\ get' = "none"
    /\ body' = <<>>
    /\ UNCHANGED <<conn, opened, queues, cur, timer, toParse, part, torn,
                   transport, network, taken>>

\* XHRStream reads frame by frame.
ReadFrame ==
    /\ transport = "xhrstream"
    /\ body # <<>>
    /\ part' = FALSE
    /\ ReadFrames(<<Head(body)>>)
    /\ IF Head(body).what = "close" THEN GiveUpGet
       ELSE body' = Tail(body) /\ UNCHANGED <<get, cur, late>>
    /\ UNCHANGED <<conn, opened, queues, timer, toParse, torn, transport,
                   latePosts, faults, taken>>

\* Once torn, XHRStream takes what comes for the rest of the frame it lost,
\* and frames go by that it does not recognise.
MissFrame ==
    /\ torn
    /\ body # <<>>
    /\ body' = Tail(body)
    /\ part' = FALSE
    /\ UNCHANGED <<conn, opened, queues, cur, timer, toParse, get, torn, page,
                   read, up, network, taken>>

\* Frame by frame is not byte by byte.
ReadPart ==
    /\ transport = "xhrstream"
    /\ body # <<>>
    /\ part' = TRUE
    /\ UNCHANGED <<conn, opened, queues, cur, timer, toParse, get, body, torn,
                   page, read, up, network, taken>>

ReadEnd ==
    /\ transport = "xhrstream"
    /\ get = "done"
    /\ body = <<>>
    /\ get' = "none"
    /\ UNCHANGED <<conn, opened, queues, cur, timer, toParse, body, part, torn,
                   page, read, up, network, taken>>

\* The GET or its answer is lost, or no heartbeat comes.  The transport tries
\* again or closes, as the status tells it; XHRStream goes on with the variables
\* of its parser.
GetFails ==
    /\ get \in {"sent", "held", "done"}
    /\ faults < MaxFaults
    /\ faults' = faults + 1
    /\ \E status \in Statuses :
        IF status = "zero"
        THEN DoClose("CLOSED")
        ELSE /\ GiveUpGet
             /\ torn' = (torn \/ part)
             /\ part' = FALSE
             /\ UNCHANGED page
    /\ UNCHANGED <<conn, opened, queues, timer, toParse, read, up, latePosts,
                   taken>>

\* A mutant: a GET that is answered 404 is tried again.
GetMissingRetries ==
    /\ get = "missing"
    /\ get' = "none"
    /\ UNCHANGED <<conn, opened, queues, cur, timer, toParse, body, part, torn,
                   page, read, up, network, taken>>

\* The answer is 404: the connection is gone.
GetMissing ==
    /\ get = "missing"
    /\ DoClose("CLOSED")
    /\ UNCHANGED <<conn, opened, queues, timer, toParse, read, up, latePosts,
                   faults, taken>>

-----------------------------------------------------------------------------
(* The page: its POSTs, which go on after the session is closed *)

\* A mutant: the queue is emptied, with what was queued while the POST ran.
PostAnsweredAll ==
    /\ post = "answered"
    /\ sendQueue' = <<>>
    /\ post' = "idle"
    /\ posted' = NoPost
    /\ retries' = 0
    /\ UNCHANGED <<conn, opened, queues, cur, timer, toParse, answer, page, read,
                   packetCount, network, taken>>

PostAnswered ==
    /\ post = "answered"
    /\ LET rest == Drop(sendQueue, Len(posted.frames)) IN
        /\ sendQueue' = rest
        /\ IF rest = <<>>
           THEN post' = "idle" /\ posted' = NoPost
           ELSE /\ post' = "sent"
                /\ posted' = [ack |-> lastPacketId, frames |-> rest]
    /\ retries' = 0
    /\ UNCHANGED <<conn, opened, queues, cur, timer, toParse, answer, page, read,
                   packetCount, network, taken>>

\* A mutant: what was sent leaves the queue whatever the answer.
PostFailsSpliced ==
    /\ post \in {"sent", "answered"}
    /\ faults < MaxFaults
    /\ faults' = faults + 1
    /\ sendQueue' = Drop(sendQueue, Len(posted.frames))
    /\ post' = "waiting"
    /\ UNCHANGED <<conn, opened, queues, cur, timer, toParse, answer, page, read,
                   packetCount, posted, retries, late, latePosts, taken>>

\* A POST or its answer is lost: it is sent again after a while.  Where the
\* status throws, nothing is sent ever after.
PostFails ==
    /\ post \in {"sent", "answered"}
    /\ faults < MaxFaults
    /\ faults' = faults + 1
    /\ \E status \in Statuses :
        post' = IF status = "throws" THEN "stuck" ELSE "waiting"
    /\ latePosts' \in {latePosts}
            \cup (IF post = "sent" THEN {latePosts \cup {posted}} ELSE {})
    /\ UNCHANGED <<conn, opened, queues, cur, timer, toParse, answer, page, read,
                   sendQueue, packetCount, posted, retries, late, taken>>

\* doSend(retries + 1), with all that is queued by then.
Retry ==
    /\ post \in {"waiting", "refused"}
    /\ IF retries + 1 >= MaxRetries
       THEN /\ DoClose("CLOSED")
            /\ post' = "idle"
            /\ posted' = NoPost
            /\ retries' = 0
       ELSE /\ post' = "sent"
            /\ posted' = [ack |-> lastPacketId, frames |-> sendQueue]
            /\ retries' = retries + 1
            /\ UNCHANGED <<answer, page, cur, late>>
    /\ UNCHANGED <<conn, opened, queues, timer, toParse, read, sendQueue,
                   packetCount, latePosts, faults, taken>>

-----------------------------------------------------------------------------
Service == \/ Create \/ Write \/ LoseConnection \/ GetArrives
           \/ LateGetArrives \/ EmptyAnswer \/ ConnectionAborted \/ SendPing
           \/ Timeout \/ PostArrives \/ LatePostArrives \/ ParseData

Page == \/ OpenSession \/ KeyAnswered \/ KeyFails \/ Send \/ Close \/ TimedOut
        \/ PageLeaves \/ GetOpens \/ ReadAnswer \/ ReadFrame \/ MissFrame
        \/ ReadPart \/ ReadEnd \/ GetFails \/ GetMissing \/ PostAnswered
        \/ PostFails \/ Retry

Next == Service \/ Page

\* What is on its way arrives, what has arrived is handled, and a timer that
\* is set goes off.  Nothing makes a protocol write, a user close, a request
\* fail, a page leave, or a page wait so long for a frame that it times out.
Fairness ==
    /\ WF_vars(Create) /\ WF_vars(KeyAnswered)
    /\ WF_vars(GetOpens) /\ WF_vars(GetArrives) /\ WF_vars(GetMissing)
    /\ WF_vars(ReadAnswer) /\ WF_vars(ReadFrame) /\ WF_vars(ReadEnd)
    /\ WF_vars(PostArrives) /\ WF_vars(PostAnswered) /\ WF_vars(Retry)
    /\ WF_vars(ParseData) /\ WF_vars(SendPing) /\ WF_vars(Timeout)
    /\ WF_vars(ConnectionAborted)

Spec     == Init /\ [][Next]_vars
FairSpec == Spec /\ Fairness

-----------------------------------------------------------------------------
(* Properties *)

\* Every variable has a value of its kind.
TypeOK ==
    /\ conn \in {"none", "live", "closed"}
    /\ opened \in BOOLEAN
    /\ cur \in {"none", "page", "stale"}
    /\ timer \in {"none", "ping", "timeout"}
    /\ msgQueue \in Seq(Packet) /\ unackQueue \in Seq(Frame)
    /\ lastAckId \in Nat /\ packetId \in Nat
    /\ toParse \in Seq(Seq(Upward))
    /\ transport \in {"longpoll", "xhrstream"}
    /\ rs \in {"INITIALIZED", "OPENING", "OPEN", "CLOSING", "CLOSED", "LEFT"}
    /\ ct \in {"none", "open", "closed"}
    /\ get \in {"none", "sent", "held", "done", "missing"}
    /\ body \in Seq(Frame) /\ part \in BOOLEAN /\ torn \in BOOLEAN
    /\ ackId \in Nat /\ lastPacketId \in Nat
    /\ sendQueue \in Seq(Upward) /\ packetCount \in Nat
    /\ post \in {"idle", "key", "keyback", "sent", "answered", "refused",
                 "waiting", "stuck"}
    /\ posted \in Post /\ retries \in Nat
    /\ late \subseteq Nat /\ latePosts \subseteq Post /\ faults \in Nat
    /\ log \in Seq(Packet) /\ got \in Seq(Packet) /\ taken \in Seq(Nat)

\* Whatever was acknowledged, resent or queued, unackQueue holds exactly the
\* packets after lastAckId up to packetId under their ids, and msgQueue those
\* that come after them.
AckWindow ==
    /\ unackQueue = [i \in 1 .. packetId - lastAckId |->
                        [id |-> lastAckId + i, what |-> log[lastAckId + i]]]
    /\ msgQueue = Drop(log, packetId)

\* The service forgets a packet only when the page has read it, although POSTs
\* and GETs that were given up acknowledge late and out of order, and the page
\* never acknowledges what was not sent.
NothingUnreadForgotten ==
    /\ lastAckId <= ackId /\ ackId <= packetId
    /\ \A a \in late : a <= ackId
    /\ \A p \in latePosts \cup {posted} : p.ack <= ackId

\* The page's frames are taken without a gap: duplicates of a POST that was
\* sent again may come, and never a frame before the one it follows.
UpstreamInOrder ==
    \A i \in DOMAIN taken :
        taken[i] = 1 \/ \E j \in 1 .. i - 1 : taken[j] = taken[i] - 1

\* What left the sendQueue of a page that is there has reached the service.
AcknowledgedTaken ==
    rs # "LEFT" =>
        \A id \in 1 .. packetCount - Len(sendQueue) :
            \/ \E i \in DOMAIN taken : taken[i] = id
            \/ \E i \in DOMAIN toParse :
                \E j \in DOMAIN toParse[i] : toParse[i][j].id = id

over == rs \in {"CLOSED", "LEFT"} \/ torn

\* What is sent down is a reliable stream: packets reach the page in order and
\* once, however requests fail and are repeated, until the page is told that
\* the connection is over, or XHRStream reconnects in the middle of a frame.
Stream == INSTANCE ReliableStream WITH Item <- Packet, sent <- log
StreamSpec == Stream!Spec

\* A session that the user closes ends, except that the status of a failed
\* POST throws: then the 'close' is never sent again.
ClosingEnds == rs = "CLOSING" ~> (rs # "CLOSING" \/ post = "stuck")

\* The service ends the connection of a page that is gone or has closed.
OrphanEnds == (conn = "live" /\ rs \in {"CLOSED", "LEFT"}) ~> conn = "closed"
=============================================================================
