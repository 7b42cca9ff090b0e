---------------------------- MODULE StompLinks ----------------------------
(***************************************************************************)
(* The STOMP frames between LiveMonitor, the broker and one page: the byte *)
(* streams that carry them arrive in chunks that may be cut anywhere, and  *)
(* each end recovers the frames in its own way: morbid with StompBuffer,   *)
(* after it has put a newline behind every NUL; the page with LineProtocol *)
(* and STOMPClient.                                                        *)
(*                                                                         *)
(* A stream is a sequence of tokens: the command of a frame, a header, a   *)
(* body, the NUL at its end and the newlines.  Frames that the page sends  *)
(* end with the NUL, those of stomper with a newline after it.  Connections *)
(* that are lost are LiveMonitor's and CometSession's business, and no     *)
(* frame of this deployment has a content-length.                          *)
(***************************************************************************)
EXTENDS Naturals, Sequences, SequencesExt

CONSTANT MaxPublished   \* bound: lists that the service publishes

ASSUME PublishedAssumption == MaxPublished \in Nat

Kind  == {"CONNECT", "CONNECTED", "SUBSCRIBE", "SEND", "MESSAGE"}
Frame == [kind : Kind, no : Nat]

\* What a broken parser takes for a frame.
Garbled == [kind |-> "garbled", no |-> 0]

VARIABLES
    pubWire,    \* sent by LiveMonitor and not arrived at the broker
    pubBuffer,  \* StompBuffer.buffer of LiveMonitor's connection
    upWire,     \* sent by the page and not arrived at the broker
    upBuffer,   \* StompBuffer.buffer of the page's connection
    downWire,   \* sent by the broker and not arrived at the page
    page,       \* LineProtocol and STOMPClient
    state,      \* StompProtocol.state of the page's connection
    subscribed, \* the page's connection is among the subscribers
    \* history: the frames sent, and those that were handled
    published, accepted, asked, served, answered, shown

pub     == <<pubWire, pubBuffer, published, accepted>>
up      == <<upWire, upBuffer, asked, served>>
down    == <<downWire, page, answered, shown>>
vars    == <<pub, up, down, state, subscribed>>

-----------------------------------------------------------------------------
(* Frames as they are sent *)

Token(f, t) == [of |-> f, is |-> t]
Newline(f)  == Token(f, "newline")

\* What sendFrame of the page sends for a frame.
Bare(f) ==
    <<Token(f, "command"), Newline(f), Token(f, "header"), Newline(f),
      Newline(f), Token(f, "body"), Token(f, "nul")>>

\* Frame.pack: a newline follows.
Pack(f) == Append(Bare(f), Newline(f))

Is(tokens, i, t) == i \in DOMAIN tokens /\ tokens[i].is = t

\* The first place where the tokens a and b stand side by side, or 0.
Index(tokens, a, b) ==
    LET places == {i \in DOMAIN tokens : Is(tokens, i, a) /\ Is(tokens, i + 1, b)}
    IN IF places = {} THEN 0
       ELSE CHOOSE i \in places : \A j \in places : i <= j

\* The first place of the token t, or 0.
Find(tokens, t) ==
    LET places == {i \in DOMAIN tokens : tokens[i].is = t}
    IN IF places = {} THEN 0
       ELSE CHOOSE i \in places : \A j \in places : i <= j

First(tokens, n) == SubSeq(tokens, 1, n)
Drop(tokens, n)  == SubSeq(tokens, n + 1, Len(tokens))

-----------------------------------------------------------------------------
(* The broker: StompBuffer and StompProtocol.dataReceived *)

\* data.replace('\0', '\0\n')
Doubled(token) ==
    IF token.is = "nul" THEN <<token, Newline(token.of)>> ELSE <<token>>
WithNewlines(data) == FlattenSeq([i \in DOMAIN data |-> Doubled(data[i])])

\* A mutant: a buffer that starts with bunk is left alone.
SyncNothing(buffer) == buffer

\* syncBuffer: a buffer that does not start with a command is stripped up to
\* the first NUL and newline when both are on its first line, and is cleared
\* otherwise.
Stripped(buffer) ==
    LET eol == Find(buffer, "newline") IN
    IF eol = 0 \/ (eol = 2 /\ Is(buffer, 1, "command")) THEN buffer
    ELSE IF Is(buffer, eol - 1, "nul") THEN Drop(buffer, eol)
    ELSE <<>>

\* The loop: a round that changes the buffer makes it shorter.
SyncBuffer(buffer) ==
    LET loop[k \in 0 .. Len(buffer)] ==
            IF k = 0 THEN buffer ELSE Stripped(loop[k - 1])
    IN  loop[Len(buffer)]

\* A mutant: the footer is taken for one byte.
MessageLengthShort(data) ==
    IF Index(data, "newline", "newline") = 0 THEN 0
    ELSE Index(data, "nul", "newline")

\* _findMessageBytes looks at the data it was given, which is the buffer of
\* before syncBuffer.
MessageLength(data) ==
    LET footer == Index(data, "nul", "newline") IN
    IF Index(data, "newline", "newline") = 0 \/ footer = 0 THEN 0
    ELSE footer + 1

\* The frame that a message is.
Decoded(msgdata) ==
    LET f == Head(msgdata).of IN
    IF msgdata = Pack(f) THEN f ELSE Garbled

\* One round of the loop of dataReceived.  An empty message ends it, and the
\* optional newline is removed when it is there.
OneMessage(s) ==
    LET buffer == SyncBuffer(s.buffer)
        length == MessageLength(s.buffer)
        taken  == First(buffer, IF length < Len(buffer) THEN length ELSE Len(buffer))
        left   == Drop(buffer, Len(taken))
    IN IF s.over THEN s
       ELSE [frames |-> IF taken = <<>> THEN s.frames ELSE Append(s.frames, Decoded(taken)),
             buffer |-> IF Is(left, 1, "newline") THEN Tail(left) ELSE left,
             over   |-> taken = <<>>]

\* The loop: the frames that are handled and what is left in the buffer.  A
\* round that does not end it makes the buffer shorter.
Messages(data) ==
    LET loop[k \in 0 .. Len(data) + 1] ==
            IF k = 0 THEN [frames |-> <<>>, buffer |-> data, over |-> FALSE]
            ELSE OneMessage(loop[k - 1])
    IN  loop[Len(data) + 1]

Received(buffer, chunk) == Messages(buffer \o WithNewlines(chunk))

-----------------------------------------------------------------------------
(* The page: LineProtocol and STOMPClient *)

\* A mutant: an empty line before the type ends the headers too.
LineReceivedStrict(s, line) ==
    IF line = <<>> THEN [s EXCEPT !.raw = TRUE]
    ELSE IF s.type = <<>> THEN [s EXCEPT !.type = line, !.body = <<>>]
    ELSE s

\* protocol_onLineReceived
LineReceived(s, line) ==
    IF line = <<>> THEN [s EXCEPT !.raw = (s.type # <<>>)]
    ELSE IF s.type = <<>> THEN [s EXCEPT !.type = line, !.body = <<>>]
    ELSE s

\* One round of the loop over the lines of the buffer.
OneLine(s) ==
    LET eol == Find(s.buffer, "newline") IN
    IF s.raw \/ eol = 0 THEN s
    ELSE LineReceived([s EXCEPT !.buffer = Drop(s.buffer, eol)],
                      First(s.buffer, eol - 1))

\* A mutant: only one line is taken.
LinesOnce(s) == OneLine(s)

\* The loop: a round that changes the state makes the buffer shorter.
Lines(s) ==
    LET loop[k \in 0 .. Len(s.buffer)] == IF k = 0 THEN s ELSE OneLine(loop[k - 1])
    IN  loop[Len(s.buffer)]

\* The frame that is dispatched.
Dispatched(type, body) ==
    IF type # <<>> /\ type[1].is = "command"
                  /\ body = <<Token(type[1].of, "body")>>
    THEN type[1].of ELSE Garbled

\* onread, onrawdatareceived and doDispatch, for the data s.extra; what is left
\* over goes to onread again.
OneRead(s) ==
    LET t    == IF s.raw THEN s ELSE Lines([s EXCEPT !.buffer = s.buffer \o s.extra])
        body == t.body \o (IF s.raw THEN s.extra ELSE t.buffer)
        nul  == Find(body, "nul")
    IN IF s.extra = <<>> THEN s
       ELSE IF ~t.raw THEN [t EXCEPT !.extra = <<>>]
       ELSE IF nul = 0 THEN [t EXCEPT !.buffer = <<>>, !.body = body, !.extra = <<>>]
       ELSE [t EXCEPT !.raw = FALSE, !.buffer = <<>>, !.type = <<>>, !.body = <<>>,
                      !.frames = Append(t.frames,
                                    Dispatched(t.type, First(body, nul - 1))),
                      !.extra = Drop(body, nul)]

\* A mutant: what is left over is dropped.
OnReadLast(s) == OneRead(s)

\* Every round but the last takes the NUL of a frame.
OnRead(s) ==
    LET loop[k \in 0 .. Len(s.extra)] == IF k = 0 THEN s ELSE OneRead(loop[k - 1])
    IN  loop[Len(s.extra)]

-----------------------------------------------------------------------------
(* The three streams *)

Init ==
    /\ pubWire = <<>> /\ pubBuffer = <<>> /\ published = <<>> /\ accepted = <<>>
    /\ upWire = <<>> /\ upBuffer = <<>> /\ asked = <<>> /\ served = <<>>
    /\ downWire = <<>> /\ answered = <<>> /\ shown = <<>>
    /\ page = [raw |-> FALSE, buffer |-> <<>>, type |-> <<>>, body |-> <<>>]
    /\ state = "initial"
    /\ subscribed = FALSE

\* onopen of the page.
OnOpen ==
    /\ asked = <<>>
    /\ LET connect == [kind |-> "CONNECT", no |-> 0] IN
        /\ asked' = <<connect>>
        /\ upWire' = Bare(connect)
    /\ UNCHANGED <<pub, upBuffer, served, down, state, subscribed>>

\* LiveMonitor.update
Publish ==
    /\ Len(published) < MaxPublished
    /\ LET f == [kind |-> "SEND", no |-> Len(published) + 1] IN
        /\ published' = Append(published, f)
        /\ pubWire' = pubWire \o Pack(f)
    /\ UNCHANGED <<pubBuffer, accepted, up, down, state, subscribed>>

\* frame_send for each of the frames: the topic passes it to its subscriber.
Forwarded(frames) ==
    IF ~subscribed THEN <<>>
    ELSE [i \in DOMAIN frames |-> [kind |-> "MESSAGE", no |-> frames[i].no]]

Packed(frames) == FlattenSeq([i \in DOMAIN frames |-> Pack(frames[i])])

\* A chunk of LiveMonitor's arrives at the broker.
PublisherDataReceived ==
    /\ \E n \in 1 .. Len(pubWire) :
        LET got == Received(pubBuffer, First(pubWire, n)) IN
        /\ pubWire' = Drop(pubWire, n)
        /\ pubBuffer' = got.buffer
        /\ accepted' = accepted \o got.frames
        /\ answered' = answered \o Forwarded(got.frames)
        /\ downWire' = downWire \o Packed(Forwarded(got.frames))
    /\ UNCHANGED <<published, up, page, shown, state, subscribed>>

\* A chunk of the page's arrives.  read_initial answers CONNECT, and
\* read_connected lets SUBSCRIBE subscribe.
PageDataReceived ==
    /\ \E n \in 1 .. Len(upWire) :
        LET got      == Received(upBuffer, First(upWire, n))
            handled(kind) == \E i \in DOMAIN got.frames : got.frames[i].kind = kind
            connected == [kind |-> "CONNECTED", no |-> 0]
        IN
        /\ upWire' = Drop(upWire, n)
        /\ upBuffer' = got.buffer
        /\ served' = served \o got.frames
        /\ IF state = "initial" /\ handled("CONNECT")
           THEN /\ state' = "connected"
                /\ answered' = Append(answered, connected)
                /\ downWire' = downWire \o Pack(connected)
           ELSE UNCHANGED <<state, answered, downWire>>
        /\ subscribed' = (subscribed \/ (state = "connected" /\ handled("SUBSCRIBE")))
    /\ UNCHANGED <<pub, asked, page, shown>>

\* A chunk arrives at the page, which subscribes when it is told that it is
\* connected.
TransportOnRead ==
    /\ \E n \in 1 .. Len(downWire) :
        LET after == OnRead([raw |-> page.raw, buffer |-> page.buffer,
                             type |-> page.type, body |-> page.body,
                             frames |-> <<>>, extra |-> First(downWire, n)])
            subscribe == [kind |-> "SUBSCRIBE", no |-> 0]
        IN
        /\ downWire' = Drop(downWire, n)
        /\ page' = [raw |-> after.raw, buffer |-> after.buffer,
                    type |-> after.type, body |-> after.body]
        /\ shown' = shown \o after.frames
        /\ IF \E i \in DOMAIN after.frames : after.frames[i].kind = "CONNECTED"
           THEN /\ asked' = Append(asked, subscribe)
                /\ upWire' = upWire \o Bare(subscribe)
           ELSE UNCHANGED <<asked, upWire>>
    /\ UNCHANGED <<pub, upBuffer, served, answered, state, subscribed>>

Next == \/ OnOpen \/ Publish \/ PublisherDataReceived \/ PageDataReceived
        \/ TransportOnRead

Spec == Init /\ [][Next]_vars

-----------------------------------------------------------------------------
(* Properties *)

\* Streams and buffers hold tokens of frames, and the parsers are in a state
\* of theirs.
TypeOK ==
    /\ \A s \in {pubWire, pubBuffer, upWire, upBuffer, downWire, page.buffer,
                 page.type, page.body} :
        \A i \in DOMAIN s :
            /\ s[i].of \in Frame
            /\ s[i].is \in {"command", "header", "body", "nul", "newline"}
    /\ page.raw \in BOOLEAN
    /\ page.raw => page.type # <<>>
    /\ ~page.raw => Find(page.buffer, "newline") = 0
    /\ state \in {"initial", "connected"}
    /\ subscribed \in BOOLEAN

\* However the stream is cut, the broker handles every frame of the page once
\* and in order.
PageFrames == INSTANCE ReliableStream
                WITH Item <- Frame, sent <- asked, got <- served, over <- FALSE
PageFramesHandled == PageFrames!Spec

\* So does the page with the frames of the broker.
BrokerFrames == INSTANCE ReliableStream
                WITH Item <- Frame, sent <- answered, got <- shown, over <- FALSE
BrokerFramesShown == BrokerFrames!Spec

\* What the broker takes from LiveMonitor's stream are frames that were
\* published, whole, in order and once, even when it has lost some.
PublishedWhole ==
    /\ \A i \in DOMAIN accepted : \E k \in DOMAIN published : accepted[i] = published[k]
    /\ \A i, j \in DOMAIN accepted : i < j => accepted[i].no < accepted[j].no

\* No frame waits for bytes that are not part of it: once its last byte has
\* arrived it has been handled.
NothingHeldBack ==
    /\ upWire = <<>> => served = asked
    /\ downWire = <<>> => shown = answered
=============================================================================
