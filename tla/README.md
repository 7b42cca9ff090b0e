# Models of backharddi-ng

backharddi-ng backs up and restores the disks of a classroom of computers over
the network. A server offers partitions full of backups; clients boot over the
network, ask the server what to do, send it images or receive them by
multicast, and an operator follows and commands them from a web page. This
directory holds TLA+ models of the server and of the page, the TLC
configurations that check them, and TLAPS proofs about them. All paths below
are relative to `src/` (so `src/backhardding/host.py` is
`src/src/backhardding/host.py` in the repository seen from here).

Contents: 1. the system and its parts; 2. what is hard in it; 3. the modules
and the code; 4. the runs; 5. fairness; 6. proofs; 7. where the code and its
own words disagree; 8. abstractions and what is left out; 9. plan.

## 1. The system and its parts

Everything on the server runs in one process with one Twisted reactor thread
(`backharddi-ng.tac`). A handler runs to its end before the next one starts,
with two exceptions: `UDPSender.start_next` runs in a thread of the reactor's
pool, and external programs (udp-sender, mount, dnsmasq) run on their own. So a
handler is one action of a model; what interleaves is which handler comes next,
the pool's threads, the external processes, and the browsers. The one handler
that a thread can disturb, `request_get_imgs`, is taken step by step.

| Part | Code | State it keeps | Operations | Talks to |
|---|---|---|---|---|
| Client registry and command channel | `src/backhardding/host.py`, `request_*`/`do_*` of `service.py`, the control resource of `monitor.py` | `Host.hosts`, `Host.groups`, `Host.has_messages`, the list sent last; per host its request, 30 s timer, status, group | poll, progress report, timer, orders of the page, group edits, deletion, the periodic list | clients by long poll (XML-RPC over HTTP), the page by HTTP, the live monitor by a call |
| Multicast senders | `src/backhardding/udpsender.py`, `waiting` and `request_get_imgs` of `service.py` | `UDPSender.active`, per sender its port, images left, `serving`, `finish`, process and pipes | join or create a sender, next image, process events, abort | udp-sender processes by pipes, pool threads |
| Live monitor and its page | `LiveMonitor` of `monitor.py`, `html/monitor.js` | STOMP connection; in the browser, `clientStore` and `groupStore` | publish, forward, answer the Ajax request, process a list, reconnect | broker and browsers, by STOMP over comet |
| Uploads | `put_img`, `put_meta` and their protocols in `service.py`; `UDPSenderProtocol` reads images back | listening ports, open parts, positions, the stream kept so far | open a port, receive, lose the connection, unpack | clients by TCP, the file system, the senders through files |
| Backup partitions and service life cycle | `partition.py`, `startService`/`stopService` of `service.py` | mounted or not, mount point | mount, unmount, start, stop | mount and umount processes |
| Boot configuration, DHCP, TFTP | `service.py` | files, dnsmasq processes | written at start | external programs |
| Listing of backups | `service.py`, `monitor.py` | none | read the file system | |
| STOMP broker (morbid, bundled) | `src/morbid/` | state of each connection, destinations, subscribers, queued messages | read a chunk, connect, subscribe, send, lose a client | every STOMP client |
| Comet transport (orbited, bundled) | `src/orbited/`, with `Orbited.js` in the page | in the service: packet ids, unacknowledged packets, the transport, timers; in the page: state of session and transport, queue of frames, the two requests | send, acknowledge, reconnect, resend, close, ping, time out | the page by HTTP, the broker through the proxy |
| STOMP framing (stomper, stompservice, `stomp.js`, bundled) | `src/stomper/`, `src/stompservice/`, `orbited/static/protocols/stomp/` | a byte buffer at the broker, a line buffer and a frame in the page | append, take a message | |
| Rescue media scripts, ext2 bitmap, packaging, boot theme, vendored browser code, previous version | `backharddi-ng-*.sh`, `clone.py`, `ext2_bitmap.c`, `debian/`, `gfxboot/`, `html/`, `old/` | | | |

The messages of the live monitor pass through three of these parts: STOMP frames
cross the streams between `LiveMonitor`, the broker and a page, and the stream
between the broker and a page is carried by a comet session.

How they interact: a client's poll and reports change the registry, and the
registry, every 10 s or at once after an edit, builds the list that the live
monitor publishes and `json_status` returns. The page turns the operator's
clicks into calls that answer the waiting polls. A client told
`backharddi_do` then uploads (`put_img`, `put_meta`) or restores
(`request_get_imgs`), and a restore reads what an upload wrote: only the file
system connects the two, which is why an upload over an image that is being
served is visible to the sender.

What makes each part correct:

- registry: no client waits for ever or without its own timer; an answer
  reaches the computer it is meant for; the page's status, group and list agree
  with the registry; a group's command reaches its members and no one else;
- senders: two senders never share a port while either may use it; clients that
  restore the same backup together share a sender; images go out one after
  another, each only after the one before was sent; a sender leaves the pool;
- live monitor: the page shows what is listed, in one place, whatever was late,
  lost or repeated;
- uploads: the bytes on disk are the bytes that were sent, in order, and a
  sender reads them back; the metadata of one file never lands in another;
  nothing larger than the limit is kept; ports are closed;
- partitions: what was mounted is unmounted, and nothing else;
- broker, transport, framing: each message once to each subscriber, in order,
  across reconnections; nothing to who has left; resources released.

## 2. What is hard in it

`PROJECT.json` lists every hazard at its line. The main families:

- **timers that outlive what they were made for** (`service.py:345`,
  `host.py:30`): a poll's 30 s timer is not cancelled when the client polls
  again or is deleted, and answers whatever its Host object holds by then;
- **loops that raise half way** (`service.py:391`, `host.py:24`, `host.py:43`,
  `service.py:105`, `messagequeue.py:176`): the state changed before the
  exception stays changed, what comes after is skipped;
- **a thread that edits a list the reactor is scanning** (`service.py:323`,
  `udpsender.py:30`);
- **events of one process in any order** (`udpsender.py:119`): the break of
  stdin, the lines of stderr and the end are separate events;
- **late answers** (`monitor.js:228`): a reply of an Ajax request overtaken by
  messages on another connection, or of a service that has been restarted;
- **connections that outlive the upload they belong to** (`service.py:131`):
  ports are never closed and files are removed by name;
- **edges**: a piece that ends exactly at a part's end (`service.py:134`), the
  100th part (`udpsender.py:86`), exactly MAXSIZE bytes (`service.py:79`),
  removing from a store while counting upwards (`monitor.js:203`);
- **requests that are given up but still arrive** (`cometsession.py:377`,
  `cometsession.py:268`): a GET of before acknowledges late and takes the
  transport away from the current one, a POST is handled twice;
- **two queues for one stream** (`cometsession.py:393`): what was written and
  not acknowledged, and what waits for a transport, must join without a gap;
- **streams cut anywhere** (`stompbuffer.py:130`, `morbid.py:36`,
  `stomp.js:74`, `Orbited.js:1386`): each parser keeps the state of a frame
  that it has seen in part.

## 3. The modules and the code

Each component has a specification, an `MC` module that declares the model
values of its configurations, and, where something is proved, a `Proofs`
module. `PROJECT.json` ("map") gives the source lines of every definition.

### HostRegistry

| Variables | Code |
|---|---|
| `req`, `accepted` | each accepted HTTP request: open, connection lost, or the command it was answered with |
| `owner`, `request`, `timers` | the Host object a request was given to; `Host.request` with its deferred; the pending `callLater(30, ...)` |
| `object`, `status`, `group` | `Host.hosts` and two attributes of each registered object |
| `groups`, `hasMessages`, `snapshot` | `Host.groups`, `Host.has_messages`, the class attribute `Host.status` |
| `halfEdited` | history: an edit of a group raised and no list has been built since |

A Host object is named by the request that created it, so that the object of a
deleted address and the one it gets on its return are two. `Poll` is
`request_command` with `addHost`, `deferred_command` and `setStatus`;
`StatusReport` is `request_status` with all it calls (the automatic group, the
end command); `TimerFires` is the callback; `PeriodicStatus` is the loop of
`Service.sendStatus`; `Order` is a loop of `do_command` (`LaunchGroup`,
`PageCommand`, `SyncHosts`); `GroupConfig`, `DelFromGroup` and `DelFromGui` are
the edits. `Returns` tells whether `Host.command` raises on a request, and
`Reached` gives what a loop of commands has done by the time one raises: all
of it, or any part that does not include a member that raises, since the order
of the list is the operator's.

`FinishedRaises` stands for a difference between Twisted versions: writing to a
request that is already finished is ignored up to 10.0 and raises from 10.1 on.
`finish()` on a lost connection raises in both.

`PollChannel` is what this promises to the clients: requests come on lines, only
the last request of a line is held, and it is answered at most once. A line is a
Host object, so the registry implements it with `answer <- req`,
`line <- owner` and `held <- Held` (the requests that are `Host.request` of
their object): `Poll` is `Ask` or `AskAgain`, whatever answers is `Tell`, a
deletion is no step of the channel.

### UdpSenderPool

A sender is a number, in the order of creation, which is the order of the lists
of `UDPSender.active`. `thread` is its `start_next` (queued for the pool; has
taken an image; has forked; has found none left), `child` its udp-sender
process, `stdin` and `stderr` the reactor's ends of its pipes.

`request_get_imgs` goes through a list of senders twice, once in `waiting` and
once, for all backups, in the constructor's comprehension, while pool threads
remove senders from these lists. CPython's list iterator counts positions: when
a member that it has yielded is removed, the one it would have yielded next
moves to a position behind it and is never looked at. So a request is a state of
its own (`step`, `ask`, and the iterators as `list`, `behind`, `todo`): each
member of a list is one step, `JoinSender` or `PassOver` while waiting and
`CollectPort` in the constructor, and `Unset` is a removal at any point between
them. `seen` are the senders whose ports were collected; `NewSender` chooses the
first port that neither they nor the system hold (`FreePort`). `underWaiting`
and `underPorts` are history: which members were removed from behind the
iterator for which new sender.

`Thread*` are the steps of `start_next`. From the fork in `spawnProcess` on, the
process runs and the reactor may read its stderr, although the thread has not
yet begun to feed it (`ThreadFeeds`) nor registered it to be reaped.
`ErrReceived`, `PipeBreaks`, `PartMissing`, `FeedEnds` and `ProcessEnded` are
the reactor's events, between requests. `Child*` is the external udp-sender, as
the code uses it: it binds a port, prints two lines that matter, exits. It also
says that the transfer is complete when all receivers were dropped, which is why
completion and exit code are independent in the model.

### LiveMonitor

`listed` is the list built last, `link` and `sent` the STOMP connection of
`LiveMonitor` to the broker, `page` and `wire` the browser's subscription,
`ajax` its outstanding `json_status` requests, `clients` and `groups` its two
stores. `Update` is `sendStatus` and `LiveMonitor.update`; `Forward` the broker
and the topic; `OnOpen`, `Subscribe`, `OnClose`, `StartStomp`, `OnMessage` and
`OnAnswer` the callbacks of `monitor.js`. `ProcessData` is the function of that
name: `ClientsAfter` and `GroupsAfter` are its first loop with `loadData`,
`Swept` its last loops. Those remove records while counting upwards; `Sweeps`
says, for one order of a store, which of the records to remove really go.

### UploadImg

`PutImg` is `put_img` (it empties the directory of the image and listens on
one more port), `Connect` is `connectionMade` with the first `openFds`,
`ReceiveWithin` and `ReceiveAcross` are the two branches of `dataReceived`, and
`ConnectionLost` removes the spare part by name. A file is an inode and `dir`
maps part numbers to inodes, because connections of an earlier upload go on
writing to files that have lost their names. `Served` is what
`UDPSenderProtocol` will feed to udp-sender. `alone` and `struck` are history
variables that say which uploads had the directory to themselves and which
parts an old connection has removed since; no action reads them to decide
anything.

### UploadMeta

`Receive` is `dataReceived` with its MAXSIZE test, `ConnectionLost` and
`UnpackRaises` are `connectionLost` with `unpack`, which pops pairs from the
end of what was kept. Names, data and separators are two units each, so that a
stream can be cut before, inside and after each of them; what a file gets of its
data may be nothing, a part, the whole, or the whole with a part of the
separator behind it (`Piece`). `DataOf` gives the chunk that becomes the data of
the j-th pair, and `Named` the file that the chunk before it names. That chunk is
a name, or, when the stream ended in or before a name, the data of the file
before; `reads` says of each file what path its text makes, which may be that of
another file of the backup, or one that `open` fails on. Only then does
`unpack` raise.

### ReliableStream and CometSession

`ReliableStream` is abstract: what one side sends is handed over at the other
end in order and once, up to the moment when the receiver is told that the
connection is over. `CometSession` is the session that `Orbited.js` and
`cometsession.py` make of HTTP requests, and implements it for what the service
sends to the page, with `sent <- log` and `got` the packets the page has read;
`over` is true when the session is closed, the page is gone, or `XHRStream` has
reconnected in the middle of a frame (below).

| Variables | Code |
|---|---|
| `conn`, `opened`, `msgQueue`, `unackQueue`, `lastAckId`, `packetId`, `timer` | the attributes of `TCPConnectionResource` |
| `cur` | `cometTransport`: none, of the GET that the page has open, or of one that the page has given up |
| `toParse` | bodies handed to `reactor.callLater(0, self.parseData, ...)` |
| `transport`, `rs`, `ct` | the transport the page's browser chooses, `readyState` of the session and of the transport |
| `get`, `body`, `part`, `torn` | the page's GET, what was written to it and is not read, and how far `XHRStream` is in a frame |
| `ackId`, `lastPacketId` | the ids that the transport and the session have read last |
| `sendQueue`, `packetCount`, `post`, `posted`, `retries` | the page's queue and its other request: for the key, or the POST |
| `late`, `latePosts`, `faults` | requests that were given up and may still arrive |
| `log`, `got`, `taken` | history |

Each request has its arrival, its answer and its failure as actions of their
own: `GetOpens`, `GetArrives`, `ReadAnswer` (long poll) or `ReadFrame`,
`ReadPart`, `ReadEnd` (streaming), `GetFails`, `GetMissing`; `DoSend`,
`PostArrives`, `ParseData`, `PostAnswered`, `PostFails`, `Retry`. A request
that fails may have arrived, may arrive later (`LateGetArrives`,
`LatePostArrives`), or never. The status that the browser shows for a failed
request decides what the page does: `"null"` makes it try again, `"zero"` close
the session, and some browsers throw when it is read.

### StompLinks

`pubWire`, `upWire` and `downWire` are the bytes under way from `LiveMonitor`
to the broker, from the page to the broker, and from the broker to the page; a
byte is a token of a frame. `pubBuffer` and `upBuffer` are `StompBuffer.buffer`
of the broker's two connections, `page` is the state of `LineProtocol` and
`STOMPClient`. `PublisherDataReceived`, `PageDataReceived` and
`TransportOnRead` take a chunk of any length. `Messages` is the loop of
`StompProtocol.dataReceived`; `WithNewlines`, `SyncBuffer` and `MessageLength`
are what it does to the data before; `Lines` and `OnRead` are the two states of
the page's parser. Each of the four loops (`SyncBuffer`, `Messages`, `Lines`,
`OnRead`) is a recursive function over the rounds, whose one round is a
definition of its own (`Stripped`, `OneMessage`, `OneLine`, `OneRead`): it runs
as many rounds as there are tokens, which is enough because a round that does
anything takes at least one. The session below delivers to the page what
`ReliableStream` promises, and both ends of this stream are shown to implement
`ReliableStream` for frames.

## 4. The runs

| Run | Constants | What it shows |
|---|---|---|
| `registry_safety` | 2 hosts, 2 requests, 1 page group + automatic ones, 2 groups in all | `TypeOK`, `OwnRequest`, `WaitingHasTimer`, `StatusTellsRequest`, `GroupMembership`, `NextAutoGroupFree`, `SnapshotCurrent`, `AnswersHeld` (the refinement of `PollChannel`) |
| `registry_liveness` | 1 host, 3 requests | `EveryPollEnds`, `LastingStatusShown` |
| `udp_safety` | 3 senders of at most 1 image, of one backup | `TypeOK`, `ActivePortsDistinct`, `GatherAtOne` |
| `udp_chain` | 2 senders of up to 2 images, 2 backups, a foreign port | `OneProcessPerSender`, `NextAfterSuccess`, `GoodSendersLeave` |
| `live` | 2 hosts, 1 group, 1 late answer | `TypeOK`, `OneStore`, `ListedShown`, `PageConverges` |
| `img_parts` | 3 connections, parts of 2 bytes, 4 bytes each | `TypeOK`, `PartsFit`, `PartsHold`, `ServedAsSent` |
| `meta_packs` | 2 connections, up to 4 files, MAXSIZE = 3 files | `TypeOK`, `NamesHoldTheirOwn`, `WholePackStored` |
| `comet_stream` | both transports, 1 packet down and pings, 1 packet up and `close`, 1 lost request or answer | `TypeOK`, `AckWindow`, `NothingUnreadForgotten`, `UpstreamInOrder`, `AcknowledgedTaken`, `StreamSpec` (the refinement), `ClosingEnds`, `OrphanEnds` |
| `stomp_cuts` | 4 lists, 1 page, chunks of any length | `TypeOK`, `PublishedWhole`, `NothingHeldBack`, `PageFramesHandled`, `BrokerFramesShown` (two refinements) |

Three more runs end in a violation on purpose (section 7): `registry_launch`,
`udp_abort` and `meta_port`.

Why the bounds are enough for the cases that matter:

- *registry*: with two requests a host polls, is superseded or deleted and
  polls again under its old timer, or both hosts wait; two hosts make every
  loop able to fail before and after a member; two groups are one of the page
  and an automatic one, or two automatic ones. All the properties of this run
  are also proved for every bound. The liveness run has a third request, so
  that a timer may answer a request two generations later; the launch run has
  three hosts, so that members come before and after the one that raises.
- *senders*: three senders are the fewest for a removal under a scan to matter
  to a new one: the one removed, the one passed over, the one created. Both
  exceptions are reached: without them TLC finds a shared port and a second
  gathering sender. With one image each the senders also show a port chosen,
  bound and released. Two senders of two images show an abort before the last
  image and a chain of processes; two backups make the constructor go through
  two lists. More senders, lists and removals are covered by the proofs.
- *page*: the sweep passes over records only in pairs, so two hosts suffice; in
  a group or in none, a host moves between the two halves. One list in each
  channel and one late answer are enough because lists are whole states, each
  replacing the one before; what two groups and two statuses add is covered by
  the proofs of `TypeOK`, `OneStore` and `ListedShown`.
- *image*: `SplitSize` 2 with pieces of 1 and 2 meets a part exactly, crosses
  it, and falls short; 4 bytes give a third, empty part and a fourth, spare
  one; `Digits` 2 lies within them, so that an image may need more parts than
  the pattern finds. Three connections: an old one, a current one and one that
  disturbs.
- *metadata*: every cut of a stream of up to three files and of a fourth that
  does not fit: before, inside and after each name, each data and each
  separator; data that read like a file of the backup or like no path; MAXSIZE
  equal to three files, with pieces that stop below, at and above it; a second
  stream that shares files with the first and may send them in another order.

- *comet session*: a fault at every point of a session (a GET before, while and
  after it is held, its answer, the key, a POST before and after it arrives)
  with the options and `ping` packets of the service besides the data, so that
  there are always packets to resend and to join with queued ones. What a
  second fault and longer queues add is covered, for the safety properties, by
  the proofs.
- *STOMP links*: four published frames: one that is taken, one that is lost when
  its newline comes late, and two that are recovered afterwards; the page's
  two frames and the answer in between; every cut of all of them.

Deadlock is checked in `HostRegistry`, where the operator can always act. The
other models stop when a bound is used up (all senders created and finished,
all connections made), so their configurations turn the check off.
Symmetry is used only in runs without liveness: over hosts in
`registry_safety` and over connections in `img_parts` and `meta_packs`; nothing
chooses among these values.

## 5. Fairness

- `HostRegistry`: weak fairness of the timers that are due and of the periodic
  status. The reactor runs its delayed calls; nothing is assumed of clients or
  of the operator. A timer that raises is logged by the reactor and is over.
- `UdpSenderPool`: weak fairness of each sender's thread (the pool runs
  what it is given) and of the request that the reactor handles (handlers end);
  strong fairness of each sender's events, since an event can only be handled
  between requests, but in each round the reactor handles all that are due.
  Nothing is assumed of udp-sender or of clients: `GoodSendersLeave` states as
  its hypothesis that the processes end, said so and exited with 0.
- `LiveMonitor`: weak fairness of `Forward`, `OnMessage` and of the end of an
  Ajax request. That the connections last and that lists go on being published
  (clients report all the time they work) are hypotheses of `PageConverges`.
- `CometSession`: weak fairness of what the reactor and the browser run by
  themselves: requests that are on their way arrive, answers are read, a
  closed answer is followed by the next GET, `parseData` is called, the timers
  of the service go off, a retry is made. Nothing is assumed of the user, of
  the protocol behind the connection, of faults (they may happen or not, and
  `MaxFaults` bounds them), of `ReadPart`, or of the page's own time-out.
- `UploadImg` and `UploadMeta` state no liveness: when a client sends is its
  own affair. Neither does `StompLinks`: that no frame is held back once its
  bytes have arrived is an invariant there (`NothingHeldBack`).

## 6. Proofs

TLAPS proves the following for every value of the constants, from the named
assumptions of the modules only (bounds are naturals; the names that the page
gives to groups differ from automatic ones, because one kind holds ' - ' and
the other never does; a null group is no group; foreign ports are finitely
many; pieces read from a socket are no larger than a part).

**HostRegistryProofs.** `TypeCorrect` and `AutoGroupsFresh` rest on `TypeInv ==
TypeOK /\ GroupsCounted`: the map of groups is finite, holds no more than the
bound, and an automatic name's number is at most the number of groups. The
last part is what makes `'Grupo %d' % (len(groups) + 1)` fresh, and it is only
inductive because groups are never dropped: an emptied group stays.
`RequestsCorrect` rests on `RequestInv == RequestsLinked /\ WaitingHasTimer /\
StatusTellsRequest`. `OwnRequest` alone says nothing of objects that were
deleted but still have timers; `RequestsLinked` says of every request that was
accepted which object owns it, and of every object, registered or not, that its
current request is its own. The steps that answer requests share one lemma
(`TellKeeps`). `MembersListed` and `SnapshotsCurrent` are inductive given
`TypeInv`.

`OwnRequests` and `StatusTells` state two of the three parts by themselves.
`RegistryKeepsPolls` is the refinement of `PollChannel`. It needs the same
invariant: a loop of commands answers `Current(h)` of each host it reaches and a
timer answers the request of its own object, and `RequestsLinked` says that both
are held (`ChannelReached`, `ChannelTimer`), that a poll of a registered address
replaces exactly the request that was held, and that the line of a new one is
unused (`ChannelAsks`).

**UdpSenderPoolProofs.** `TypeCorrect` needs that the constructor always finds
a port: fewer are taken than there are, by counting (`FreePort` is a CHOOSE).
`OneAtATime` and `NextOnlyAfterSuccess` rest on `ChainInv == TypeOK /\ Unborn
/\ ThreadAlone /\ FinishIsOwn`: a sender that has not been created has no
thread or process; a thread that has not forked and a process exclude each
other, and one that has forked has a process that is not reaped before it is
done; and `finish`, or a 'Transfer complete.' not read yet, always comes from
the process that is now there, which is what makes the end of a process ask for
the next image rightly. The last one holds because `start_next` clears `finish`
and a process is reaped only when its pipes are empty.
`GatheredAtOne` and `PortsOfTheirOwn` are about a request that is half way
through a list, so the invariant `PoolInv` says what such a request knows.
`Iterator`: what the iterator has behind it is a beginning of the list as it
now is. `History`: only members that have left the pool stand in the histories,
and of the next sender to be made only those of this request. `RequestExcused`:
of the members behind the iterator, those that gather (or, in the constructor,
whose ports were not collected) are no more than the members that were removed
from behind it, and before each of them stood one of those. A removal ahead of
the iterator takes nothing away (`UnsetAhead`); one from behind it moves at most
one more member behind, and the removed one stood before that (`UnsetBehind`,
with `ExcusedMore` for the count). `NewStep` turns this into what the
properties say of the new sender; `FreePortFound` gives that its port is none of
those collected.

**LiveMonitorProofs.** `TypeCorrect`, `NeverInBoth` and `ListsAreShown`. Both
stores are built from the same list, whose two halves are disjoint, and the
sweep removes only hosts that are not in it (`SweptStore`), whatever it passes
over.

**UploadImgProofs.** `TypeCorrect` and `PartsNeverOutgrow` rest on `ImgInv ==
TypeOK /\ PartsFit /\ OpenHasFiles /\ UnusedIsFresh`: an open connection has
two files; the number of a part follows from the bytes received; an unused
connection has done nothing yet.
`PartsHoldWhatWasSent` adds `AloneInv == OneAlone /\ UnusedNoTrace /\
AloneOwns`. Only one connection is alone at a time; nothing refers to a file
of a connection that has not been made, which is what makes the files of a new
upload its own and empty; and a connection that is alone owns all its parts
(`OwnParts`) and its spare one (`OwnSpare`), with `got = (splitcount - 1) *
SPLITSIZE + size`, so that a piece that fills a part ends exactly where the
next one starts (`AppendBytes`).
`UploadsServedAsSent` follows from `PartsHold` in every state: by induction over
the parts (`ServedWhole`), what `UDPSenderProtocol` has read after k of them is
the upload up to where part k + 1 starts.

**UploadMetaProofs.** `TypeCorrect`, `NamesKeepTheirOwn` and
`WholePacksStored` rest on `MetaInv == TypeOK /\ KeptOfSent /\ WrittenByLost
/\ NamesHoldTheirOwn`: no more is kept than was sent, and only a stream larger
than MAXSIZE is refused; what is in a file comes from a connection that has
ended, so that the chunks it was made of no longer change. All pairs of one
stream begin at chunks of the same parity (`ChunksBound`). Either that of the
names: then each file gets its own data, and only the last chunk can be
anything but whole (`PieceTyped`). Or that of the data: then a file can only be
written because data read like its path, and gets the name that follows them.
For a whole stream the pairs are its files from the last to the first, and no
two of them share a name (`WholeUnpacked`); all its paths open, so that `unpack`
cannot raise and the port is closed (`WholeOpens`).

**CometSessionProofs.** `Invariance` proves `IInv == TypeOK /\ Control /\
Queues /\ Acks /\ Body /\ GotRead`, from which the four other theorems follow.
None of the properties is inductive alone: that an acknowledgement never covers
an unread packet needs that no request under way, given up or queued for a
retry carries an id that the page has not read (`Acks`); that the page reads
every packet once needs what is in the body of the page's GET at each moment,
which the two transports fill differently. `Body` says it: frames of the body
have consecutive ids; over `XHRStream` they begin with the one after `ackId`
unless something was torn (`StreamBody`); over `LongPoll` the body is empty
until it is answered, and is then written all at once (`PollBody`). `Queues`
is the window itself: `unackQueue` holds the packets between `lastAckId` and
`packetId`, `msgQueue` those after. `ReliablyDelivered` is the refinement: a
step that appends to `log` is `Send` of `ReliableStream`; one that reads frames
is `Deliver`, by `GotRead` (what the page has read is the beginning of `log`
up to `ackId`); one that closes, leaves or tears is `End`; every other stutters.

**CometUpstreamProofs.** The stream up, on top of `Invariance`. A POST that is
sent again carries more than before, one that was given up may arrive after
newer ones, and bodies wait for `parseData`, so `UpstreamInOrder` alone says
too little. `Upstream` says what each place may hold: every frame of a body
that waits comes after one that is taken or waits before it (`Waiting`); every
frame of a POST that is under way or given up comes after one that has arrived
or after the one before it in the POST (`OnTheWay`), which stays true because
what has arrived only grows; and while the page is there its queue ends with
the last packet made, has only arrived frames before it, and begins with what
is posted (`Queued`). An answer then removes from the queue only what has
arrived. `FramesTakenInOrder` and `QueueLeavesLast` follow.

**StompLinksProofs.** Each stream has an invariant of the same form: what its
receiver keeps, followed by what has not arrived, is what is left of the frames
that it has not handed over. How exactly "what is left" reads is the point.

- From the page to the broker (`UpInv`): the kept tokens and the wire are whole
  frames, and what is kept is shorter than a frame. `UpRound` says that one
  round of the broker's loop keeps this and takes a whole frame when there is
  one: the newline that `replace('\0', '\0\n')` puts behind each NUL is the
  end that `_findMessageBytes` looks for, and `syncBuffer` finds nothing to do.
- From `LiveMonitor` (`PubInv`): these frames bring a newline of their own, and
  a cut between NUL and newline puts the broker out of step. `Held` names the
  only two ways it can be: in step (`InStep`), or inside a frame that it will
  never take (`OutOfStep`), of which it keeps nothing or one token. While it is
  out of step whole rounds of `syncBuffer` matter: `NewlineCleared`,
  `LineCleared` and `NulCleared` say what they remove, `DroppedStep` and
  `OutReceived` that a chunk leaves the broker in one of the two ways again and
  that it takes nothing from it that is not a whole frame. `Taken` then gives
  the order: the frames taken are among those published before the one at hand.
- From the broker to the page (`DownInv`): `Expects` names the five places
  of a frame at which the page may be (between frames, before the newline behind
  one, and behind the command, the header and the empty line), with the type that
  it then has. `LineRound` moves between the first four, `ReadRound` through the
  body; `ReadResult` puts the rounds of one chunk together.

`PageFramesReliable` and `BrokerFramesReliable` are the refinements: an action
that sends is `Send` of `ReliableStream`, one that takes a chunk is `Deliver`, or
a stutter when it completes no frame. `NoneHeldBack` follows from `UpInv` and
`DownInv`, since what is kept when the wire is empty is too short for a frame and
none of the other places can be reached without more of the frame to come;
`TypeInvariance` from all three. The first part of the module gives the tools:
induction over numbers as a lemma about sets (`NatInSet`), that a loop written
as a recursive function exists and ends in a state that each round preserves
(`LoopExists`, `LoopResult`, `LoopEnds`, `LinesEnd`, `OnReadEnd`), that
`FlattenSeq` is concatenation (`FlatUnique`, `FlatConcat`), and `JoinIs`, which
says that a sequence is two others put together.

What stays with TLC: every liveness property (`EveryPollEnds`,
`LastingStatusShown`, `GoodSendersLeave`, `PageConverges`, `ClosingEnds`,
`OrphanEnds`), which the prover cannot do, and the three violations of section
7. Every safety property and every refinement that a passing run checks is
proved. Induction over data is possible here only in the form of `NatInSet`, by a set of
numbers instead of a predicate; the library's induction theorems take an
operator that no installed prover can instantiate.

## 7. Where the code and its own words disagree

Each of these is a run of its own that TLC ends with a counterexample; the
quotations are in `PROJECT.json` ("findings").

- `registry_launch`, `LaunchReachesTheRest`: a launch stops at a member whose
  connection was lost; the changelog says that the rest go on.
- `udp_abort`, `NoFileAfterAbort`: after an aborted transfer the next file is
  served if 'Transfer complete.' is read after the abort.
- `meta_port`, `PortClosesAtEnd`: when a stream ends in or before a name, `unpack`
  takes the data before it for a path; when that cannot be opened it raises, and
  the port stays open.

The models contain more behaviours that a reader should know of, about
which the repository promises nothing:

- a sender whose transfer was aborted is no longer among the active ones, so a
  newer sender may be given the port of its next process
  (`ActivePortsDistinct` speaks of active senders only);
- of two hosts that leave the list together one stays on the page until the
  next list comes. `PageConverges` says what is left of this: the record that
  was passed over goes when lists keep coming, because each pass removes at
  least one;
- with both boxes of a group ticked, its members reboot and never power off:
  `do_reboot` answers the request before `do_shutdown` finds it
  (`service.py:404`, `LastWord` of `HostRegistry`);
- when the newline that ends a frame arrives in a later chunk than its NUL, the
  broker takes it for corruption and drops every frame of the chunk that it
  starts (`morbid.py:36`, `SyncBuffer` of `StompLinks`), so a list may be lost
  although nothing failed; `PublishedWhole` says that what is left is still
  whole and in order, and frames of a page end without that newline and are
  never lost;
- a session whose frame `open` was written to an answer that is lost stays
  `OPENING` while it reads data (`cometsession.py:324`); the page sends nothing
  on it;
- a POST that was handled before it failed is sent again, and its frames are
  handled twice (`cometsession.py:268`): `UpstreamInOrder` allows repetitions
  and forbids gaps;
- `XHRStream` keeps its place in a frame when it reconnects (`Orbited.js:1386`)
  and reads nothing right after that; the promise of `StreamSpec` ends there;
- a sender that a thread takes out of its list while a request goes through it
  makes the request miss the sender behind it (`service.py:323`,
  `udpsender.py:30`): a second sender gathers for the same clients, or a new one
  is given the port of the one missed if no process has bound that yet.
  `GatherAtOne` and `ActivePortsDistinct` say what it can cost and that nothing
  else does;
- a stream of metadata that ends in a separator leaves a part of it in its last
  file; one that ends in or before a name writes names into files, those whose
  paths are what the data of the others read like (`service.py:93-105`,
  `NamesHoldTheirOwn`);
- the 100th part of an image and those after it are not served
  (`udpsender.py:86`), and a connection of an earlier upload creates and removes
  parts of the new one by name (`service.py:131`): `ServedAsSent` and
  `PartsHold` except them;
- where the browser throws on the status of a failed POST, nothing is sent up
  ever after (`Orbited.js:736`), and `ClosingEnds` claims nothing of such a
  session;
- a host that moved to another group is shown in the old one for as long as its
  record lasts, so `ListedShown` and `PageConverges` deliberately say nothing of
  which group is shown.

## 8. Abstractions and what is left out

- Registry: the text a client sends (`msg`) is left out, as is `do_ssh`, which
  opens a terminal on the server. A client reports no status called
  "Conectado" or "Desconectado". Lists are sets where only membership matters.
  Timers with the same delay fire in the order they were set. The page's
  buttons are enumerated over every set of hosts.
- Senders: `requests`, `participants`, `minclients` and `maxwait` are logged or
  passed on and nothing branches on them. A line of stderr arrives whole. Port
  `i` is `PORTBASE + 2 * i`.
- Live monitor: one page, since pages share only the topic. What the registry
  publishes is any list. A restart closes all connections at once. The order
  of a store is any order (one of them reverses with each sort). Drag and
  drop, menus and forms are left out.
- Image upload: one image, since each has a directory of its own. Creating and
  writing files succeeds. `SPLITSIZE` and the 100 part numbers are parameters.
  A byte is its connection and position, so that a byte out of place shows.
- Metadata upload: a name, data and a separator are two units each. A client
  names each file once in a stream, and no name or data holds a separator. Its
  names lead to files that can be opened; a full disk and other errors of the
  file system are left out. Which number a port has does not matter: the range of ports and its
  exhaustion are not modelled yet.
- Comet session: one session, and packets without contents. The clock is left
  out: a timer that is set may go off at any time, whatever else happens. What
  `XHRStream` makes of bytes once it is torn is any of missing a frame or
  reading it. A page that leaves while it asks for its key takes
  that request with it; `close` before there is a transport, `reset`, the transports for other
  browsers (`sse`, `htmlfile`) and the page's own limit on the length of a URL
  are left out.
- STOMP links: `LiveMonitor`'s own CONNECT is taken as done, one page is enough
  since pages share only the topic, and no connection is lost (`LiveMonitor`
  has the loss and the reconnection). No frame of this deployment has a
  content-length, so that branch of both parsers is left out. That frames
  eventually arrive is not checked: it would only say that chunks do.

Not modelled, and why:

- partitions and the life cycle of the service: each mount has one outcome that
  a single function decides; the one interleaving there is ends with the
  process. Two hazards of it are listed;
- the proxy of orbited and the handshake of `TCPSocket`: one outgoing connection
  and a handful of states; `CometSession` and `StompLinks` have both sides of
  it. One hazard of it is listed;
- queues, pubsub, the rest queue and rights of morbid: no part of backharddi-ng
  uses them; the page and `LiveMonitor` share one topic;
- menus, forms and drag and drop of the page: they keep nothing that outlives a
  click, and what they send are the operator's actions of `HostRegistry`;
- boot configuration and DHCP/TFTP (files written once, external programs), the
  listing of backups (stateless reads), the wiring, packaging, the boot theme,
  the ext2 bitmap tool (one pass over an external library), the rescue scripts
  and the previous version;
- vendored browser code: ExtJS with its adapters, jQuery, log4js and the demos
  of orbited. It is nearly all of the JavaScript of the repository by size, and
  none of it is this program's, which is why the share of the JavaScript that
  the models stand for is small although `monitor.js` and the transports of
  `Orbited.js` that the page uses are covered.

## 9. Plan

Done: `HostRegistry` with `PollChannel`, `UdpSenderPool`, `LiveMonitor`,
`UploadImg` and `UploadMeta` with their proofs; `ReliableStream` and `CometSession` with the
refinement, its proof and those of the stream up; `StompLinks` with its three
invariants and two refinements.

What would add most from here:

1. `UploadPorts`: the ports 8000 to 8998 shared by both uploads, and their
   exhaustion.
2. `ControlWeb`: composes `HostRegistry` and `LiveMonitor`, so that what the
   operator clicks on is what an earlier list showed.
3. `Proxy`: the outgoing connection of a session and its closing.
