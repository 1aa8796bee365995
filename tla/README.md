# EyPS: specifications, model checking and proofs

EyPS is a game server in C++20: an HTTP(S) front where a client logs in and asks
for the game server's address, and a UDP game server that speaks KCP (a reliable
ARQ protocol over UDP) with encrypted protobuf packets. This directory models its
stateful parts in TLA+, checks them with TLC and proves the safety
properties with TLAPS.

Modules are named for the component they model; definitions keep the names of the
code. `PROJECT.json` maps each definition to its source lines and lists the runs,
the hazards each property is for, and the theorems.

## 1. Inventory

| component | state | operations | shared with |
|---|---|---|---|
| game session (`game/Kcp.cpp`, one `Kcp` per client) | `_State`, `lastPacketTime`, `_ShouldUseMt`, `mt_key`, `packet_queue`, `sessionState`, the `ikcpcb` | `Input`, `Recv`, `Send`, `Background`, `PacketQueueHandler` | three threads: the io thread of the game server, the session's background and handler threads |
| packet handlers (`game/packet`) | none of their own | `HandlePingReq`, `HandlePlayerTokenReq`, `HandlePlayLoginReq` | run on the handler thread, write the session's keys and state |
| game server (`game/GameServer.cpp`) | `g_Clients`, the UDP socket, the receive coroutine | `AsyncRec`, `ParsePacket`, handshake | creates sessions; sessions reply through its socket |
| KCP (`external/kcp/ikcp.c`) | send and receive queues and buffers, acknowledgements, windows, clocks | `ikcp_input`, `send`, `recv`, `flush`, `update`, `check` | one `ikcpcb` per session, used by all three threads |
| accounts (`database`, `http/auth`) | collections `account` and `counters` | login, verify, v2/login | MongoDB; outlives the process |
| HTTP sessions (`http/*session*`, `HttpServer`) | acceptor, one stream and buffer per connection, 30 s expiry | accept, detect, handshake, read, write, close | request handlers, accounts |
| request handlers (`HttpHandleReq.h`, `GenericHandler.h`, `LoginHandler.h`) | none | target to response | accounts |
| io service pool, main (`pool`, `main.cpp`) | one `io_context` and thread per core | `getIOService`, `stop` | HTTP gets the first context, UDP the second |
| codec (`BasePacket`, `bufferView`, `dynamicBuffer`, `Xor`) | `_recvBuf`, used for every message; buffers `Xor` allocates; views into them | encode, decode | io thread writes, handler thread reads |
| configuration (`util/psConfig.cpp`) | a Lua stack, the values read | `loadKeys`, `loadFile`, `initCig` | main, then everyone who reads a value |
| log, singletons | write only | | all |

How they interact. A client logs in over HTTP (`login`, then `verify`, then
`v2/login`), is told the game server's address, sends a 20 byte handshake over
UDP, is answered with a conversation id, and from then on exchanges KCP segments.
`GameServer::ParsePacket` finds the session of a datagram by address plus port,
feeds it to KCP, reads at most one message, decrypts it and pushes it on the
session's deque. The session's handler thread pops it, checks it against the
session state and runs its handler, which sends replies through KCP.

What is hard here, and what makes each part correct:

- *Game session.* Three threads and one lock, which only `Send` takes. Requests
  must be handled in the order sent and none may disappear; the switch from the
  dispatch key to the mt key happens on the handler thread while the io thread
  decrypts; replies must follow the protocol; a silent session must end.
- *Game server.* Handshakes are lost, repeated and delayed; entries of `g_Clients`
  are never removed, although sessions delete themselves; the key of the table is
  a 32 bit sum; a session is set up after its client is answered, and that can fail.
  One answer per handshake, no session fed with another client's segments, everybody
  answered in the end.
- *KCP.* In-order, exactly-once delivery over a network that does none of it, with
  32 bit wrap-around of clocks and sequence numbers.
- *Accounts.* No transaction and no unique index: a login is up to four database
  writes, found by old values, and the process can die between any two; an empty
  username stands for "no account", but can be logged in with. A username and an id must
  name one account, and a key told to a client must verify.
- *HTTP sessions.* Requests of a connection must be answered in turn, though three
  handlers see each of them and clients send ahead; each connection must be closed
  or expire; one failed accept ends the loop.
- *Codec.* Packets on the deque point into buffers while more messages come in;
  sizes inside a message are whatever its sender, or a wrong key, makes of them. A
  handler must read what was sent, and a message that does not parse must not stop those
  that do.
- *Configuration and start.* The io threads run before the servers, the handlers and
  the database are set up; reads leave values on the Lua stack.
- *Shutdown.* `IOServicePool::stop` joins threads whose loops it does not end.

The hazards, each at its line with the properties that cover it, are in
`PROJECT.json`.

## 2. Modules

| module | models | status |
|---|---|---|
| `GameSession` | one session and its three threads | checked, proved in `GameSessionProofs` |
| `SessionProtocol` | what a session's replies promise: the abstract specification `GameSession` implements | checked and proved as a refinement |
| `GameServer` | receive loop, session table, handshake, expiry, network | checked, proved in `GameServerProofs` |
| `KcpLink` | one direction of KCP: segments, acknowledgements, windows, over a bad network | checked, proved in `KcpLinkProofs` |
| `FifoChannel` | what that direction promises: the abstract specification `KcpLink` implements | checked and proved as a refinement |
| `KcpClock` | `ikcp_update`, `ikcp_check` and the timers of `ikcp_flush`, in words that wrap, with `Background` around them | checked, proved in `KcpClockProofs` |
| `PacketCodec` | `BasePacket`, `Xor` and the buffers between `ikcp_recv` and a handler | checked, proved in `PacketCodecProofs` |
| `AccountStore` | login, verify, v2/login, database, crashes | checked, proved in `AccountStoreProofs` |
| `HttpServer` | accept loop, HTTP sessions, time-outs, the end of the process | checked, proved in `HttpServerProofs` |
| `Startup` | `main`, configuration, what the io threads find while it runs | checked, proved in `StartupProofs` |
| `MC*` | constants | |

Commented *mutant* definitions beside an operator are plausible bugs of that code;
nothing uses them. `PROJECT.json` pairs each with the property that notices it.

### GameSession

The state is that of one `Kcp` after `Initialize`: `state`, `silence` (seconds
since `lastPacketTime`), `freed`, `useMT` and `mtKey` (whether `mt_key` is not
empty), `packetQueue` (front first), `sessionState`. Each thread has a program
counter. An action is the code between two accesses that another thread can see:

- io thread: `IoInput` (`Kcp::Input`), `IoRecv` (`Kcp::Recv`, and the choice of
  the key), `IoDecrypt` (`Xor`, the `BasePacket` constructor), `IoPush` and
  `IoConstruct` (the two halves of `push_front`);
- handler thread: `HPoll`, `HQueueEmpty`, `HPop` (`back`, `pop_back`) and the `Gate`
  (`Take`), then the steps of the handler it reaches (`HPing`, `HUseMT`, `HGenKey`,
  `HTokenRsp`, `HNotify`, `HLoginRsp`);
- both at once: `Race`, a `pop_back` in the middle of a `push_front`, after which the ends
  of the deque are wrong: the packet is still there, or those after it are gone;
- background thread: `BgUpdateThrows`, `BgClose`, `BgDelete`.

Undefined behaviour is a choice between the process dying (`crash`, with its
cause) and going on with what memory holds: `Xor` with an empty key, an element
popped while it is being constructed, a deque changed at both ends at once, a freed
session. An exception on a detached
thread (`send_to` inside `ikcp_flush`) ends the process.

Abstractions: a message is its number, its kind and the key it is encrypted with.
KCP is an in-order stream, the `FifoChannel` that `KcpLink` implements, of which
one datagram completes any number of messages. The race of `ikcp_update` and
`ikcp_input` with `Send` on the `ikcpcb` is not modelled here: a torn `ikcpcb` could do
anything.

### SessionProtocol

Replies only: a token answer at most once and first, then pings and one login
burst (five notifies and the response), one request at a time. `GameSession`
implements it with `replies <- outbox`, the property `FollowsProtocol`.

`GameSession`, `GameServer` and `KcpLink` look at the same sessions from three sides:
`GameServer` has many sessions, each of them open or not; `GameSession` has one, behind
the `FifoChannel` that `KcpLink` implements; `KcpClock` says when `KcpLink`'s flushes
come, `PacketCodec` what is in the messages that `GameSession` has as model values.

### GameServer

`clients` is `g_Clients`: key to peer, conversation id, time of the last datagram
and whether its `Kcp` is alive. `Accept`, `AcceptFails`, `InitializeFails`, `Ignore`,
`Input` and `InputFreed` are the ways through `ParsePacket`. A handshake can fail in two
places: `AcceptFails` is the reply whose `send_to` throws (the process ends in the
assertion of `ikcp_release`, or the build has none and goes on); `InitializeFails` is the
thread that cannot be started after the reply is out, which is caught and logged: the
client knows an id, the table has no entry, and if it was the second thread, the first
one runs on a destroyed `Kcp` (`OrphanDies`). `Expire` is the end of a session
(its entry stays); `ReceiveFails` the end of the receive loop. `KeyOf` wraps at
`Word`. Clients repeat handshakes, restart, and may hold the id of an earlier
process. The network keeps datagrams it has delivered, so it repeats and reorders
them, and `Lose` drops them.

### KcpLink

The sender's state is `snd_queue` and `snd_buf` as sets of sequence numbers
(`stream`, `sndNxt`, `sndBuf`), `snd_una`, `rmt_wnd` and whether it is probing; the
receiver's is `rcv_nxt`, `rcv_buf`, `rcv_queue`, the acknowledgements to send and
whether to tell its window. `Send` is `ikcp_send`, `Recv` is `ikcp_recv` with
`ikcp_peeksize`. `ikcp_flush` is `SndFlush` at the sender (new segments, due
segments, the window probe) and `RcvFlush` at the receiver (acknowledgements,
window). `ikcp_input` is `AckInput` at the sender, `DataInput` and `WaskInput` at
the receiver. `Kcp::Send` is `Send` and then `SndFlush`; they are separate
actions, as the peer may call them apart and a flush before the first
`ikcp_update` does nothing.

Abstractions: a segment is its number, its content its `frg`. Sequence numbers do
not wrap. When a segment is due is left open: any set of segments of `snd_buf` may
be sent again by any flush, which covers time-outs, fast resend and `ikcp_update`
whatever their clocks say; `KcpClock` has the timers. The congestion window is left
out, as EyPS turns it off (`nc = 1`). Segments travel each in a datagram of its own; `RcvFlush` also stands
for a segment of the other direction, which carries `una` and `wnd` too. With
`Repeats` the network keeps what it delivers and hands it out again at any time;
without, it loses. `FragLimit` is `IKCP_WND_RCV`, hence also the first `rmt_wnd`
and the least `rcv_wnd` that `ikcp_wndsize` allows.

### KcpClock

`current`, `updated`, `tsFlush`, `rxRto` are the fields of the `ikcpcb`; of a segment
in `snd_buf` its `resendts` and `rto`; `acks` and `queued` say what waits for a flush.
`Update`, `Check` and `Wake` are the loop of `Background`; `Send` is `Kcp::Send` on the
handler thread, which flushes with the time of the last update; `DataInput` and
`AckInput` are `ikcp_input` as far as timers go. Times are kept modulo `Word` and
compared by `Diff`, which is `_itimediff`. `clock` is `clock()`, wider than a word: it
is counted through two laps, and the second stands for all that follow.

What `Background` makes of `ts` is not modelled as a sleep of that length: it takes
`clock()` from it, ticks of CPU time on POSIX, and sleeps as many milliseconds of the wall
clock (`Kcp.cpp:35`), so nothing can be said of where `clock()` is when it wakes. `Wake`
leaves it open.

Abstractions: the clock moves at most `MaxLag` between two updates, whatever
`Background` meant to sleep; the peer's window is open; what fast resend picks is left
open, and so is the resend time that `ikcp_update_ack` computes, within its bounds.

### PacketCodec

`wire` is what KCP has for the server, `recvBuf` is `_recvBuf`, `heap` the buffers that
`Xor` allocates and nobody frees, `queue` the packets of `packet_queue`: copies of id
and metadata, and a view (`buf`, `at`, `len`) of the data. `Receive`, `Decrypt`, `Push`
and `Reject` are the io thread in `ParsePacket`. The handler thread, `PacketQueueHandler`, is
`Handle`, which reads through the view, or `Refuse`: the gate lets no packet through whose
id is not for the session's state, and the thread ends for good (`stopped`). Which state
the session is in is `GameSession`'s; here any packet but a ping may be refused.
`Encode` and `Parses` are the two constructors of `BasePacket`.

Bytes are bytes: `Short` and `Long` write numbers of two and four of them, first byte
first, as `bufferView` does, `ShortAt` and `LongAt` read them. `ByteXor` is a constant
operator of which only two things are assumed (`ByteXorAssumption`): it gives a byte, and
it undoes itself. TLC is given the bitwise one.

Abstractions: a client sends a message whole or cut anywhere, under the server's key or
another. Its metadata are bytes; when keys change is in `GameSession`. Messages fit into
the 65,534 bytes of `_recvBuf` (`CodecAssumption`): `Recv` tells `ikcp_recv` the size of
the message, not of the buffer, so what a longer one does is not defined.

### Startup

`pc` is where `main` is. `LoadKeys`, `LoadFile` and `ReadValue` are `Config`, with `stack`
the Lua stack as the paths of the values on it: `ReadValue` pushes a path's table and
fields and pops what `getValFromTable` pops. A missing value is chosen when it is read,
and the read ends early; a missing table ends the process in Lua's panic (`ReadPanics`).
The rest follows `main`: io threads, `Addresses` (`make_address` throws for what is no
address),
`LoadCertificate`, `StartHttp`, `StartGame`, and `Stop` by a signal. Beside it, `Request`
(a login, which uses the database, or the region list, which `Xor`s with the dispatch
key) and `Message` are what the io threads do with what is open already. `death` says what
ended the process.

### AccountStore

`accounts` and `count` are the two collections, `account` the handler's `Account`
object, `pc` the next database write. One action per write: `NextId`,
`LoginToken` (evaluated among the arguments of `insert_one`), `Insert`,
`SessionKey`, `ComboToken`; the reads before it belong to it, since nothing runs
in between: all HTTP sessions are on one `io_context` with one thread. `Reply` may
be lost. `Crash` ends the process anywhere in a request: a kill, a mongocxx
exception or a missing JSON member, none of which is caught. A client may also log in
without need (`MaxRepeats`). `NoName` is the empty
username: it is looked up and inserted like any other, but `authenticate` takes an
`Account` without a name for none, so its login ends in an error with the document made
and `generateSessionKey` not called (`Decide`). A token is the clock
it was seeded with. `StoreKey` updates *one of* the documents that hold the old
value.

### HttpServer

`accepting` is the outstanding `async_accept`. A session is its outstanding
operations (`ops`: detect, handshake, read, shutdown; `writes`: the requests its
writes answer) and the ticks left to its deadline: it lives as long as it has one,
since only their handlers hold its `shared_ptr`. `busy` is the session in the middle
of `on_read`, where the three handlers, with all their database calls, hold the only
thread. An action is one handler: `OnAccept` (with `detect_session::run`),
`OnDetect`, `OnHandshake`, `OnRead` and `Handled` (the two ends of `on_read`),
`OnEndOfStream`, `OnWrite`. `Sends` counts the handlers that answer a target, taken
from their tables of prefixes; for `/` both 0 and 1, as `target()[1]` reads past its
end. A session that gets no answer ends with its request.

`Expire` is the deadline, `Fail` any other error (and `on_shutdown`). `Die` is the
end of the process by an exception in a handler, or by the response that `send`
destroys while it is being written. `Signal`, `Exit` and `RunReturns` are `main`'s
signal handler, `IOServicePool::stop` and what `io_context::run` waits for;
`receiving` stands for the game server's loop on the other thread.

Abstractions: a request is its target and its keep-alive, a connection is made
once, bytes and TLS records are left to Beast. `expires_after` sets one deadline for
the operations that follow it, so the one set before a read covers the handlers and
the write as well.

## 3. Runs

| run | question | states |
|---|---|---|
| `session_free` | any three requests, every interleaving: types, order, loss, key switch, protocol, empty key, and is a client that waits for its replies served? | 5.3 M |
| `session_live` | does silence end a session, does a backlog drain? | 384 k |
| `server_table` | two endpoints whose sums wrap to one key, sessions that fail after the reply: one answer, right peer? | 495 k |
| `server_live` | is everyone answered? | 39 k |
| `kcp_fifo` | messages of one and two segments: whole, in order, once? | 341 k |
| `kcp_window` | what does a stale window do to sender and receiver? | 1.3 M |
| `kcp_live` | does everything arrive, with the window closed and updates lost? | 53 k |
| `kcp_clock` | through laps, lags and jumps of the clock: is the timer armed, is `ikcp_check` never late, is everything resent? | 215 k |
| `packet_codec` | messages whole, cut, under another key or refused: do handlers read what was sent? | 220 k |
| `account_store` | names, ids, keys under crashes, lost replies and the empty name; is everyone let in? | 249 k |
| `http_sessions` | are requests answered in turn, do sessions end, what does a signal wait for? | 90 k |
| `startup` | values missing, requests and signals while `main` runs: are values right, is all there that is used? | 33 k |

What they show:

- Requests stay in order across the three threads (`InOrder`), and the only ones
  lost are those encrypted before the key switch and decrypted after it
  (`NothingLost`), as long as the two threads have not spoilt the ends of the deque, which
  has no lock (`Race`); the converse never happens (`MtNeverReadAsDispatch`).
- A thread divides by the size of an empty mt key only while no reply is out: the io
  thread between `SetUseMT` and `GenerateMTKey`, the handler thread for a ping before the
  token; and never if the client waits for each reply and no packet was misread
  (`EmptyKeyOnlyEarly`). It is the order of three threads that keeps it so, and the
  client's: one that sends ahead of the token response can meet it.
- A session's replies implement `SessionProtocol`, on the same condition on the deque; a
  client with one request in flight is never refused (`OrderlyClientServed`).
- An entry of `g_Clients` exists exactly for an answered handshake whose session could be
  set up, and no key is answered twice in a process but for those that could not
  (`EntryIffAnswered`, `AnsweredOnce`). A client answered in vain works with an id of no
  session and is ignored until it is restarted (`EveryoneAnswered` therefore asks for
  clients that go on asking). Although different endpoints can share a key, KCP takes no
  segment of another client (`SegmentsFromPeerOnly`): the client that finds its key taken
  is not given an id. Conversation ids do not help here: two handshakes of one second get
  the same (`Kcp.cpp:121`), and so the exception is a client answered in vain whose key is
  then taken by another in the same second. One answer is also the limit of the server: a
  client whose answer was lost, or whose session expired, is not answered again.
- KCP implements `FifoChannel` (`ImplementsFifo`) and no segment leaves the
  sender before it has arrived (`DroppedOnlyIfReceived`), although `rmt_wnd` is
  taken from any segment, however old (`ikcp.c:790`), and a sender can therefore
  send beyond the receiver's window. What saves it is the receiver: it tests the
  window before it acknowledges (`ikcp.c:829`, the mutant `Acked_Any`) and again
  before it queues (`ReceiverBounded`). A closed window opens again even if its
  update is lost, because of the probe (`EverythingArrives`, mutant `Asks_Never`).
- The flush timer is left neither in the past nor far ahead, however late updates come
  (`FlushArmed`; the second test of `ikcp.c:1171` is what the mutant `Rearmed_Once`
  forgets), the time `ikcp_check` returns is not later than any deadline, not even one that
  `Kcp::Send` adds afterwards (`CheckInTime`; what `Background` sleeps is another matter,
  see below), and an unacknowledged segment is sent again for ever, though
  its back-off grows beyond half a word and wraps (`UnackedResent`).
- A handler reads what was sent, although packets point into buffers while more messages
  come in (`HandledAsSent`); it does because `Xor` copies. No size in a message leads a
  view out of its buffer (`ViewsInside`). A message that does not parse costs only itself;
  but one that parses and is refused by the gate, be it under a wrong key by chance, costs
  all that come after it, as does an empty one (`GoodHandled` names both).
- Values keep to their paths, whatever earlier reads left on the Lua stack
  (`ValuesRight`), since each read starts from a global table and only looks at the top.
  Five missing values leave room for the reads after them (`StackFits`). The database
  uri is set before the first request can make the connection pool, and packet handlers
  before the first datagram is taken (`ReadyWhenServing`).
- An account is one per name (`UniqueNames`), `insert_one` never meets a duplicate
  (`IdsFresh`), keys are not shared (`KeysDistinct`). A crash leaves at most one
  account without a key, and so does the empty name, once (`UnkeyedBounded`); without a
  crash and without the empty name the key told verifies (`ToldKeyVerifies`); whatever of
  these happened, a client with a name that logs in again gets in for good
  (`EveryoneGetsIn`).
- Requests are answered one at a time and in order, however far ahead a client
  sends them (`AnsweredInTurn`), and none after the answer that closes the
  connection (`NothingAfterClose`; `on_write` calls the flag `close`, but it holds
  keep-alive). Every session ends, silent clients and unread responses included,
  and so does every wait of a connection to be accepted (`SessionsEnd`). A signal does not end the process: `stop` resets the work guards, but the accept
  loop and the receive loop always have an operation outstanding, so `join` waits
  until both have failed (`StopReturns`, which names that condition). After one
  failed accept nobody is accepted any more.

Defects the models contain. These are steps of the modules, in the open; properties say
what holds in spite of them, and name them where they are a condition:

- A handshake reply whose `send_to` throws (`Kcp.cpp:133`) destroys a `Kcp` that has no
  `ikcpcb`: `~Kcp` (`Kcp.cpp:17`) runs into `assert(kcp)` (`ikcp.c:304`). `AcceptFails`.
- `Initialize` runs after the reply (`Kcp.cpp:134`): when a thread cannot be started, the
  client is answered in vain, and the first thread, if it was the second, runs on a
  destroyed `Kcp`. `InitializeFails`, `OrphanDies`; `failed` in the properties.
- Conversation ids are seconds (`Kcp.cpp:121`): with such a failure, a client can feed its
  segments to a session of another with the same key and second. `SegmentsFromPeerOnly`.
- After a crash between `insert_one` and `generateSessionKey` an account is left with key
  `""`; the next account created has that old value too, and its key can be stored in the
  wrong document (`Account.cpp:95`). `StoreKey`; `ToldKeyVerifies` has `crashes = 0`.
- A login of the empty username inserts an account, which `authenticate` then takes for one
  that could not be made (`PwdAuthenticate.cpp:25`): it is left with key `""` without any
  crash, and the next account's key can land in it. `Decide`; `NamelessAccount` in the
  properties.
- A message of no bytes stays at the head of `rcv_queue` and blocks all behind it, as
  `Recv` takes size 0 for none (`Kcp.cpp:87`). `Receive`; a condition of `GoodHandled`.
- A packet the gate refuses ends the handler thread (`Kcp.cpp:56`-`70`); the session lives
  on and handles nothing more. `Refuse`, `HPop`; a condition of `GoodHandled`.
- The response to a login is sent as a `GetPlayerTokenRsp`, and under the dispatch key
  (`HandlePlayLoginReq.cpp:83`), when the client works with the mt key. `HLoginRsp`, and
  `EndLogin` of `SessionProtocol`, which states what is sent.
- `Background` subtracts a `clock()` that is wider than a word from one that is not
  (`Kcp.cpp:35`): past 2^32 ticks it never sleeps. It does not sleep either while a
  segment that is due waits for the next flush. `clock()` counts ticks of CPU time where
  KCP expects milliseconds, and the difference in ticks is slept in milliseconds, so that
  the sleep can end long after the deadline. `Check`, `Wake`, `Advance`.
- `delete this` frees a session others still use (`Kcp.cpp:26`); `SetUseMT` comes before
  `GenerateMTKey` (`HandlePlayerTokenReq.cpp:35`); the deque has no lock, so that a packet
  can be read half built, come twice or be lost with others (`Race`). `GameSession`.
- `async_write` is given a response that ends with `send` (`HttpSession.h:52`). `Die`.
- The buffers of `Xor` are never freed. `heap` of `PacketCodec`.
- The magic numbers of a packet are read and not compared (`BasePacket.cpp:22`, `:31`).
- Six missing values leave more on the Lua stack than is guaranteed to fit
  (`psConfig.cpp:54`). A missing key file shows only when the first message is decrypted
  or the region list is asked for, and then ends the process. `LeftBehind`, `LoadKeys`,
  `Message`, `RegionList`.

### Bounds

- `session_free`: 3 messages (token, login and one more, in every order and
  repetition), batches of 2 (so that a backlog exists), time-out 0 (the first
  second of silence may end the session). Three suffice for a message on each side
  of the key switch and one in the window; whether the client has kept to the
  protocol so far is a history variable (`orderly`). One `Race` is followed: after it the
  deque is not what it should be, and the properties on order and loss say nothing.
  `session_live` has 2 messages
  and a time-out of 1, so that a datagram can come just in time.
- `GameServer`: of `Colliding`'s two endpoints one's sum wraps at `Word = 8` to the key of
  the other; `Distinct` is two clients behind one address. The clock shows seconds 2 to 4
  in `server_table`, only 2 in `server_live` (1 is the second that gave `OldConv`), and the
  time-out is 0, so that a session can expire and be asked for again, and two handshakes
  can share a second or not. One session fails after the reply.
- `KcpLink`: `kcp_fifo` has 3 segments, so that a message of two has one before or
  behind it, and windows of 3. `kcp_window` has 5 segments and a receive
  window of 2, the smallest in which a sender oversteps `rcv_nxt + rcv_wnd`: two
  segments in `rcv_queue`, two in `rcv_buf` acknowledged on their own, a stale
  window, and one more segment (`snd_wnd` of 1 is enough for it). `kcp_live` has 3
  segments and windows of 2, so that two unread messages close the window. `MaxAcks`
  acknowledgements wait for a flush, `MaxFlight` segments are on their way back:
  two in the safety runs, one old and one new, which is what a stale window takes.
- `AccountStore`: two users (one cut off, one whose key is misplaced) and the empty name,
  one fault, one needless login and 15 tokens, more than those can use up, so
  that liveness is not at the mercy of the bound. No symmetry, as the run has a liveness
  property.
- `KcpClock`: with an interval of 3, unlike one of 2, a segment falls due while the flush
  is still to come. A lag of 5 is longer than the interval and than `Jump` (4), so that
  all ways through `ikcp_update` occur, and `Word` of 18 is the least even number whose
  half exceeds lag and interval together. One segment's `rto` starts at 4 and backs off to
  6, then to 9, which is half a word and taken as negative, and on from there. The clock
  starts anywhere in two laps.
- `PacketCodec`: two messages in a row, the second of which is what could overwrite the
  first. An id of two bytes that differ, metadata of no byte or one, data of two or three
  with bytes at both ends of their range; cut at every length; keys of one byte and of
  three, so that the key is repeated out of step. One id is a ping's, the other one that
  the gate may refuse.
- `Startup`: the program's own settings and stack; any five of nine values missing.
- `HttpServer`: two connections, so that one can hold up the other; the first sends
  two requests, of a target that is answered and of `/`, one keeping the connection
  and one closing it, in any order and possibly both at once; the second sends none
  and only times out or leaves. `Limit` of 1: a tick may or may not come in between.

### Fairness

- Session threads loop without waiting for anything but time, hence weak fairness
  of `IoStep`, `Handler`, of `Background`'s own steps and of `Tick`. Nothing obliges
  a client to talk: `SilentSessionEnds` and `BacklogDrains` name its datagrams.
- `GameServer`: a client goes on sending (weak); strong fairness that of its datagrams,
  sent again and again, one gets through and its session is set up. Nothing is assumed of
  replies arriving, nor of time.
- `KcpLink`: `ikcp_update` is called again and again and finds each segment still
  in `snd_buf`, and the probe, due again and again (`rto` and `probe_wait` are
  bounded); the application reads (weak). Of data, of probes and of up-to-date
  acknowledgements sent again and again, some get through (strong). `Lose` and new
  messages are not obliged to happen.
- `AccountStore`: the thread runs its handler, and each client that is not in asks
  again (weak). Crashes and losses are bounded, as one must assume of faults for
  anything to finish.
- `KcpClock`: `Background` goes round and the clock moves on (weak), which it does even if
  it is CPU time, as the handler thread polls without a pause (`Kcp.cpp:44`). Sending and
  acknowledging are not obliged to happen.
- `PacketCodec`: datagrams keep coming, each of which runs `ParsePacket`, and the handler
  thread polls (weak). `Startup` needs none: what it promises is safety.
- `HttpServer`: the `io_context` queues handlers in order and comes round to each
  one that is ready, though another session's handler may hold the thread again and
  again: strong for `OnAccept` and `Expire`. A running handler returns, time passes,
  `join` returns (weak). No read, write or handshake need ever end.

`CHECK_DEADLOCK FALSE` is set where the model stops by its bounds or because the
process has died.

## 4. Proofs

The proofs hold for every value of the constants allowed by the named assumptions
(`GameSessionAssumption`, `GameServerAssumption`, `KcpAssumption`, `ClockAssumption`,
`AccountAssumption`, `HttpAssumption`, `ByteXorAssumption`, `CodecAssumption`,
`StartupAssumption`): any number of requests, endpoints, segments, users, connections,
messages and faults, any width of a word, any keys.

- `GameSessionProofs`. `TypeCorrect`: `TypeOK` is inductive. `KeySwitchOneWay` rests on the
  invariant that a message under the mt key, anywhere between the client and the io thread,
  implies that `useMT` is set: the client learns its key from a reply sent after the
  switch.

  `RequestsInOrder`, `NoRequestLost`: `InOrder` speaks of a concatenation of five
  sequences, which is no place for induction on steps. `OrderInv` says where each number is
  instead: the stream holds the last numbers sent without a gap, `Taken` is the last one the
  io thread took, what is on the deque and in the handler's hands is below, falling from
  front to back. The lemmas on `Run` (sequences that rise within bounds join to one that
  does) turn it into `InOrder`. `LossInv` adds that each number at or below `Done` is in the
  deque, in hand, answered or thrown on. All of it holds until a `Race`, and what is proved
  is `raced \/ OrderInv`, and so on, with `raced` never taken back (`RacedStays`).

  `ImplementsProtocol`, `OrderlyServed`: `ReplyInv` relates the handler thread's place to
  the burst counter, the session state and the request answered last; with it each step of
  the three threads is a step of `SessionProtocol` or leaves `outbox` as it is. `OrderlyInv`
  says of a client that waits for its replies that the kind and the key of each request
  follow from its number, that at most one is under way beyond the one in hand, and that the
  key in use is the one it was sent with.

  `KeyWindow` (of `EmptyKeyOnlyEarly`) takes three of these together: a reply is out only
  when the key is made (`KeyMade`), the death by an empty key is the last step of a session
  without one (`EmptyKeyInv`), and with a client that waits for each reply a request that is
  decrypted under the mt key comes after the key (`OrderlyKeyMade`).
- `GameServerProofs`: `TypeCorrect`, `SegmentsFromPeer`, `HandshakeOnce`, `EntryForReply`.
  The invariant `ServerInv` ties the table to the history of answers, and ids held by
  clients and in flight to answers given to them; conversation ids of this process
  are later than those of earlier ones, which is why a stale client is not heard. Answers
  in vain (`failed`) are told apart throughout.
- `KcpLinkProofs`: `TypeCorrect`, `NothingDroppedEarly`, `QueueOrder`,
  `BoundedBuffers`, `LinkIsFifo`. `LinkInv` ties what is acknowledged, in a list or
  in flight, to what the receiver has: an `sn` acknowledged anywhere is received,
  no `una` is beyond `rcv_nxt`, and what is not in `snd_buf` is received.
  `MessageInv` says that `rcv_queue` starts at a message's first segment and that
  `frg` counts down to each message's end, so that `Complete` holds exactly when
  the whole of the next message is there. With it every step of the link is a step
  of `FifoChannel` or a stutter.
- `KcpClockProofs`: `FlushTimerArmed`, `CheckNeverLate`. Lemmas on words come first
  (`DiffCases`, `DiffIs`, `DiffLap`, `AddWrap`: what a signed difference is when the true
  one is less than half a word, and that a lap does not change it). `ClockInv` bounds how
  far the clock is ahead of `current`, from which the rearmed timer and the deadlines of
  `ikcp_check` are less than half a word away and compare as they should.
- `AccountStoreProofs`: `TypeCorrect`, `OneAccountPerName`, `InsertFresh`,
  `KeysNotShared`, `ToldKey`, `CrashesBoundUnkeyed`. `StoreInv` strengthens them with: a
  handler that creates works for a name nobody has, the counter is ahead of every id,
  keys are older than the clock. `KeyInv` adds, while nothing has crashed, that the
  account being created is the only one without a key, so that the update by old value
  meets the right one, unless the empty name has an account. `UnkeyedInv` adds that the handler's key is the document's until
  it is stored, so that an update by old value puts a key in place of one like it.
- `HttpServerProofs`: `TypeCorrect`, `AnswersInTurn`, `ClosingAnswerLast`. `HttpInv` says
  that a session does one thing at a time (`OneThing`: nothing, starting, reading,
  handling, writing or closing, and what is true of its counters in each), and that at
  most one of the three handlers answers a target.

- `PacketCodecProofs`: `ReadAsSent`, `ViewsStayInside`, `WholeMessagesKept`. Lemmas say
  what the codec computes: numbers of two and four bytes read back as written
  (`ShortBytes`, `LongBytes`, `HeaderBytes`), `Xor` with the same key undoes itself
  (`XorUndone`), an encoded message has its parts where `Parses` looks for them
  (`EncodeBytes`), and a message that parses under the server's key is a whole one
  (`WholeOnly`): a cut one still has the sizes of the whole in its head, and is too short
  for them. The
  inductive invariant `CodecInv` follows a message: on the wire it is the cipher of what
  was sent (`WireInv`), in hand it is what `recvBuf`, and then the last buffer of the heap,
  holds (`HandInv`), and on the deque a packet's view shows what was sent, in a buffer that
  never changes (`PacketInv`). What makes that inductive is that the heap only grows;
  `_recvBuf` changes with every message. `OrderInv` puts handled packets before queued
  ones. `NoneDropped` adds that no whole message is rejected or forgotten, and that the one
  that ended the handler thread is one the gate can refuse: the safety part of
  `GoodHandled`.
- `StartupProofs`: `ValuesOfTheirPaths`, `RoomOnStack`, `ServesWhenReady`, `StartupTypes`.
  `ReadInv` bounds the Lua stack by what was read: each read leaves one value, one more
  when it found nothing, and another when the path it gave up on is one of the four long
  ones. So nine reads fit when `11 + MaxMissing + min(MaxMissing, 4) <= MinStack`
  (`StackSuffices`), which five missing values and Lua's twenty slots just meet: the bound
  is exact, as six need twenty-one. `ServeInv` says how far `main` is when something is
  served: requests come after the uri is copied, messages after the handlers are
  registered, and neither is undone.

Only model-checked are the liveness properties, as liveness under fairness and ENABLED are
beyond TLAPS: `SilentSessionEnds`, `BacklogDrains`, `EveryoneAnswered`,
`EverythingArrives`, `UnackedResent`, `WaitingFlushed`, `GoodHandled`, `EveryoneGetsIn`,
`SessionsEnd`, `StopReturns`. Every invariant and every action property of the runs, and
both refinements, are theorems.

No module has a RECURSIVE operator.

## 5. Plan

What is left, in order of worth:

1. Sequence numbers that wrap in `KcpLink` (`_itimediff` of `sn`), with `Diff` and its
   lemmas from `KcpClock`: that windows shorter than half a word keep the theorems of
   `KcpLinkProofs` true.
2. `KcpClock` and `KcpLink` as one: flushes at their times, so that liveness of the link
   follows from the loop of `Background`.
3. `Handshake`'s codec beside `BasePacket`'s, and that a packet decodes from its own
   encoding only: `HeaderBytes` and `EncodeBytes` are most of that proof.
4. Fewer than two cores, where HTTP and UDP share one `io_context`.

## 6. Not modelled

- RapidJSON (vendored), logging, singletons, the empty player class.
- Contents of protobuf and JSON messages, Base64, random key generation,
  certificates: data that no property tells apart.
- The encoding of `Handshake`: five fields of fixed width, without a size in it.
- What nobody calls: `ReadString` and the like of `bufferView`, `dynamicBuffer`'s
  seeking, `getStringVal`, `getIntVal` and `getBooleanVal` of `Config`.
- The responses of `HttpHandleReq.h` and `GenericHandler.h`, which are constant. (The
  region list names a `dispatch_url` under `/query_cur_region/`, which none of the
  handlers answers; they answer `/cur_region`.)
- The race of three threads in one `ikcpcb`, for which no outcome can be excluded.
  `KcpLink` takes each call into KCP as atomic.
- KCP's stream mode and congestion window, which EyPS does not use, and its
  simulator `test.cpp`.
