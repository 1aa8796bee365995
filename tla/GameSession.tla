----------------------------- MODULE GameSession -----------------------------
(***************************************************************************)
(* One game session of EyPS: a `Kcp` object after its handshake            *)
(* (Kcp::Initialize), and the three threads that touch it with no common   *)
(* lock:                                                                   *)
(*                                                                         *)
(*   io       GameServer::ParsePacket: one datagram at a time, Input, one  *)
(*            Recv, choice of the key, decryption, push on packet_queue;   *)
(*   handler  Kcp::PacketQueueHandler: pop, session-state gate, handler of *)
(*            the packet, whose Sends go out in order (kcplock);           *)
(*   background  Kcp::Background: the 20 second silence check, then        *)
(*            `delete this`, although g_Clients still owns the object.     *)
(*                                                                         *)
(* KCP itself is abstracted to what it gives this layer: the messages of   *)
(* the client come in the order sent, and one datagram can complete any    *)
(* number of them.  Undefined behaviour (an empty key, a deque two threads *)
(* change at once, freed memory) is a choice between the death of the      *)
(* process (crash # "none") and going on with what the memory holds.       *)
(***************************************************************************)
EXTENDS Integers, Sequences, SequencesExt

CONSTANTS
    MaxMsgs,    \* how many messages the client sends (bound of the model)
    MaxBatch,   \* how many messages one datagram can complete (bound)
    Timeout     \* ticks of silence Background accepts (20 seconds in the code)

ASSUME GameSessionAssumption ==
    /\ MaxMsgs \in Nat
    /\ MaxBatch \in Nat
    /\ Timeout \in Nat

Kinds == {"PingReq", "GetPlayerTokenReq", "PlayerLoginReq",
          "SetPlayerBornDataReq", "Other"}
Keys == {"dispatch", "mt"}
Msg == [id: Nat, kind: Kinds, key: Keys]
NoMsg == [id |-> 0, kind |-> "Other", key |-> "dispatch"]

LoginNotifies == <<"OpenStateUpdateNotify", "StoreWeightLimitNotify",
                   "PlayerStoreNotify", "AvatarDataNotify",
                   "PlayerEnterSceneNotify">>
LoginBurst == Len(LoginNotifies) + 1      \* packets sent by one login request
ReplyIds == {"GetPlayerTokenRsp", "PingRsp", "OpenStateUpdateNotify",
             "StoreWeightLimitNotify", "PlayerStoreNotify", "AvatarDataNotify",
             "PlayerEnterSceneNotify"}
Reply == [id: ReplyIds, key: Keys, req: Nat]

VARIABLES
    sent, wire, seen,                 \* the client: messages sent and in KCP's hands, replies seen
    orderly,                          \* history: it waited for each reply, in protocol order
    ioPc, ioMsg, ioKey, ready,        \* the io thread; KCP's receive queue
    state, silence, freed,            \* _State, time(0) - lastPacketTime, ~Kcp has run
    useMT, mtKey,                     \* _ShouldUseMt; mt_key is not empty
    packetQueue, sessionState,        \* packet_queue (front first), sessionState
    hPc, cur, burst, outbox,          \* the handler thread and what it has sent
    bgPc,                             \* the background thread
    crash,                            \* "none", or what killed the process
    lost, garbled,                    \* history: messages BasePacket threw on; a packet was misread
    raced                             \* history: the deque's ends have gone wrong

clientVars == <<sent, wire, seen, orderly>>
ioVars == <<ioPc, ioMsg, ioKey, ready>>
liveVars == <<state, silence, freed>>
keyVars == <<useMT, mtKey>>
handlerVars == <<sessionState, hPc, cur, burst, outbox>>
historyVars == <<lost, garbled, raced>>
vars == <<clientVars, ioVars, liveVars, keyVars, packetQueue, handlerVars,
          bgPc, crash, historyVars>>

Init ==
    /\ sent = 0 /\ wire = <<>> /\ seen = 0 /\ orderly = TRUE
    /\ ioPc = "idle" /\ ioMsg = NoMsg /\ ioKey = "dispatch" /\ ready = <<>>
    /\ state = "CONNECTED" /\ silence = 0 /\ freed = FALSE
    /\ useMT = FALSE /\ mtKey = FALSE
    /\ packetQueue = <<>> /\ sessionState = "WAITING_FOR_TOKEN"
    /\ hPc = "poll" /\ cur = NoMsg /\ burst = 0 /\ outbox = <<>>
    /\ bgPc = "check"
    /\ crash = "none"
    /\ lost = {} /\ garbled = FALSE /\ raced = FALSE

-----------------------------------------------------------------------------
(* The client (not in this repository).  It encrypts with the dispatch key  *)
(* until it has seen the token response, with the mt key from then on.      *)

ClientKey == IF \E i \in 1..seen : outbox[i].id = "GetPlayerTokenRsp"
             THEN "mt" ELSE "dispatch"

\* An orderly client has one request in flight and follows the order token,
\* login; pings come after the token.
Answered(n) == \E i \in 1..seen :
    /\ outbox[i].req = n
    /\ outbox[i].id \in {"GetPlayerTokenRsp", "PingRsp"}

OrderlyKind(kind) ==
    CASE sent = 0 -> kind = "GetPlayerTokenReq"
      [] sent = 1 -> kind = "PlayerLoginReq"
      [] OTHER    -> kind = "PingReq"

ClientSend(kind) ==
    /\ sent < MaxMsgs
    /\ orderly' = (orderly /\ (sent > 0 => Answered(sent)) /\ OrderlyKind(kind))
    /\ sent' = sent + 1
    /\ wire' = Append(wire, [id |-> sent + 1, kind |-> kind, key |-> ClientKey])
    /\ UNCHANGED seen

ClientReceive ==
    /\ seen < Len(outbox)
    /\ seen' = seen + 1
    /\ UNCHANGED <<sent, wire, orderly>>

-----------------------------------------------------------------------------
(* The io thread: GameServer::ParsePacket for a client already in g_Clients. *)

\* Kcp::Input of a datagram that completes the first n messages still under
\* way; n = 0 for an ACK or a retransmission.  A closed session ignores it.
IoInput(n) ==
    /\ ioPc = "idle"
    /\ silence' = 0
    /\ IF state = "CONNECTED"
       THEN /\ ready' = ready \o SubSeq(wire, 1, n)
            /\ wire' = SubSeq(wire, n + 1, Len(wire))
       ELSE n = 0 /\ UNCHANGED <<ready, wire>>
    /\ ioPc' = "recv"
    /\ UNCHANGED <<ioMsg, ioKey, packetQueue, crash, historyVars>>

\* Kcp::Recv finds a message; a released kcp has an empty receive queue.
Readable_LeavesOne == Len(ready) > 1 /\ ~freed    \* mutant: off by one
Readable == ready # <<>> /\ ~freed

\* The key ParsePacket decrypts with.
DecryptKey_AfterLogin ==                          \* mutant: tests the wrong state
    IF sessionState = "PICKING_CHARACTER" THEN "mt" ELSE "dispatch"
DecryptKey == IF useMT THEN "mt" ELSE "dispatch"

\* One Kcp::Recv per datagram, and the choice of the key by ShouldUseMT.
IoRecv ==
    /\ ioPc = "recv"
    /\ IF Readable
       THEN /\ ioMsg' = Head(ready)
            /\ ready' = Tail(ready)
            /\ ioKey' = DecryptKey
            /\ ioPc' = "decrypt"
       ELSE ioPc' = "idle" /\ UNCHANGED <<ioMsg, ioKey, ready>>
    /\ UNCHANGED <<wire, silence, packetQueue, crash, historyVars>>

\* Xor with the chosen key (an empty one divides by zero, one being assigned is
\* read in part), then the BasePacket constructor: a message under another key
\* throws, or parses as any packet.
IoDecrypt ==
    /\ ioPc = "decrypt"
    /\ UNCHANGED <<wire, silence, ioKey, ready, packetQueue, raced>>
    /\ \/ /\ ioKey = "mt" /\ ~mtKey
          /\ crash' = "emptyKey"
          /\ UNCHANGED <<ioPc, ioMsg, historyVars>>
       \/ /\ ioKey = "mt" => mtKey \/ hPc = "genKey"
          /\ UNCHANGED crash
          /\ \/ /\ ioMsg.key = ioKey
                /\ ioPc' = "push"
                /\ UNCHANGED <<ioMsg, historyVars>>
             \/ /\ ioMsg.key # ioKey
                /\ ioPc' = "idle"
                /\ lost' = lost \cup {ioMsg}
                /\ UNCHANGED <<ioMsg, garbled>>
             \/ /\ ioMsg.key # ioKey
                /\ \E kind \in Kinds : ioMsg' = [ioMsg EXCEPT !.kind = kind]
                /\ ioPc' = "push"
                /\ garbled' = TRUE
                /\ UNCHANGED lost

Pushed_Back(m) == Append(packetQueue, m)          \* mutant: push_back
Pushed_Slot(m) == <<m>>                           \* mutant: a single slot
Pushed(m) == <<m>> \o packetQueue

\* packet_queue.push_front without a lock: until it returns ("construct") the
\* deque may count the element before it is constructed, and moves its own ends.
IoPush ==
    /\ ioPc = "push"
    /\ packetQueue' = Pushed(ioMsg)
    /\ ioPc' = "construct"
    /\ UNCHANGED <<wire, silence, ioMsg, ioKey, ready, crash, historyVars>>

IoConstruct ==
    /\ ioPc = "construct"
    /\ ioPc' = "idle"
    /\ UNCHANGED <<wire, silence, ioMsg, ioKey, ready, packetQueue, crash, historyVars>>

-----------------------------------------------------------------------------
(* The handler thread: Kcp::PacketQueueHandler and the packet handlers.     *)

HPoll ==
    /\ hPc = "poll"
    /\ hPc' = IF state = "CONNECTED" THEN "pop" ELSE "stopped"
    /\ UNCHANGED <<keyVars, packetQueue, sessionState, cur, burst, outbox, crash, garbled>>

HasPacket == packetQueue # <<>>

HQueueEmpty ==
    /\ hPc = "pop" /\ ~HasPacket
    /\ hPc' = "poll"
    /\ UNCHANGED <<keyVars, packetQueue, sessionState, cur, burst, outbox, crash, garbled>>

Gate_TokenTwice(kind) ==                          \* mutant: no check on the token
    CASE kind \in {"PingReq", "GetPlayerTokenReq"} -> TRUE
      [] kind = "PlayerLoginReq" -> sessionState = "WAITING_FOR_LOGIN"
      [] OTHER                   -> FALSE

\* The session states in which the gate lets a packet through.
Gate(kind) ==
    CASE kind = "PingReq"              -> TRUE
      [] kind = "GetPlayerTokenReq"    -> sessionState = "WAITING_FOR_TOKEN"
      [] kind = "PlayerLoginReq"       -> sessionState = "WAITING_FOR_LOGIN"
      [] kind = "SetPlayerBornDataReq" -> sessionState = "PICKING_CHARACTER"
      [] OTHER                         -> sessionState = "ACTIVE"

\* Where m_Packets sends each kind; no handler is registered for the others.
HandlerOf(kind) ==
    CASE kind = "PingReq"           -> "ping"
      [] kind = "GetPlayerTokenReq" -> "useMT"
      [] kind = "PlayerLoginReq"    -> "notify"
      [] OTHER                      -> "noHandler"

\* The only element of the deque may still be under construction.
Torn == ioPc = "construct" /\ Len(packetQueue) = 1

\* back(), and the gate, which ends the thread on a refused packet.
Take(kind) ==
    /\ cur' = [Last(packetQueue) EXCEPT !.kind = kind]
    /\ hPc' = IF Gate(kind) THEN HandlerOf(kind) ELSE "stopped"
    /\ UNCHANGED <<keyVars, sessionState, burst, outbox, crash>>

\* The same with pop_back().
HPop ==
    /\ hPc = "pop" /\ HasPacket
    /\ \E kind \in Kinds : (~Torn => kind = Last(packetQueue).kind) /\ Take(kind)
    /\ packetQueue' = Front(packetQueue)
    /\ garbled' = (garbled \/ Torn)

Overlap == hPc = "pop" /\ HasPacket /\ ioPc = "construct"

HPopTornCrash ==
    /\ Overlap
    /\ crash' = "tornPacket"
    /\ UNCHANGED <<keyVars, packetQueue, handlerVars, garbled>>

\* Or the two threads overwrite each other's ends of the deque, which allocates
\* and frees its nodes at both: the packet popped stays, to come again, or those
\* after it are gone too.  One such pop is followed (bound of the model).
Race ==
    /\ crash = "none" /\ Overlap /\ ~raced
    /\ Take(Last(packetQueue).kind)
    /\ packetQueue' \in {packetQueue, <<>>} \ {Front(packetQueue)}
    /\ raced' = TRUE /\ garbled' = TRUE
    /\ UNCHANGED <<clientVars, ioVars, liveVars, bgPc, lost>>

\* m_Packets[id] inserts a null pointer for an id with no handler.
HNoHandler ==
    /\ hPc = "noHandler"
    /\ crash' = "noHandler"
    /\ UNCHANGED <<keyVars, packetQueue, handlerVars, garbled>>

\* Kcp::Send(BasePacket, use_dispatch_key): Xor, ikcp_send, ikcp_flush.  A
\* send_to that throws inside the flush leaves the thread function.
Send(id, key, next) ==
    /\ key = "mt" => mtKey
    /\ outbox' = Append(outbox, [id |-> id, key |-> key, req |-> cur.id])
    /\ \/ hPc' = next /\ UNCHANGED crash
       \/ UNCHANGED hPc /\ crash' = "sendThrew"

\* The same Xor under an mt_key that is still empty divides by zero.
HEmptyKey ==
    /\ hPc = "ping" \/ (hPc = "notify" /\ burst < Len(LoginNotifies))
    /\ ~mtKey
    /\ crash' = "emptyKey"
    /\ UNCHANGED <<keyVars, packetQueue, handlerVars, garbled>>

\* HandlePingReq::handler
HPing ==
    /\ hPc = "ping"
    /\ Send("PingRsp", "mt", "pop")
    /\ UNCHANGED <<keyVars, packetQueue, sessionState, cur, burst, garbled>>

\* HandlePlayerTokenReq::handler: SetUseMT, GenerateMTKey, state, then Send.
HUseMT ==
    /\ hPc = "useMT"
    /\ useMT' = TRUE
    /\ hPc' = "genKey"
    /\ UNCHANGED <<mtKey, packetQueue, sessionState, cur, burst, outbox, crash, garbled>>

HGenKey_NoKey ==                                  \* mutant: GenerateMTKey left out
    /\ hPc = "genKey"
    /\ hPc' = "tokenRsp"
    /\ sessionState' = "WAITING_FOR_LOGIN"
    /\ UNCHANGED <<keyVars, packetQueue, cur, burst, outbox, crash, garbled>>

HGenKey ==
    /\ hPc = "genKey"
    /\ mtKey' = TRUE
    /\ hPc' = "tokenRsp"
    /\ sessionState' = "WAITING_FOR_LOGIN"
    /\ UNCHANGED <<useMT, packetQueue, cur, burst, outbox, crash, garbled>>

HTokenRsp ==
    /\ hPc = "tokenRsp"
    /\ Send("GetPlayerTokenRsp", "dispatch", "pop")
    /\ UNCHANGED <<keyVars, packetQueue, sessionState, cur, burst, garbled>>

\* HandlePlayLoginReq::handler: five notifies, then the state and the response,
\* which goes out as a GetPlayerTokenRsp under the dispatch key.
HNotify ==
    /\ hPc = "notify" /\ burst < Len(LoginNotifies)
    /\ Send(LoginNotifies[burst + 1], "mt", "notify")
    /\ burst' = burst + 1
    /\ UNCHANGED <<keyVars, packetQueue, sessionState, cur, garbled>>

HLoginRsp_Active ==                               \* mutant: skips PICKING_CHARACTER
    /\ hPc = "notify" /\ burst = Len(LoginNotifies)
    /\ sessionState' = "ACTIVE"
    /\ Send("GetPlayerTokenRsp", "dispatch", "pop")
    /\ burst' = burst + 1
    /\ UNCHANGED <<keyVars, packetQueue, cur, garbled>>

HLoginRsp ==
    /\ hPc = "notify" /\ burst = Len(LoginNotifies)
    /\ sessionState' = "PICKING_CHARACTER"
    /\ Send("GetPlayerTokenRsp", "dispatch", "pop")
    /\ burst' = burst + 1
    /\ UNCHANGED <<keyVars, packetQueue, cur, garbled>>

-----------------------------------------------------------------------------
(* The background thread: Kcp::Background and ~Kcp.                         *)

Expired_NoTimeout == state # "CONNECTED"          \* mutant: no silence check
Expired == state # "CONNECTED" \/ silence > Timeout

\* ikcp_update, ikcp_check, sleep: no state of this layer, but a send_to that
\* throws inside ikcp_update leaves the thread function.
BgUpdateThrows ==
    /\ bgPc = "check" /\ ~Expired
    /\ crash' = "sendThrew"
    /\ UNCHANGED <<state, freed, bgPc>>

BgClose ==
    /\ bgPc = "check" /\ Expired
    /\ state' = "DISCONNECTED"
    /\ bgPc' = "delete"
    /\ UNCHANGED <<freed, crash>>

\* `delete this` of an object made by make_shared: the allocator may abort.
BgDelete ==
    /\ bgPc = "delete"
    /\ freed' = TRUE
    /\ bgPc' = "done"
    /\ crash' \in {"none", "badDelete"}
    /\ UNCHANGED state

\* The io thread (through g_Clients) and the handler thread still use the
\* freed object; if they survive it they see its last contents.
UseAfterFree ==
    /\ crash = "none" /\ freed
    /\ crash' = "useAfterFree"
    /\ UNCHANGED <<clientVars, ioVars, liveVars, keyVars, packetQueue,
                   handlerVars, bgPc, historyVars>>

\* A second of silence; beyond Timeout the code does not tell seconds apart.
Tick ==
    /\ crash = "none" /\ silence <= Timeout
    /\ silence' = silence + 1
    /\ UNCHANGED <<clientVars, ioVars, state, freed, keyVars, packetQueue,
                   handlerVars, bgPc, crash, historyVars>>

-----------------------------------------------------------------------------
(* The threads, with what each of them never writes.                        *)

Client ==
    /\ crash = "none"
    /\ ClientReceive \/ \E kind \in Kinds : ClientSend(kind)
    /\ UNCHANGED <<ioVars, liveVars, keyVars, packetQueue, handlerVars, bgPc,
                   crash, historyVars>>

IoLeaves == <<sent, seen, orderly, state, freed, keyVars, handlerVars, bgPc>>

Datagram ==
    /\ crash = "none"
    /\ \E n \in 0..MaxBatch : n <= Len(wire) /\ IoInput(n)
    /\ UNCHANGED IoLeaves

IoStep ==
    /\ crash = "none"
    /\ IoRecv \/ IoDecrypt \/ IoPush \/ IoConstruct
    /\ UNCHANGED IoLeaves

Handler ==
    /\ crash = "none"
    /\ \/ HPoll \/ HQueueEmpty \/ HPop \/ HPopTornCrash \/ HNoHandler
       \/ HEmptyKey \/ HPing \/ HUseMT \/ HGenKey \/ HTokenRsp \/ HNotify \/ HLoginRsp
    /\ UNCHANGED <<clientVars, ioVars, liveVars, bgPc, lost, raced>>

Background ==
    /\ crash = "none"
    /\ BgUpdateThrows \/ BgClose \/ BgDelete
    /\ UNCHANGED <<clientVars, ioVars, silence, keyVars, packetQueue,
                   handlerVars, historyVars>>

Next ==
    \/ Client \/ Datagram \/ IoStep \/ Handler \/ Race
    \/ Background \/ UseAfterFree \/ Tick

Spec == Init /\ [][Next]_vars

\* The threads run and time passes; nothing obliges the client to talk, nor
\* ikcp_update to throw.
Fairness == /\ WF_vars(IoStep) /\ WF_vars(Handler) /\ WF_vars(Tick)
            /\ WF_vars(Background /\ ~UNCHANGED <<state, freed>>)

FairSpec == Spec /\ Fairness

-----------------------------------------------------------------------------
(* Properties                                                               *)

\* Type invariant: also that a session never becomes INACTIVE or ACTIVE.
TypeOK ==
    /\ sent \in Nat /\ wire \in Seq(Msg) /\ seen \in Nat /\ orderly \in BOOLEAN
    /\ ioPc \in {"idle", "recv", "decrypt", "push", "construct"}
    /\ ioMsg \in Msg /\ ioKey \in Keys /\ ready \in Seq(Msg)
    /\ state \in {"CONNECTED", "DISCONNECTED"}
    /\ silence \in 0..Timeout + 1 /\ freed \in BOOLEAN
    /\ useMT \in BOOLEAN /\ mtKey \in BOOLEAN
    /\ packetQueue \in Seq(Msg)
    /\ sessionState \in {"WAITING_FOR_TOKEN", "WAITING_FOR_LOGIN", "PICKING_CHARACTER"}
    /\ hPc \in {"poll", "pop", "ping", "useMT", "genKey", "tokenRsp", "notify",
               "noHandler", "stopped"}
    /\ cur \in Msg /\ burst \in 0..LoginBurst /\ outbox \in Seq(Reply)
    /\ bgPc \in {"check", "delete", "done"}
    /\ crash \in {"none", "emptyKey", "tornPacket", "noHandler", "sendThrew",
                 "badDelete", "useAfterFree"}
    /\ lost \subseteq Msg /\ garbled \in BOOLEAN /\ raced \in BOOLEAN

\* The messages past the client and not yet answered, oldest first.
InIo == IF ioPc \in {"decrypt", "push"} THEN <<ioMsg>> ELSE <<>>
Pipeline == <<cur>> \o Reverse(packetQueue) \o InIo \o ready \o wire

\* Requests are popped in the order the client sent them, each at most once:
\* push_front and pop_back make a FIFO of the deque, across three threads, as
\* long as they do not spoil its ends.
InOrder ==
    ~raced => \A i, j \in 1..Len(Pipeline) : i < j => Pipeline[i].id < Pipeline[j].id

\* No request disappears, as long as the deque's ends are right: each one sent is
\* answered, or still under way (the one in the handler's hands included), or was
\* thrown on by BasePacket because it was encrypted before the switch to the mt
\* key and read after.
NothingLost ==
    ~raced =>
        /\ \A n \in 1..sent :
            \/ \E i \in 1..Len(Pipeline) : Pipeline[i].id = n
            \/ \E i \in 1..Len(outbox) : outbox[i].req = n
            \/ \E m \in lost : m.id = n
        /\ \A m \in lost : m.key = "dispatch" /\ useMT

\* The key switch loses only in one direction: a request under the mt key is
\* never decrypted with the dispatch key, because ShouldUseMT turns true
\* before the response that gives the client its key leaves.
MtNeverReadAsDispatch ==
    ioPc = "decrypt" /\ ioMsg.key = "mt" => ioKey = "mt"

\* A thread divides by the size of an empty mt key, or is about to, only before
\* any response has left, and never for a client that waits for each reply, of
\* which no packet was misread: neither the io thread between SetUseMT and
\* GenerateMTKey, nor the handler thread whose replies are under that key.
EmptyKeyOnlyEarly ==
    crash = "emptyKey" \/ (ioPc = "decrypt" /\ ioKey = "mt" /\ ~mtKey)
        => outbox = <<>> /\ (orderly => garbled)

\* The replies of a session form a run of SessionProtocol, as long as the deque's
\* ends are right.
Protocol == INSTANCE SessionProtocol WITH
    MaxReq <- MaxMsgs, replies <- outbox
FollowsProtocol ==
    Protocol!Init /\ [][raced \/ Protocol!Next]_(Protocol!vars)

\* For a client that waits for each reply: the session loses no packet and its
\* handler refuses none, so only a failed send, the unlocked deque or the
\* deletion of the session can stop it.
OrderlyClientServed ==
    orderly /\ ~garbled =>
        /\ lost = {}
        /\ crash \notin {"emptyKey", "noHandler"}
        /\ hPc = "stopped" => state # "CONNECTED"

\* A session whose client falls silent is deleted.
SilentSessionEnds ==
    []<><<Datagram>>_vars \/ <>(freed \/ crash # "none")

\* A request KCP has delivered is read, even though each datagram leads to one
\* Recv only, provided the client keeps sending datagrams.
BacklogDrains ==
    []<><<Datagram>>_vars =>
        \A n \in 1..MaxMsgs :
            (\E i \in 1..Len(ready) : ready[i].id = n)
                ~> \/ ioMsg.id >= n
                   \/ freed \/ crash # "none"

==============================================================================
