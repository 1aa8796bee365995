------------------------------ MODULE GameServer ------------------------------
(***************************************************************************)
(* The UDP front of EyPS: GameServer::AsyncRec and ParsePacket, the table  *)
(* g_Clients, the handshake of Kcp::Input and the way a session ends.      *)
(* Datagrams and replies can be lost, duplicated and reordered; clients    *)
(* repeat their handshake until they are answered, and can restart.        *)
(* What the threads of one session do is GameSession.                      *)
(***************************************************************************)
EXTENDS Integers, FiniteSets, Functions

CONSTANTS
    Endpoints,      \* UDP endpoints of clients, records [ip, port]
    Word,           \* 2^32 in the code: address().to_uint() + port() wraps there
    Timeout,        \* seconds of silence a session survives (20 in the code)
    MaxClock,       \* bound of the model: seconds that pass
    MaxFailed       \* bound of the model: handshakes that are answered in vain

ASSUME GameServerAssumption ==
    /\ Word \in Nat \ {0}
    /\ Endpoints \subseteq [ip: 0..Word - 1, port: Nat]
    /\ Timeout \in Nat /\ MaxClock \in Nat /\ MaxFailed \in Nat

NoConv == 0         \* what a client knows before it is answered; a handshake
OldConv == 1        \* an id given by an earlier process, in an earlier second

VARIABLES
    clock,          \* time(0)
    known,          \* the conversation id each client works with
    net, replies,   \* datagrams to the server, handshake replies to clients
    clients,        \* g_Clients: key -> [peer, conv, last, open]
    listening,      \* the receive loop of AsyncRec has not ended
    crash,          \* "none", or what killed the process
    answered,       \* history: the endpoints of the handshakes replied to, by conv
    failed,         \* history: those of them whose Initialize threw after the reply
    accepted        \* history: <<session's key, sender>> of segments taken by KCP

clientVars == <<known, replies>>
history == <<answered, failed, accepted>>
vars == <<clock, clientVars, net, clients, listening, crash, history>>

KeyOf_NoWrap(ep) == ep.ip + ep.port               \* mutant: a wider sum
KeyOf_IpOnly(ep) == ep.ip                         \* mutant: the port left out

\* The key ParsePacket looks a sender up with.
KeyOf(ep) == (ep.ip + ep.port) % Word

Found_Open(ep) ==                                 \* mutant: a dead session is not found
    KeyOf(ep) \in DOMAIN clients /\ clients[KeyOf(ep)].open
Found(ep) == KeyOf(ep) \in DOMAIN clients

Init ==
    /\ clock = OldConv + 1
    /\ known \in [Endpoints -> {NoConv, OldConv}]
    /\ net = {} /\ replies = {}
    /\ clients = [key \in {} |-> NoConv]
    /\ listening = TRUE /\ crash = "none"
    /\ answered = {} /\ failed = {} /\ accepted = {}

-----------------------------------------------------------------------------
(* Clients and the network (not in this repository).                        *)

\* A client repeats its handshake until it knows a conversation id, then sends
\* KCP segments under it.
ClientSend(ep) ==
    /\ net' = net \cup {[from |-> ep, conv |-> known[ep]]}
    /\ UNCHANGED <<clock, clientVars, clients, listening, crash, history>>

ClientHear(reply) ==
    /\ known' = [known EXCEPT ![reply.to] = reply.conv]
    /\ replies' = replies \ {reply}
    /\ UNCHANGED <<clock, net, clients, listening, crash, history>>

ClientRestart(ep) ==
    /\ known' = [known EXCEPT ![ep] = NoConv]
    /\ UNCHANGED <<clock, net, replies, clients, listening, crash, history>>

Lose ==
    /\ \/ \E d \in net : net' = net \ {d} /\ UNCHANGED replies
       \/ \E r \in replies : replies' = replies \ {r} /\ UNCHANGED net
    /\ UNCHANGED <<clock, known, clients, listening, crash, history>>

-----------------------------------------------------------------------------
(* The server.  A datagram handled may stay in the network: a duplicate.    *)

\* async_receive_from throws outside the loop's reach: AsyncRec returns.
ReceiveFails ==
    /\ listening
    /\ listening' = FALSE
    /\ UNCHANGED <<clock, clientVars, net, clients, crash, history>>

\* Unknown key and Handshake::Decode succeeds: a Kcp in HANDSHAKE_WAIT answers
\* with a conversation id taken from the clock, then goes into the table.
Conv == clock

Accept(d) ==
    /\ d.conv = NoConv /\ ~Found(d.from)
    /\ replies' = replies \cup {[to |-> d.from, conv |-> Conv]}
    /\ answered' = answered \cup {[to |-> d.from, conv |-> Conv]}
    /\ clients' = [key \in DOMAIN clients \cup {KeyOf(d.from)} |->
                    IF key = KeyOf(d.from)
                    THEN [peer |-> d.from, conv |-> Conv, last |-> clock, open |-> TRUE]
                    ELSE clients[key]]
    /\ UNCHANGED <<crash, failed, accepted>>

\* send_to throws: no reply, no entry; ~Kcp releases a KCP that is not there.
AcceptFails(d) ==
    /\ d.conv = NoConv /\ ~Found(d.from)
    /\ crash' \in {crash, "releaseNull"}
    /\ UNCHANGED <<replies, clients, history>>

\* Initialize, called after send_to, cannot start one of its two threads: the
\* reply is out, and what is caught leaves no entry.
InitializeFails(d) ==
    /\ d.conv = NoConv /\ ~Found(d.from)
    /\ replies' = replies \cup {[to |-> d.from, conv |-> Conv]}
    /\ answered' = answered \cup {[to |-> d.from, conv |-> Conv]}
    /\ failed' = failed \cup {[to |-> d.from, conv |-> Conv]}
    /\ Cardinality(failed') <= MaxFailed
    /\ UNCHANGED <<clients, crash, accepted>>

\* If it was the second thread, the first, Background, runs on a Kcp that is
\* destroyed: it deletes it again, sooner or later.
OrphanDies ==
    /\ failed # {}
    /\ crash' = "useAfterFree"
    /\ UNCHANGED <<clock, clientVars, net, clients, listening, history>>

\* Unknown key and no handshake, from a client of an earlier process: it is
\* not told that its session is gone.
Ignore(d) ==
    /\ d.conv # NoConv /\ ~Found(d.from)
    /\ UNCHANGED <<replies, clients, crash, history>>

TakenBy_AnyConv(session, d) == TRUE               \* mutant: no check of the conv

\* ikcp_input of a session takes a segment of its own conversation; a handshake
\* is shorter than a segment's header.
TakenBy(session, d) == d.conv = session.conv

\* Known key: Kcp::Input, which notes the time before anything else.
Input(d) ==
    LET key == KeyOf(d.from) IN
    /\ Found(d.from) /\ clients[key].open
    /\ clients' = [clients EXCEPT ![key].last = clock]
    /\ accepted' = accepted \cup
         (IF TakenBy(clients[key], d) THEN {<<key, d.from>>} ELSE {})
    /\ UNCHANGED <<replies, crash, answered, failed>>

\* Known key whose Kcp is deleted: freed memory, whose last state ignores input.
InputFreed(d) ==
    /\ Found(d.from) /\ ~clients[KeyOf(d.from)].open
    /\ crash' \in {crash, "useAfterFree"}
    /\ UNCHANGED <<replies, clients, history>>

ParsePacket(d) ==
    /\ listening
    /\ net' \in {net, net \ {d}}
    /\ \/ Accept(d) \/ AcceptFails(d) \/ InitializeFails(d)
       \/ Ignore(d) \/ Input(d) \/ InputFreed(d)
    /\ UNCHANGED <<clock, known, listening>>

\* The session's Background thread: `delete this`, with the entry left behind;
\* the allocator may abort on the pointer.
Expire(key) ==
    /\ clients[key].open /\ clock - clients[key].last > Timeout
    /\ clients' = [clients EXCEPT ![key].open = FALSE]
    /\ crash' \in {crash, "badDelete"}
    /\ UNCHANGED <<clock, clientVars, net, listening, history>>

Tick ==
    /\ clock < MaxClock
    /\ clock' = clock + 1
    /\ UNCHANGED <<clientVars, net, clients, listening, crash, history>>

Next ==
    /\ crash = "none"
    /\ \/ \E ep \in Endpoints : ClientSend(ep) \/ ClientRestart(ep)
       \/ \E r \in replies : ClientHear(r)
       \/ Lose
       \/ \E d \in net : ParsePacket(d)
       \/ \E key \in DOMAIN clients : Expire(key)
       \/ OrphanDies \/ ReceiveFails \/ Tick

Spec == Init /\ [][Next]_vars

\* Clients go on sending, and of the datagrams a client sends over and over one
\* gets through and its session is set up.
Fairness ==
    \A ep \in Endpoints :
        /\ WF_vars(crash = "none" /\ ClientSend(ep))
        /\ SF_vars(/\ crash = "none"
                   /\ \E d \in net : d.from = ep /\ ParsePacket(d)
                   /\ DOMAIN clients' # DOMAIN clients)

FairSpec == Spec /\ Fairness

-----------------------------------------------------------------------------
(* Properties                                                               *)

Datagram == [from: Endpoints, conv: Nat]
HandshakeReply == [to: Endpoints, conv: Nat \ {NoConv, OldConv}]
Session == [peer: Endpoints, conv: Nat \ {NoConv, OldConv}, last: Nat, open: BOOLEAN]

\* Type invariant; a key is a word.
TypeOK ==
    /\ clock \in Nat \ {NoConv, OldConv}
    /\ known \in [Endpoints -> Nat]
    /\ net \subseteq Datagram /\ replies \subseteq HandshakeReply
    /\ DOMAIN clients \subseteq 0..Word - 1
    /\ clients \in [DOMAIN clients -> Session]
    /\ listening \in BOOLEAN
    /\ crash \in {"none", "releaseNull", "useAfterFree", "badDelete"}
    /\ answered \subseteq HandshakeReply /\ failed \subseteq answered
    /\ accepted \subseteq (0..Word - 1) \X Endpoints

\* One handshake is answered per key and process, whatever is duplicated,
\* repeated after a lost reply or sent again by a restarted client, but for
\* those whose session could not be set up: g_Clients never loses an entry, not
\* even when its session is deleted.
AnsweredOnce ==
    \A a, b \in answered \ failed : KeyOf(a.to) = KeyOf(b.to) => a = b

\* A session is found under the key of a client that was told its id, and a
\* client that was told an id has that session, unless Initialize threw between
\* the reply and the entry: it then works with an id no session has.
EntryIffAnswered ==
    /\ \A key \in DOMAIN clients :
        /\ KeyOf(clients[key].peer) = key
        /\ [to |-> clients[key].peer, conv |-> clients[key].conv] \in answered
    /\ \A a \in answered \ failed :
        /\ KeyOf(a.to) \in DOMAIN clients
        /\ clients[KeyOf(a.to)].peer = a.to
        /\ clients[KeyOf(a.to)].conv = a.conv

\* KCP takes segments only from the client the session was opened for, even
\* when the sum of another client's address and port is the same key.  The one
\* exception is a client that was told the same id in the same second, in vain.
SegmentsFromPeerOnly ==
    \A pair \in accepted :
        /\ pair[1] \in DOMAIN clients
        /\ \/ clients[pair[1]].peer = pair[2]
           \/ [to |-> pair[2], conv |-> clients[pair[1]].conv] \in failed

HasSession(ep) == \E key \in DOMAIN clients : clients[key].peer = ep

\* Clients whose keys differ and that go on asking (a client that was told an
\* id of no session asks again only when it is restarted) all get a session, if
\* the receive loop and the process survive, however many datagrams are lost
\* and however many replies or sessions fail.
EveryoneAnswered ==
    \A ep \in Endpoints :
        []<>(known[ep] = NoConv) => <>(HasSession(ep) \/ ~listening \/ crash # "none")

==============================================================================
