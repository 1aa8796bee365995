--------------------------- MODULE GameServerProofs ---------------------------
(* Proofs about GameServer, for any endpoints, addresses that collide in      *)
(* g_Clients included, any timeout and any number of seconds.                 *)
EXTENDS GameServer, TLAPS

\* Every conversation id a client can hold of this process was given to it in
\* a handshake reply (an older one is no session's), and each reply but those
\* in vain stands for the table entry of its key, which is never replaced.
HeldBy(ep, conv) ==
    conv \in {NoConv, OldConv} \/ [to |-> ep, conv |-> conv] \in answered

ServerInv ==
    /\ TypeOK
    /\ \A ep \in Endpoints : HeldBy(ep, known[ep])
    /\ \A d \in net : HeldBy(d.from, d.conv)
    /\ replies \subseteq answered
    /\ EntryIffAnswered
    /\ SegmentsFromPeerOnly

LEMMA KeyIsWord ==
    ASSUME NEW ep \in Endpoints
    PROVE  KeyOf(ep) \in 0..Word - 1
<1>1. ep.ip \in Nat /\ ep.port \in Nat
  BY GameServerAssumption
<1>2. ep.ip + ep.port \in Nat /\ Word \in Nat \ {0}
  BY <1>1, GameServerAssumption
<1> QED
  BY <1>2 DEF KeyOf

LEMMA ServerInit == Init => ServerInv
BY DEF Init, ServerInv, TypeOK, HeldBy, NoConv, OldConv, EntryIffAnswered,
       SegmentsFromPeerOnly

\* A new entry keeps the others, and its key was free.
LEMMA AcceptStep ==
    ASSUME ServerInv, NEW d \in net, ParsePacket(d), Accept(d)
    PROVE  ServerInv'
<1> DEFINE key == KeyOf(d.from)
           reply == [to |-> d.from, conv |-> clock]
           session == [peer |-> d.from, conv |-> clock, last |-> clock, open |-> TRUE]
<1>1. d.from \in Endpoints /\ key \in 0..Word - 1 /\ key \notin DOMAIN clients
  BY KeyIsWord DEF ServerInv, TypeOK, Accept, Found, Datagram
<1>2. reply \in HandshakeReply /\ session \in Session
  BY <1>1 DEF ServerInv, TypeOK, HandshakeReply, Session
<1>3. /\ replies' = replies \cup {reply} /\ answered' = answered \cup {reply}
      /\ UNCHANGED <<clock, known, listening, crash, failed, accepted>>
      /\ net' \subseteq net
  BY DEF Accept, ParsePacket, Conv
<1>4. /\ DOMAIN clients' = DOMAIN clients \cup {key}
      /\ clients'[key] = session
      /\ \A k \in DOMAIN clients : clients'[k] = clients[k]
      /\ clients' = [k \in DOMAIN clients' |-> clients'[k]]
  BY <1>1 DEF Accept, Conv
<1> HIDE DEF key, reply, session
<1>5. TypeOK'
  BY <1>1, <1>2, <1>3, <1>4 DEF ServerInv, TypeOK
<1>6. /\ \A ep \in Endpoints : HeldBy(ep, known[ep])'
      /\ \A e \in net' : HeldBy(e.from, e.conv)'
      /\ replies' \subseteq answered'
  BY <1>3 DEF ServerInv, HeldBy
<1>7. EntryIffAnswered'
  <2>1. /\ reply.to = d.from /\ reply.conv = clock
        /\ session.peer = d.from /\ session.conv = clock
        /\ reply = [to |-> session.peer, conv |-> session.conv]
    BY DEF reply, session
  <2>2. ASSUME NEW k \in DOMAIN clients'
        PROVE  /\ KeyOf(clients'[k].peer) = k
               /\ [to |-> clients'[k].peer, conv |-> clients'[k].conv] \in answered'
    <3>1. CASE k = key
      BY <1>3, <1>4, <2>1, <3>1 DEF key
    <3>2. CASE k \in DOMAIN clients
      BY <1>3, <1>4, <3>2 DEF ServerInv, EntryIffAnswered
    <3> QED
      BY <1>4, <3>1, <3>2
  <2>3. ASSUME NEW a \in answered' \ failed'
        PROVE  /\ KeyOf(a.to) \in DOMAIN clients'
               /\ clients'[KeyOf(a.to)].peer = a.to
               /\ clients'[KeyOf(a.to)].conv = a.conv
    <3>1. CASE a = reply
      BY <1>4, <2>1, <3>1 DEF key
    <3>2. CASE a \in answered
      BY <1>3, <1>4, <3>2 DEF ServerInv, EntryIffAnswered
    <3> QED
      BY <1>3, <3>1, <3>2
  <2> QED
    BY <2>2, <2>3 DEF EntryIffAnswered
<1>8. SegmentsFromPeerOnly'
  BY <1>3, <1>4 DEF ServerInv, SegmentsFromPeerOnly
<1> QED
  BY <1>5, <1>6, <1>7, <1>8 DEF ServerInv

\* A handshake answered in vain adds a reply and no entry.
LEMMA InitializeFailsStep ==
    ASSUME ServerInv, NEW d \in net, ParsePacket(d), InitializeFails(d)
    PROVE  ServerInv'
<1> DEFINE reply == [to |-> d.from, conv |-> clock]
<1>1. d.from \in Endpoints
  BY DEF ServerInv, TypeOK, Datagram
<1>2. reply \in HandshakeReply
  BY <1>1 DEF ServerInv, TypeOK, HandshakeReply
<1>3. /\ replies' = replies \cup {reply} /\ answered' = answered \cup {reply}
      /\ failed' = failed \cup {reply}
      /\ UNCHANGED <<clock, known, listening, clients, crash, accepted>>
      /\ net' \subseteq net
  BY DEF InitializeFails, ParsePacket, Conv
<1> HIDE DEF reply
<1>4. TypeOK'
  BY <1>2, <1>3 DEF ServerInv, TypeOK
<1>5. /\ \A ep \in Endpoints : HeldBy(ep, known[ep])'
      /\ \A e \in net' : HeldBy(e.from, e.conv)'
      /\ replies' \subseteq answered'
  BY <1>3 DEF ServerInv, HeldBy
<1>6. EntryIffAnswered'
  BY <1>3 DEF ServerInv, EntryIffAnswered
<1>7. SegmentsFromPeerOnly'
  BY <1>3 DEF ServerInv, SegmentsFromPeerOnly
<1> QED
  BY <1>4, <1>5, <1>6, <1>7 DEF ServerInv

\* A segment KCP takes carries the conv of the session, which only the peer of
\* the session was ever given, or a client answered in vain.
LEMMA InputStep ==
    ASSUME ServerInv, NEW d \in net, ParsePacket(d), Input(d)
    PROVE  ServerInv'
<1> DEFINE key == KeyOf(d.from)
<1>1. d.from \in Endpoints /\ key \in DOMAIN clients /\ clients[key] \in Session
  BY DEF ServerInv, TypeOK, Datagram, Input, Found
<1>2. /\ DOMAIN clients' = DOMAIN clients
      /\ \A k \in DOMAIN clients : /\ clients'[k].peer = clients[k].peer
                                   /\ clients'[k].conv = clients[k].conv
                                   /\ clients'[k] \in Session
      /\ clients' = [k \in DOMAIN clients' |-> clients'[k]]
  <2>1. clients' = [clients EXCEPT ![key].last = clock]
    BY DEF Input
  <2>2. \A k \in DOMAIN clients : clients[k] \in Session
    BY DEF ServerInv, TypeOK
  <2>3. clock \in Nat
    BY DEF ServerInv, TypeOK
  <2> HIDE DEF key
  <2> QED
    BY <1>1, <2>1, <2>2, <2>3 DEF Session, ServerInv, TypeOK
<1>3. /\ UNCHANGED <<clock, known, replies, listening, crash, answered, failed>>
      /\ net' \subseteq net
  BY DEF Input, ParsePacket
<1>4. accepted' = accepted \/ (accepted' = accepted \cup {<<key, d.from>>}
                               /\ TakenBy(clients[key], d))
  BY DEF Input
<1>5. ASSUME TakenBy(clients[key], d)
      PROVE  \/ clients[key].peer = d.from
             \/ [to |-> d.from, conv |-> clients[key].conv] \in failed
  <2>1. d.conv = clients[key].conv /\ d.conv \notin {NoConv, OldConv}
    BY <1>1, <1>5 DEF Session, TakenBy
  <2>2. [to |-> d.from, conv |-> d.conv] \in answered
    BY <2>1 DEF ServerInv, HeldBy
  <2> QED
    BY <2>1, <2>2 DEF ServerInv, EntryIffAnswered
<1>6. key \in 0..Word - 1
  BY <1>1, KeyIsWord
<1> HIDE DEF key
<1>7. SegmentsFromPeerOnly'
  <2> SUFFICES ASSUME NEW pair \in accepted'
               PROVE  /\ pair[1] \in DOMAIN clients'
                      /\ \/ clients'[pair[1]].peer = pair[2]
                         \/ [to |-> pair[2], conv |-> clients'[pair[1]].conv] \in failed'
    BY DEF SegmentsFromPeerOnly
  <2>1. CASE pair \in accepted
    BY <1>2, <1>3, <2>1 DEF ServerInv, SegmentsFromPeerOnly
  <2>2. CASE pair = <<key, d.from>> /\ TakenBy(clients[key], d)
    BY <1>1, <1>2, <1>3, <1>5, <2>2
  <2> QED
    BY <1>4, <2>1, <2>2
<1>8. TypeOK'
  BY <1>1, <1>2, <1>3, <1>4, <1>6 DEF ServerInv, TypeOK
<1>9. /\ \A ep \in Endpoints : HeldBy(ep, known[ep])'
      /\ \A e \in net' : HeldBy(e.from, e.conv)'
      /\ replies' \subseteq answered'
  BY <1>3 DEF ServerInv, HeldBy
<1>10. EntryIffAnswered'
  BY <1>2, <1>3 DEF ServerInv, EntryIffAnswered
<1> QED
  BY <1>7, <1>8, <1>9, <1>10 DEF ServerInv

LEMMA ParsePacketStep ==
    ASSUME ServerInv, NEW d \in net, ParsePacket(d)
    PROVE  ServerInv'
<1>1. CASE AcceptFails(d) \/ Ignore(d) \/ InputFreed(d)
  BY <1>1 DEF ParsePacket, AcceptFails, Ignore, InputFreed, history, ServerInv,
              TypeOK, HeldBy, EntryIffAnswered, SegmentsFromPeerOnly
<1> QED
  BY <1>1, AcceptStep, InitializeFailsStep, InputStep DEF ParsePacket

LEMMA ExpireStep ==
    ASSUME ServerInv, NEW key \in DOMAIN clients, Expire(key)
    PROVE  ServerInv'
<1>1. /\ DOMAIN clients' = DOMAIN clients
      /\ \A k \in DOMAIN clients : /\ clients'[k].peer = clients[k].peer
                                   /\ clients'[k].conv = clients[k].conv
                                   /\ clients'[k] \in Session
      /\ clients' = [k \in DOMAIN clients' |-> clients'[k]]
  <2>1. clients' = [clients EXCEPT ![key].open = FALSE]
    BY DEF Expire
  <2>2. \A k \in DOMAIN clients : clients[k] \in Session
    BY DEF ServerInv, TypeOK
  <2> QED
    BY <2>1, <2>2 DEF Session, ServerInv, TypeOK
<1>2. UNCHANGED <<clock, known, replies, net, listening, history>>
  BY DEF Expire, clientVars
<1>3. crash' \in {"none", "releaseNull", "useAfterFree", "badDelete"}
  BY DEF Expire, ServerInv, TypeOK
<1>4. TypeOK'
  BY <1>1, <1>2, <1>3 DEF history, ServerInv, TypeOK
<1> QED
  BY <1>1, <1>2, <1>4 DEF history, ServerInv, HeldBy, EntryIffAnswered,
                          SegmentsFromPeerOnly

LEMMA ClientStep ==
    ASSUME ServerInv,
           \/ \E ep \in Endpoints : ClientSend(ep) \/ ClientRestart(ep)
           \/ \E r \in replies : ClientHear(r)
    PROVE  ServerInv'
<1>1. ASSUME NEW ep \in Endpoints, ClientSend(ep)
      PROVE  ServerInv'
  <2>1. [from |-> ep, conv |-> known[ep]] \in Datagram
    BY DEF ServerInv, TypeOK, Datagram
  <2>2. HeldBy(ep, known[ep])
    BY DEF ServerInv
  <2> QED
    BY <1>1, <2>1, <2>2 DEF ClientSend, clientVars, history, ServerInv, TypeOK,
                            HeldBy, EntryIffAnswered, SegmentsFromPeerOnly
<1>2. ASSUME NEW ep \in Endpoints, ClientRestart(ep)
      PROVE  ServerInv'
  BY <1>2 DEF ClientRestart, history, ServerInv, TypeOK, HeldBy, NoConv,
              EntryIffAnswered, SegmentsFromPeerOnly
<1>3. ASSUME NEW r \in replies, ClientHear(r)
      PROVE  ServerInv'
  <2>1. r \in answered /\ r.to \in Endpoints /\ r.conv \in Nat
        /\ r = [to |-> r.to, conv |-> r.conv]
    BY DEF ServerInv, TypeOK, HandshakeReply
  <2>2. \A ep \in Endpoints : HeldBy(ep, known[ep])'
    BY <1>3, <2>1 DEF ClientHear, history, ServerInv, TypeOK, HeldBy
  <2>3. known' \in [Endpoints -> Nat] /\ replies' \subseteq replies
    BY <1>3, <2>1 DEF ClientHear, history, ServerInv, TypeOK
  <2> QED
    BY <1>3, <2>2, <2>3 DEF ClientHear, history, ServerInv, TypeOK, HeldBy,
                            EntryIffAnswered, SegmentsFromPeerOnly
<1> QED
  BY <1>1, <1>2, <1>3

LEMMA ServerStep == ServerInv /\ [Next]_vars => ServerInv'
<1> SUFFICES ASSUME ServerInv, [Next]_vars PROVE ServerInv'
  OBVIOUS
<1>1. CASE Lose \/ ReceiveFails \/ OrphanDies
  BY <1>1 DEF Lose, ReceiveFails, OrphanDies, clientVars, history, ServerInv,
              TypeOK, HeldBy, EntryIffAnswered, SegmentsFromPeerOnly
<1>2. CASE Tick
  BY <1>2 DEF Tick, clientVars, history, ServerInv, TypeOK, HeldBy,
              EntryIffAnswered, SegmentsFromPeerOnly, NoConv, OldConv
<1>3. CASE UNCHANGED vars
  BY <1>3 DEF vars, clientVars, history, ServerInv, TypeOK, HeldBy,
              EntryIffAnswered, SegmentsFromPeerOnly
<1> QED
  BY <1>1, <1>2, <1>3, ClientStep, ParsePacketStep, ExpireStep DEF Next

LEMMA ServerCorrect == Spec => []ServerInv
BY ServerInit, ServerStep, PTL DEF Spec

\* Keys of g_Clients stay words, and its entries and the network hold only
\* clients there are.
THEOREM TypeCorrect == Spec => []TypeOK
BY ServerCorrect, PTL DEF ServerInv

\* ParsePacket and ikcp_input: KCP takes segments only from the client its
\* session was opened for, even when addresses and ports collide in g_Clients;
\* or from one that was told the very same id before its Initialize threw.
THEOREM SegmentsFromPeer == Spec => []SegmentsFromPeerOnly
BY ServerCorrect, PTL DEF ServerInv

\* ParsePacket sets up a session for at most one of the handshakes it answers
\* for a key of g_Clients.
THEOREM HandshakeOnce == Spec => []AnsweredOnce
<1>1. ServerInv => AnsweredOnce
  BY DEF ServerInv, AnsweredOnce, EntryIffAnswered, TypeOK, HandshakeReply
<1> QED
  BY <1>1, ServerCorrect, PTL

\* An entry of g_Clients stands under the key of a client that was told its id,
\* and every reply has its entry but for those whose Initialize threw.
THEOREM EntryForReply == Spec => []EntryIffAnswered
BY ServerCorrect, PTL DEF ServerInv

==============================================================================
