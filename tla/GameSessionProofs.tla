-------------------------- MODULE GameSessionProofs --------------------------
(***************************************************************************)
(* Proofs about GameSession, for every client, bound and timeout.          *)
(*                                                                         *)
(* First its types and its key switch.  Then the order of a session's      *)
(* requests and of its replies: the deque that the io thread fills and the *)
(* handler thread empties is a FIFO that loses nothing but what the key    *)
(* switch makes unreadable, as long as the two threads have not spoilt its *)
(* ends.  So far, too, GameSession implements SessionProtocol: what a      *)
(* client receives is one token response, then pings and one uninterrupted *)
(* login burst, answering requests in the order sent.  Last, the client    *)
(* that waits for each reply, and when the empty mt key can be met.        *)
(***************************************************************************)
EXTENDS GameSession, TLAPS

LEMMA FrontInSeq ==
    ASSUME NEW S, NEW s \in Seq(S), s # <<>>
    PROVE  /\ Front(s) \in Seq(S)
           /\ Last(s) \in S
BY DEF Front, Last

\* Every packet of the login burst is one of the packets a session sends.
LEMMA NotifyInReplyIds ==
    ASSUME NEW n \in 0..4
    PROVE  LoginNotifies[n + 1] \in ReplyIds
BY DEF LoginNotifies, ReplyIds

LEMMA BurstLengths == Len(LoginNotifies) = 5 /\ LoginBurst = 6
BY DEF LoginNotifies, LoginBurst

-----------------------------------------------------------------------------
(* Type correctness.                                                         *)

LEMMA TypeInit == Init => TypeOK
<1> SUFFICES ASSUME Init PROVE TypeOK
  OBVIOUS
<1>1. NoMsg \in Msg /\ "dispatch" \in Keys
  BY DEF NoMsg, Msg, Kinds, Keys
<1>2. 0 \in 0..Timeout + 1 /\ 0 \in 0..LoginBurst
  BY GameSessionAssumption, BurstLengths
<1>3. \A S : <<>> \in Seq(S)
  OBVIOUS
<1> QED
  BY <1>1, <1>2, <1>3 DEF Init, TypeOK

LEMMA TypeClient ==
    ASSUME TypeOK, Client
    PROVE  TypeOK'
<1>1. CASE ClientReceive
  BY <1>1 DEF TypeOK, Client, ClientReceive, ioVars, liveVars, keyVars,
              handlerVars, historyVars
<1>2. ASSUME NEW kind \in Kinds, ClientSend(kind)
      PROVE  TypeOK'
  <2>1. [id |-> sent + 1, kind |-> kind, key |-> ClientKey] \in Msg
    BY DEF TypeOK, Msg, ClientKey, Keys
  <2> HIDE DEF Msg, ClientKey
  <2> QED
    BY <1>2, <2>1 DEF TypeOK, Client, ClientSend, ioVars, liveVars, keyVars,
                      handlerVars, historyVars
<1> QED
  BY <1>1, <1>2 DEF Client

LEMMA TypeDatagram ==
    ASSUME TypeOK, Datagram
    PROVE  TypeOK'
<1> PICK n \in 0..MaxBatch : n <= Len(wire) /\ IoInput(n)
  BY DEF Datagram
<1>1. n \in Nat
  BY GameSessionAssumption
<1>2. SubSeq(wire, 1, n) \in Seq(Msg) /\ SubSeq(wire, n + 1, Len(wire)) \in Seq(Msg)
  BY <1>1 DEF TypeOK
<1>3. ready' \in Seq(Msg) /\ wire' \in Seq(Msg)
  <2>1. CASE state = "CONNECTED"
    <3>1. ready' = ready \o SubSeq(wire, 1, n) /\ wire' = SubSeq(wire, n + 1, Len(wire))
      BY <2>1 DEF IoInput
    <3>2. ready \o SubSeq(wire, 1, n) \in Seq(Msg)
      BY <1>2 DEF TypeOK
    <3> QED
      BY <1>2, <3>1, <3>2
  <2>2. CASE state # "CONNECTED"
    BY <2>2 DEF TypeOK, IoInput
  <2> QED
    BY <2>1, <2>2
<1>4. silence' \in 0..Timeout + 1
  BY GameSessionAssumption DEF IoInput
<1> QED
  BY <1>3, <1>4 DEF TypeOK, Datagram, IoInput, IoLeaves, keyVars, handlerVars,
                    historyVars

LEMMA TypeIoStep ==
    ASSUME TypeOK, IoStep
    PROVE  TypeOK'
<1> USE DEF TypeOK, IoStep, IoLeaves, keyVars, handlerVars, historyVars
<1>1. CASE IoRecv
  <2>1. ready # <<>> => Head(ready) \in Msg /\ Tail(ready) \in Seq(Msg)
    OBVIOUS
  <2>2. DecryptKey \in Keys
    BY DEF DecryptKey, Keys
  <2>3. CASE Readable
    <3>1. /\ ioMsg' \in Msg /\ ready' \in Seq(Msg)
          /\ ioKey' \in Keys /\ ioPc' = "decrypt"
      BY <1>1, <2>1, <2>2, <2>3 DEF IoRecv, Readable
    <3> QED
      BY <1>1, <3>1 DEF IoRecv
  <2>4. CASE ~Readable
    BY <1>1, <2>4 DEF IoRecv
  <2> QED
    BY <2>3, <2>4
<1>2. CASE IoDecrypt
  <2>1. \A kind \in Kinds : [ioMsg EXCEPT !.kind = kind] \in Msg
    BY DEF Msg
  <2>2. ioMsg' \in Msg
    BY <1>2, <2>1 DEF IoDecrypt
  <2>3. lost' \subseteq Msg /\ garbled' \in BOOLEAN
    BY <1>2 DEF IoDecrypt
  <2>4. ioPc' \in {"decrypt", "push", "idle"} /\ crash' \in {"none", "emptyKey"}
    BY <1>2 DEF IoDecrypt
  <2> QED
    BY <1>2, <2>2, <2>3, <2>4 DEF IoDecrypt
<1>3. CASE IoPush
  BY <1>3 DEF IoPush, Pushed
<1>4. CASE IoConstruct
  BY <1>4 DEF IoConstruct
<1> QED
  BY <1>1, <1>2, <1>3, <1>4

\* What a Send leaves in place of the types it can disturb.
LEMMA TypeSend ==
    ASSUME TypeOK, NEW id \in ReplyIds, NEW key \in Keys, NEW next,
           Send(id, key, next), crash = "none"
    PROVE  /\ outbox' \in Seq(Reply)
           /\ hPc' \in {hPc, next}
           /\ crash' \in {"none", "sendThrew"}
<1>1. [id |-> id, key |-> key, req |-> cur.id] \in Reply
  BY DEF TypeOK, Reply, Msg
<1> QED
  BY <1>1 DEF TypeOK, Send

LEMMA TypeHandler ==
    ASSUME TypeOK, Handler
    PROVE  TypeOK'
<1> USE DEF TypeOK, Handler, clientVars, ioVars, liveVars, keyVars
<1>0. /\ {"PingRsp", "GetPlayerTokenRsp"} \subseteq ReplyIds
      /\ {"mt", "dispatch"} \subseteq Keys
  BY DEF ReplyIds, Keys
<1>1. CASE HPoll \/ HQueueEmpty
  BY <1>1 DEF HPoll, HQueueEmpty
<1>2. CASE HPop
  <2>1. PICK kind \in Kinds :
           /\ cur' = [Last(packetQueue) EXCEPT !.kind = kind]
           /\ hPc' = IF Gate(kind) THEN HandlerOf(kind) ELSE "stopped"
    BY <1>2 DEF HPop, Take
  <2>2. Last(packetQueue) \in Msg /\ Front(packetQueue) \in Seq(Msg)
    BY <1>2, FrontInSeq DEF HPop, Take, HasPacket
  <2>3. cur' \in Msg
    BY <2>1, <2>2 DEF Msg
  <2>4. hPc' \in {"ping", "useMT", "notify", "noHandler", "stopped"}
    BY <2>1 DEF HandlerOf
  <2> QED
    BY <1>2, <2>2, <2>3, <2>4 DEF HPop, Take
<1>3. CASE HPopTornCrash \/ HNoHandler \/ HEmptyKey
  BY <1>3 DEF HPopTornCrash, HNoHandler, HEmptyKey, handlerVars
<1>4. CASE HPing
  <2>1. Send("PingRsp", "mt", "pop")
    BY <1>4 DEF HPing
  <2> QED
    BY <1>0, <1>4, <2>1, TypeSend DEF HPing
<1>5. CASE HUseMT \/ HGenKey
  <2>1. CASE HUseMT
    BY <2>1 DEF HUseMT
  <2>2. CASE HGenKey
    BY <2>2 DEF HGenKey
  <2> QED
    BY <1>5, <2>1, <2>2
<1>6. CASE HTokenRsp
  <2>1. Send("GetPlayerTokenRsp", "dispatch", "pop")
    BY <1>6 DEF HTokenRsp
  <2> QED
    BY <1>0, <1>6, <2>1, TypeSend DEF HTokenRsp
<1>7. CASE HNotify
  <2>1. burst \in 0..4
    BY <1>7, BurstLengths DEF HNotify
  <2>2. Send(LoginNotifies[burst + 1], "mt", "notify")
    BY <1>7 DEF HNotify
  <2>3. burst' \in 0..LoginBurst
    BY <1>7, <2>1, BurstLengths DEF HNotify
  <2>4. LoginNotifies[burst + 1] \in ReplyIds
    BY <2>1, NotifyInReplyIds
  <2> QED
    BY <1>0, <1>7, <2>2, <2>3, <2>4, TypeSend DEF HNotify
<1>8. CASE HLoginRsp
  <2>1. Send("GetPlayerTokenRsp", "dispatch", "pop")
    BY <1>8 DEF HLoginRsp
  <2>2. burst' \in 0..LoginBurst
    BY <1>8, BurstLengths DEF HLoginRsp
  <2> QED
    BY <1>0, <1>8, <2>1, <2>2, TypeSend DEF HLoginRsp
<1> HIDE DEF TypeOK
<1> QED
  BY <1>1, <1>2, <1>3, <1>4, <1>5, <1>6, <1>7, <1>8

LEMMA TypeRace ==
    ASSUME TypeOK, Race
    PROVE  TypeOK'
<1>1. /\ Take(Last(packetQueue).kind) /\ packetQueue \in Seq(Msg) /\ packetQueue # <<>>
      /\ packetQueue' = packetQueue \/ packetQueue' = <<>>
  BY DEF TypeOK, Race, Overlap, HasPacket
<1>2. Last(packetQueue) \in Msg
  BY <1>1, FrontInSeq
<1>3. cur' \in Msg
  BY <1>1, <1>2 DEF Take, Msg
<1>4. packetQueue' \in Seq(Msg)
  <2>1. \A S : <<>> \in Seq(S)
    OBVIOUS
  <2>2. packetQueue' = packetQueue \/ packetQueue' = <<>>
    BY <1>1
  <2> QED
    BY <1>1, <2>1, <2>2, Zenon
<1>5. hPc' \in {"ping", "useMT", "notify", "noHandler", "stopped"}
  BY <1>1 DEF Take, HandlerOf
<1> QED
  BY <1>3, <1>4, <1>5 DEF TypeOK, Race, Take, clientVars, ioVars, liveVars, keyVars

LEMMA TypeStep == TypeOK /\ [Next]_vars => TypeOK'
<1> SUFFICES ASSUME TypeOK, [Next]_vars PROVE TypeOK'
  OBVIOUS
<1>1. CASE Background
  <2>1. /\ state' \in {"CONNECTED", "DISCONNECTED"} /\ freed' \in BOOLEAN
        /\ bgPc' \in {"check", "delete", "done"}
        /\ crash' \in {"none", "sendThrew", "badDelete"}
    BY <1>1 DEF TypeOK, Background, BgUpdateThrows, BgClose, BgDelete
  <2> QED
    BY <1>1, <2>1 DEF TypeOK, Background, clientVars, ioVars, keyVars,
                      handlerVars, historyVars
<1>2. CASE UseAfterFree
  BY <1>2 DEF TypeOK, UseAfterFree, clientVars, ioVars, liveVars, keyVars,
              handlerVars, historyVars
<1>3. CASE Tick
  BY <1>3, GameSessionAssumption DEF TypeOK, Tick, clientVars, ioVars, keyVars,
              handlerVars, historyVars
<1>4. CASE UNCHANGED vars
  BY <1>4 DEF TypeOK, vars, clientVars, ioVars, liveVars, keyVars, handlerVars,
              historyVars
<1> QED
  BY <1>1, <1>2, <1>3, <1>4, TypeClient, TypeDatagram, TypeIoStep, TypeHandler, TypeRace
     DEF Next

\* A session's state keeps its type; in particular no step makes a session
\* INACTIVE or ACTIVE (PacketQueueHandler and the packet handlers).
THEOREM TypeCorrect == Spec => []TypeOK
BY TypeInit, TypeStep, PTL DEF Spec

-----------------------------------------------------------------------------
(* The key switch.                                                           *)

\* Once the token handler has generated the key it is never taken back, and
\* both a reply out and a session past the token stand for it.
KeyMade ==
    /\ mtKey => useMT
    /\ hPc = "genKey" => useMT
    /\ useMT /\ ~mtKey => hPc = "genKey"
    /\ hPc \in {"tokenRsp", "notify"} => mtKey
    /\ sessionState # "WAITING_FOR_TOKEN" => mtKey
    /\ outbox # <<>> => mtKey
    /\ seen <= Len(outbox)

\* A request under the mt key stands for SetUseMT, which came before the reply
\* that gave the client its key.
MtImpliesSwitch ==
    /\ \A i \in 1..Len(wire) : wire[i].key = "mt" => useMT
    /\ \A i \in 1..Len(ready) : ready[i].key = "mt" => useMT
    /\ ioPc = "decrypt" /\ ioMsg.key = "mt" => ioKey = "mt"

KeyInv == KeyMade /\ MtImpliesSwitch

LEMMA KeyInit == Init => KeyInv
BY DEF Init, KeyInv, KeyMade, MtImpliesSwitch

LEMMA KeyClient ==
    ASSUME TypeOK, KeyInv, Client
    PROVE  KeyInv'
<1> USE DEF KeyInv
<1>1. CASE ClientReceive
  <2>1. seen' <= Len(outbox')
    BY <1>1 DEF TypeOK, Client, ClientReceive, handlerVars
  <2> QED
    BY <1>1, <2>1 DEF KeyMade, MtImpliesSwitch, Client, ClientReceive, ioVars,
                      keyVars, handlerVars
<1>2. ASSUME NEW kind \in Kinds, ClientSend(kind)
      PROVE  KeyInv'
  <2> DEFINE m == [id |-> sent + 1, kind |-> kind, key |-> ClientKey]
  <2>1. m.key = "mt" => useMT
    <3>1. ClientKey = "mt" => \E i \in 1..seen : outbox[i].id = "GetPlayerTokenRsp"
      BY DEF ClientKey
    <3>2. seen > 0 => outbox # <<>>
      BY DEF TypeOK, KeyMade
    <3> QED
      BY <3>1, <3>2 DEF TypeOK, KeyMade
  <2>2. wire' = Append(wire, m)
    BY <1>2 DEF ClientSend
  <2> HIDE DEF m
  <2>3. \A i \in 1..Len(wire') : wire'[i].key = "mt" => useMT
    <3>1. /\ wire \in Seq(Msg) /\ Len(wire') = Len(wire) + 1 /\ Len(wire) \in Nat
          /\ \A i \in 1..Len(wire) : wire'[i] = wire[i]
          /\ wire'[Len(wire) + 1] = m
      BY <2>2 DEF TypeOK
    <3>2. \A i \in 1..Len(wire) : wire[i].key = "mt" => useMT
      BY DEF MtImpliesSwitch
    <3> QED
      BY <2>1, <3>1, <3>2
  <2> QED
    BY <1>2, <2>3 DEF KeyMade, MtImpliesSwitch, Client, ClientSend, ioVars,
                      keyVars, handlerVars
<1> QED
  BY <1>1, <1>2 DEF Client

\* A datagram only moves requests from the wire to KCP's receive queue.
LEMMA DatagramMoves ==
    ASSUME TypeOK, Datagram
    PROVE  /\ \A i \in 1..Len(wire') : \E j \in 1..Len(wire) : wire'[i] = wire[j]
           /\ \A i \in 1..Len(ready') : \/ \E j \in 1..Len(ready) : ready'[i] = ready[j]
                                        \/ \E j \in 1..Len(wire) : ready'[i] = wire[j]
<1> PICK n \in 0..MaxBatch : n <= Len(wire) /\ IoInput(n)
  BY DEF Datagram
<1>1. n \in Nat /\ n <= Len(wire) /\ wire \in Seq(Msg) /\ Len(wire) \in Nat
  BY GameSessionAssumption DEF TypeOK
<1>2. CASE state # "CONNECTED"
  BY <1>2 DEF IoInput
<1>3. CASE state = "CONNECTED"
  <2>1. /\ ready' = ready \o SubSeq(wire, 1, n)
        /\ wire' = SubSeq(wire, n + 1, Len(wire))
    BY <1>3 DEF IoInput
  <2>2. SubSeq(wire, 1, n) \in Seq(Msg) /\ Len(SubSeq(wire, 1, n)) = n
    BY <1>1
  <2>3. \A i \in 1..n : SubSeq(wire, 1, n)[i] = wire[i]
    BY <1>1
  <2>4. ASSUME NEW i \in 1..Len(ready')
        PROVE  \/ \E j \in 1..Len(ready) : ready'[i] = ready[j]
               \/ \E j \in 1..Len(wire) : ready'[i] = wire[j]
    <3>1. CASE i <= Len(ready)
      <4>1. i \in 1..Len(ready) /\ ready'[i] = ready[i]
        BY <2>1, <2>2, <3>1 DEF TypeOK
      <4> QED
        BY <4>1
    <3>2. CASE i > Len(ready)
      <4>1. ready \in Seq(Msg) /\ Len(ready) \in Nat
        BY DEF TypeOK
      <4>2. /\ Len(ready \o SubSeq(wire, 1, n)) = Len(ready) + n
            /\ \A j \in 1..n : (ready \o SubSeq(wire, 1, n))[Len(ready) + j] =
                                  SubSeq(wire, 1, n)[j]
        BY <1>1, <2>2, <4>1
      <4>3. i - Len(ready) \in 1..n /\ Len(ready) + (i - Len(ready)) = i
        BY <1>1, <2>1, <3>2, <4>1, <4>2
      <4>4. ready'[i] = SubSeq(wire, 1, n)[i - Len(ready)]
        BY <2>1, <4>2, <4>3
      <4> QED
        BY <4>3, <4>4, <2>3, <1>1
    <3>3. i \in Nat /\ Len(ready) \in Nat
      BY DEF TypeOK
    <3> QED
      BY <3>1, <3>2, <3>3
  <2>5. ASSUME NEW i \in 1..Len(wire')
        PROVE  \E j \in 1..Len(wire) : wire'[i] = wire[j]
    <3>1. Len(wire') = Len(wire) - n
      BY <2>1, <1>1
    <3>2. i + n \in 1..Len(wire) /\ wire'[i] = wire[i + n]
      BY <2>1, <1>1, <3>1
    <3> QED
      BY <3>2
  <2> QED
    BY <2>4, <2>5
<1> QED
  BY <1>2, <1>3

LEMMA KeyDatagram ==
    ASSUME TypeOK, KeyInv, Datagram
    PROVE  KeyInv'
<1>1. MtImpliesSwitch'
  BY DatagramMoves DEF KeyInv, MtImpliesSwitch, Datagram, IoInput, IoLeaves, keyVars
<1> QED
  BY <1>1 DEF KeyInv, KeyMade, Datagram, IoInput, IoLeaves, keyVars, handlerVars

LEMMA KeyIoStep ==
    ASSUME TypeOK, KeyInv, IoStep
    PROVE  KeyInv'
<1> USE DEF KeyInv, KeyMade, MtImpliesSwitch, IoStep, IoLeaves, keyVars, handlerVars
<1>1. CASE IoRecv
  <2>1. CASE Readable
    <3>1. /\ Head(ready) = ready[1] /\ 1 \in 1..Len(ready)
          /\ \A i \in 1..Len(Tail(ready)) :
                i + 1 \in 1..Len(ready) /\ Tail(ready)[i] = ready[i + 1]
      BY <2>1 DEF TypeOK, Readable
    <3> QED
      BY <1>1, <2>1, <3>1 DEF IoRecv, DecryptKey
  <2>2. CASE ~Readable
    BY <1>1, <2>2 DEF IoRecv
  <2> QED
    BY <2>1, <2>2
<1>2. CASE IoDecrypt
  BY <1>2 DEF IoDecrypt
<1>3. CASE IoPush \/ IoConstruct
  BY <1>3 DEF IoPush, IoConstruct
<1> QED
  BY <1>1, <1>2, <1>3

LEMMA KeyHandler ==
    ASSUME TypeOK, KeyInv, Handler
    PROVE  KeyInv'
<1> USE DEF KeyInv
<1>1. useMT => useMT'
  BY DEF Handler, HPoll, HQueueEmpty, HPop, Take, HPopTornCrash, HNoHandler, HEmptyKey,
         HPing, HUseMT, HGenKey, HTokenRsp, HNotify, HLoginRsp, keyVars
<1>2. MtImpliesSwitch'
  BY <1>1 DEF MtImpliesSwitch, Handler, clientVars, ioVars
<1> SUFFICES KeyMade'
  BY <1>2
<1>3. ASSUME NEW id, NEW key, NEW next, Send(id, key, next), mtKey, next # "genKey",
             UNCHANGED <<mtKey, useMT, seen>>
      PROVE  KeyMade'
  <2>1. Len(outbox') = Len(outbox) + 1 /\ Len(outbox) \in Nat
    BY <1>3 DEF Send, TypeOK
  <2> QED
    BY <1>3, <2>1 DEF KeyMade, Send, TypeOK
<1>4. CASE HPoll \/ HQueueEmpty
  BY <1>4 DEF HPoll, HQueueEmpty, KeyMade, Handler, clientVars, keyVars
<1>5. CASE HPop
  <2>1. PICK kind \in Kinds : hPc' = IF Gate(kind) THEN HandlerOf(kind) ELSE "stopped"
    BY <1>5 DEF HPop, Take
  <2>2. hPc' = "notify" => sessionState = "WAITING_FOR_LOGIN"
    BY <2>1 DEF Gate, HandlerOf
  <2>3. hPc' \notin {"genKey", "tokenRsp"}
    BY <2>1 DEF HandlerOf
  <2> QED
    BY <1>5, <2>2, <2>3 DEF HPop, Take, KeyMade, Handler, clientVars, keyVars
<1>6. CASE HPopTornCrash \/ HNoHandler \/ HEmptyKey
  BY <1>6 DEF HPopTornCrash, HNoHandler, HEmptyKey, KeyMade, Handler, clientVars,
              keyVars, handlerVars
<1>7. CASE HPing
  BY <1>7, <1>3 DEF HPing, Send, Handler, clientVars, keyVars
<1>8. CASE HUseMT \/ HGenKey
  BY <1>8 DEF HUseMT, HGenKey, KeyMade, TypeOK, Handler, clientVars
<1>9. CASE HTokenRsp
  BY <1>9, <1>3 DEF HTokenRsp, KeyMade, Handler, clientVars, keyVars
<1>10. CASE HNotify
  BY <1>10, <1>3 DEF HNotify, KeyMade, Handler, clientVars, keyVars
<1>11. CASE HLoginRsp
  BY <1>11, <1>3 DEF HLoginRsp, KeyMade, Handler, clientVars, keyVars
<1> QED
  BY <1>4, <1>5, <1>6, <1>7, <1>8, <1>9, <1>10, <1>11 DEF Handler

LEMMA KeyRace ==
    ASSUME TypeOK, KeyInv, Race
    PROVE  KeyInv'
<1>1. /\ hPc' = "notify" => sessionState = "WAITING_FOR_LOGIN"
      /\ hPc' \notin {"genKey", "tokenRsp"}
  BY DEF Race, Take, Gate, HandlerOf
<1>2. hPc = "pop" /\ UNCHANGED <<seen, useMT, mtKey, sessionState, outbox>>
  BY DEF Race, Take, Overlap, clientVars, keyVars
<1>3. KeyMade'
  BY <1>1, <1>2 DEF KeyInv, KeyMade
<1> QED
  BY <1>2, <1>3 DEF KeyInv, MtImpliesSwitch, Race, clientVars, ioVars

LEMMA KeyStep == TypeOK /\ KeyInv /\ [Next]_vars => KeyInv'
<1> SUFFICES ASSUME TypeOK, KeyInv, [Next]_vars PROVE KeyInv'
  OBVIOUS
<1>1. CASE Background
  BY <1>1 DEF KeyInv, KeyMade, MtImpliesSwitch, Background, clientVars, ioVars,
              keyVars, handlerVars
<1>2. CASE UseAfterFree \/ Tick
  BY <1>2 DEF KeyInv, KeyMade, MtImpliesSwitch, UseAfterFree, Tick, clientVars,
              ioVars, keyVars, handlerVars
<1>3. CASE UNCHANGED vars
  BY <1>3 DEF KeyInv, KeyMade, MtImpliesSwitch, vars, clientVars, ioVars, keyVars,
              handlerVars
<1> QED
  BY <1>1, <1>2, <1>3, KeyClient, KeyDatagram, KeyIoStep, KeyHandler, KeyRace
     DEF Next

LEMMA KeyCorrect == Spec => [](TypeOK /\ KeyInv)
<1>1. Init => TypeOK /\ KeyInv
  BY TypeInit, KeyInit
<1>2. TypeOK /\ KeyInv /\ [Next]_vars => (TypeOK /\ KeyInv)'
  BY TypeStep, KeyStep
<1> QED
  BY <1>1, <1>2, PTL DEF Spec

\* HandlePlayerTokenReq calls SetUseMT and GenerateMTKey before it sends its
\* response, so ParsePacket never takes the dispatch key to a request that was
\* encrypted with the mt key, whatever the interleaving of the threads.
THEOREM KeySwitchOneWay == Spec => []MtNeverReadAsDispatch
<1>1. KeyInv => MtNeverReadAsDispatch
  BY DEF KeyInv, MtImpliesSwitch, MtNeverReadAsDispatch
<1> QED
  BY <1>1, KeyCorrect, PTL

-----------------------------------------------------------------------------
(* Where requests are.                                                      *)

\* The number of the last request the io thread has taken out of KCP.
Taken == sent - Len(wire) - Len(ready)

InHand == ioPc \in {"decrypt", "push"}

\* Requests the io thread is done with are numbered up to this.
Done == IF InHand THEN Taken - 1 ELSE Taken

OrderInv ==
    /\ Taken \in Nat /\ Done \in Nat
    /\ \A i \in 1..Len(wire) : wire[i].id = sent - Len(wire) + i
    /\ \A i \in 1..Len(ready) : ready[i].id = Taken + i
    /\ InHand => ioMsg.id = Taken
    /\ \A i \in 1..Len(packetQueue) : cur.id < packetQueue[i].id /\ packetQueue[i].id <= Done
    /\ \A i, j \in 1..Len(packetQueue) : i < j => packetQueue[j].id < packetQueue[i].id
    /\ cur.id <= Done

LEMMA OrderInit == Init => OrderInv
BY DEF Init, OrderInv, Taken, Done, InHand, NoMsg

LEMMA OrderClient ==
    ASSUME TypeOK, OrderInv, Client
    PROVE  OrderInv'
<1>1. CASE ClientReceive
  BY <1>1 DEF Client, ClientReceive, ioVars, handlerVars, OrderInv, Taken, Done, InHand
<1>2. ASSUME NEW kind \in Kinds, ClientSend(kind)
      PROVE  OrderInv'
  <2> DEFINE m == [id |-> sent + 1, kind |-> kind, key |-> ClientKey]
  <2>1. wire' = Append(wire, m) /\ sent' = sent + 1 /\ m.id = sent + 1
    BY <1>2 DEF ClientSend
  <2> HIDE DEF m
  <2>2. /\ wire \in Seq(Msg) /\ Len(wire) \in Nat /\ sent \in Nat /\ Len(ready) \in Nat
        /\ Len(wire') = Len(wire) + 1
        /\ \A i \in 1..Len(wire) : wire'[i] = wire[i]
        /\ wire'[Len(wire) + 1] = m
    BY <2>1 DEF TypeOK
  <2>3. UNCHANGED <<ioVars, packetQueue, handlerVars>>
    BY DEF Client
  <2>4. Taken' = Taken /\ Done' = Done /\ InHand' = InHand
    BY <2>1, <2>2, <2>3 DEF Taken, Done, InHand, ioVars
  <2>5. \A i \in 1..Len(wire') : wire'[i].id = sent' - Len(wire') + i
    BY <2>1, <2>2 DEF OrderInv
  <2> QED
    BY <2>3, <2>4, <2>5 DEF OrderInv, ioVars, handlerVars
<1> QED
  BY <1>1, <1>2 DEF Client

LEMMA OrderDatagram ==
    ASSUME TypeOK, OrderInv, Datagram
    PROVE  OrderInv'
<1> PICK n \in 0..MaxBatch : n <= Len(wire) /\ IoInput(n)
  BY DEF Datagram
<1>1. /\ n \in Nat /\ n <= Len(wire) /\ Len(wire) \in Nat /\ Len(ready) \in Nat /\ sent \in Nat
      /\ wire \in Seq(Msg) /\ ready \in Seq(Msg)
  BY GameSessionAssumption DEF TypeOK
<1>2. UNCHANGED <<sent, packetQueue, cur, ioMsg>> /\ ~InHand /\ ~InHand'
  BY DEF Datagram, IoInput, IoLeaves, handlerVars, InHand
<1>3. CASE state # "CONNECTED"
  BY <1>2, <1>3 DEF IoInput, OrderInv, Taken, Done
<1>4. CASE state = "CONNECTED"
  <2>1. ready' = ready \o SubSeq(wire, 1, n) /\ wire' = SubSeq(wire, n + 1, Len(wire))
    BY <1>4 DEF IoInput
  <2>2. /\ SubSeq(wire, 1, n) \in Seq(Msg) /\ Len(SubSeq(wire, 1, n)) = n
        /\ \A i \in 1..n : SubSeq(wire, 1, n)[i] = wire[i]
    BY <1>1
  <2>3. Len(ready') = Len(ready) + n /\ Len(wire') = Len(wire) - n
    BY <1>1, <2>1, <2>2
  <2>4. Taken' = Taken /\ Done' = Done
    BY <1>1, <1>2, <2>3 DEF Taken, Done
  <2>5. \A i \in 1..Len(wire') : wire'[i] = wire[i + n] /\ i + n \in 1..Len(wire)
    BY <1>1, <2>1, <2>3
  <2>6. \A i \in 1..Len(wire') : wire'[i].id = sent - Len(wire') + i
    <3> TAKE i \in 1..Len(wire')
    <3>1. wire'[i].id = wire[i + n].id /\ i + n \in 1..Len(wire)
      BY <2>5
    <3>2. wire[i + n].id = sent - Len(wire) + (i + n)
      BY <3>1 DEF OrderInv
    <3> QED
      BY <1>1, <2>3, <3>1, <3>2
  <2>7. \A i \in 1..Len(ready') : ready'[i].id = Taken + i
    <3> TAKE i \in 1..Len(ready')
    <3>1. CASE i <= Len(ready)
      BY <1>1, <2>1, <2>2, <2>3, <3>1 DEF OrderInv
    <3>2. CASE i > Len(ready)
      <4>1. i - Len(ready) \in 1..n /\ ready'[i] = wire[i - Len(ready)]
        BY <1>1, <2>1, <2>2, <2>3, <3>2
      <4>2. wire[i - Len(ready)].id = sent - Len(wire) + (i - Len(ready))
        BY <1>1, <4>1 DEF OrderInv
      <4> QED
        BY <1>1, <4>1, <4>2 DEF Taken
    <3> QED
      BY <1>1, <2>3, <3>1, <3>2
  <2> QED
    BY <1>2, <2>4, <2>6, <2>7 DEF OrderInv
<1> QED
  BY <1>3, <1>4

LEMMA IdsAreNumbers ==
    ASSUME TypeOK
    PROVE  /\ cur.id \in Nat
           /\ \A i \in 1..Len(packetQueue) : packetQueue[i].id \in Nat
<1>1. cur \in Msg /\ packetQueue \in Seq(Msg)
  BY DEF TypeOK
<1>2. \A i \in 1..Len(packetQueue) : packetQueue[i] \in Msg
  BY <1>1
<1>3. \A m \in Msg : m.id \in Nat
  BY DEF Msg
<1> QED
  BY <1>1, <1>2, <1>3

LEMMA OrderIoStep ==
    ASSUME TypeOK, OrderInv, IoStep
    PROVE  OrderInv'
<1>0. UNCHANGED <<sent, cur>>
  BY DEF IoStep, IoLeaves, handlerVars
<1>1. CASE IoRecv
  <2>1. CASE Readable
    <3>1. /\ ready \in Seq(Msg) /\ ready # <<>> /\ ioMsg' = ready[1] /\ ready' = Tail(ready)
          /\ UNCHANGED <<wire, packetQueue>> /\ InHand' /\ ~InHand
      BY <1>1, <2>1 DEF IoRecv, Readable, TypeOK, InHand
    <3>2. /\ Len(ready) \in Nat /\ Len(wire) \in Nat /\ sent \in Nat
          /\ Len(ready') = Len(ready) - 1 /\ 1 \in 1..Len(ready)
          /\ \A i \in 1..Len(ready') : ready'[i] = ready[i + 1] /\ i + 1 \in 1..Len(ready)
      BY <3>1 DEF TypeOK
    <3>3. Taken' = Taken + 1 /\ Done' = Done /\ Done = Taken
      BY <1>0, <3>1, <3>2 DEF Taken, Done
    <3>4. \A i \in 1..Len(ready') : ready'[i].id = Taken' + i
      <4> TAKE i \in 1..Len(ready')
      <4>1. ready'[i].id = ready[i + 1].id /\ i + 1 \in 1..Len(ready)
        BY <3>2
      <4>2. ready[i + 1].id = Taken + (i + 1)
        BY <4>1 DEF OrderInv
      <4>3. Taken \in Nat /\ i \in Nat
        BY DEF OrderInv
      <4> QED
        BY <3>3, <4>1, <4>2, <4>3
    <3>5. ioMsg'.id = Taken'
      BY <3>1, <3>2, <3>3 DEF OrderInv
    <3> QED
      BY <1>0, <3>1, <3>3, <3>4, <3>5 DEF OrderInv
  <2>2. CASE ~Readable
    BY <1>0, <1>1, <2>2 DEF IoRecv, OrderInv, Taken, Done, InHand
  <2> QED
    BY <2>1, <2>2
<1>2. CASE IoDecrypt
  <2>1. UNCHANGED <<wire, ready, packetQueue>> /\ InHand
    BY <1>2 DEF IoDecrypt, InHand
  <2>2. ioMsg'.id = ioMsg.id
    BY <1>2 DEF IoDecrypt, TypeOK, Msg
  <2>3. /\ Taken' = Taken /\ Taken \in Nat /\ Done \in Nat
        /\ Done = Taken - 1 /\ Done' \in {Taken, Taken - 1}
        /\ (InHand' => Done' = Done)
    BY <1>0, <2>1 DEF Taken, Done, OrderInv
  <2>4. cur.id <= Done' /\ \A i \in 1..Len(packetQueue) : packetQueue[i].id <= Done'
    BY <2>3, IdsAreNumbers DEF OrderInv
  <2> QED
    BY <1>0, <2>1, <2>2, <2>3, <2>4 DEF OrderInv
<1>3. CASE IoPush
  <2>1. /\ UNCHANGED <<wire, ready>> /\ InHand /\ ~InHand' /\ ioMsg \in Msg
        /\ packetQueue' = <<ioMsg>> \o packetQueue /\ packetQueue \in Seq(Msg)
    BY <1>3 DEF IoPush, Pushed, InHand, TypeOK
  <2>2. /\ Len(packetQueue) \in Nat /\ Len(packetQueue') = Len(packetQueue) + 1
        /\ packetQueue'[1] = ioMsg
        /\ \A i \in 2..Len(packetQueue') :
             packetQueue'[i] = packetQueue[i - 1] /\ i - 1 \in 1..Len(packetQueue)
    BY <2>1
  <2>3. /\ Taken' = Taken /\ Taken \in Nat /\ Done = Taken - 1 /\ Done' = Taken
        /\ ioMsg.id = Taken /\ cur.id \in Nat
        /\ \A i \in 1..Len(packetQueue) : packetQueue[i].id \in Nat
    BY <1>0, <2>1, IdsAreNumbers DEF Taken, Done, OrderInv
  <2>4. \A i \in 1..Len(packetQueue') : cur.id < packetQueue'[i].id /\ packetQueue'[i].id <= Done'
    <3> TAKE i \in 1..Len(packetQueue')
    <3>1. CASE i = 1
      BY <2>2, <2>3, <3>1 DEF OrderInv
    <3>2. CASE i \in 2..Len(packetQueue')
      BY <2>2, <2>3, <3>2 DEF OrderInv
    <3> QED
      BY <2>2, <3>1, <3>2
  <2>5. \A i, j \in 1..Len(packetQueue') : i < j => packetQueue'[j].id < packetQueue'[i].id
    <3> TAKE i, j \in 1..Len(packetQueue')
    <3> HAVE i < j
    <3>1. /\ j \in 2..Len(packetQueue') /\ j - 1 \in 1..Len(packetQueue)
          /\ packetQueue'[j] = packetQueue[j - 1]
      BY <2>2
    <3>2. CASE i = 1
      BY <2>2, <2>3, <3>1, <3>2 DEF OrderInv
    <3>3. CASE i \in 2..Len(packetQueue')
      <4>1. packetQueue'[i] = packetQueue[i - 1] /\ i - 1 \in 1..Len(packetQueue) /\ i - 1 < j - 1
        BY <2>2, <3>1, <3>3
      <4> QED
        BY <3>1, <4>1 DEF OrderInv
    <3> QED
      BY <2>2, <3>2, <3>3
  <2>6. cur.id <= Done'
    BY <2>3 DEF OrderInv
  <2> QED
    BY <1>0, <2>1, <2>3, <2>4, <2>5, <2>6 DEF OrderInv
<1>4. CASE IoConstruct
  BY <1>0, <1>4 DEF IoConstruct, OrderInv, Taken, Done, InHand
<1> QED
  BY <1>1, <1>2, <1>3, <1>4 DEF IoStep

\* back() and pop_back().
LEMMA FrontOf ==
    ASSUME NEW S, NEW s \in Seq(S), s # <<>>
    PROVE  /\ Len(Front(s)) = Len(s) - 1 /\ Len(s) \in Nat \ {0}
           /\ Last(s) = s[Len(s)]
           /\ \A i \in 1..Len(s) - 1 : Front(s)[i] = s[i]
<1>1. Len(s) \in Nat \ {0}
  OBVIOUS
<1>2. Len(SubSeq(s, 1, Len(s) - 1)) = Len(s) - 1
  <2>1. \A n \in 0..Len(s) : Len(SubSeq(s, 1, n)) = n
    OBVIOUS
  <2>2. PICK n : n = Len(s) - 1
    OBVIOUS
  <2>3. n \in 0..Len(s)
    BY <1>1, <2>2
  <2> QED
    BY <2>1, <2>2, <2>3
<1>3. \A i \in 1..Len(s) - 1 : SubSeq(s, 1, Len(s) - 1)[i] = s[i]
  BY <1>1
<1> QED
  BY <1>1, <1>2, <1>3 DEF Front, Last

LEMMA OrderHandler ==
    ASSUME TypeOK, OrderInv, Handler
    PROVE  OrderInv'
<1>0. UNCHANGED <<sent, wire, ioPc, ioMsg, ready>>
  BY DEF Handler, clientVars, ioVars
<1>1. Taken' = Taken /\ Done' = Done /\ InHand' = InHand
  BY <1>0 DEF Taken, Done, InHand
<1>2. CASE HPop
  <2>1. packetQueue \in Seq(Msg) /\ packetQueue # <<>> /\ packetQueue' = Front(packetQueue)
    BY <1>2 DEF HPop, Take, HasPacket, TypeOK
  <2>2. /\ Len(packetQueue') = Len(packetQueue) - 1 /\ Len(packetQueue) \in Nat \ {0}
        /\ Last(packetQueue) = packetQueue[Len(packetQueue)]
        /\ \A i \in 1..Len(packetQueue') : packetQueue'[i] = packetQueue[i]
    BY <2>1, FrontOf
  <2>3. Last(packetQueue) \in Msg
    BY <2>1, FrontInSeq
  <2>4. cur'.id = Last(packetQueue).id
    BY <1>2, <2>3 DEF HPop, Take, Msg
  <2> QED
    BY <1>0, <1>1, <2>2, <2>4 DEF OrderInv
<1>3. CASE ~HPop
  <2>1. UNCHANGED <<packetQueue, cur>>
    BY <1>3 DEF Handler, HPoll, HQueueEmpty, HPopTornCrash, HNoHandler, HEmptyKey,
                HPing, HUseMT, HGenKey, HTokenRsp, HNotify, HLoginRsp, handlerVars
  <2> QED
    BY <1>0, <1>1, <2>1 DEF OrderInv
<1> QED
  BY <1>2, <1>3

\* Once the ends of the deque have gone wrong nothing is said of its order.
LEMMA RacedStays == raced /\ [Next]_vars => raced'
BY DEF Next, Client, Datagram, IoInput, IoStep, IoRecv, IoDecrypt, IoPush, IoConstruct,
       Handler, Race, Background, UseAfterFree, Tick, vars, historyVars

LEMMA OrderStep == TypeOK /\ (raced \/ OrderInv) /\ [Next]_vars => (raced \/ OrderInv)'
<1> SUFFICES ASSUME TypeOK, OrderInv, [Next]_vars, ~raced' PROVE OrderInv'
  BY RacedStays
<1>1. CASE Background \/ UseAfterFree \/ Tick \/ UNCHANGED vars
  BY <1>1 DEF Background, UseAfterFree, Tick, vars, clientVars, ioVars, handlerVars,
              OrderInv, Taken, Done, InHand
<1> QED
  BY <1>1, OrderClient, OrderDatagram, OrderIoStep, OrderHandler DEF Next, Race

LEMMA OrderCorrect == Spec => [](TypeOK /\ (raced \/ OrderInv))
<1>1. Init => TypeOK /\ (raced \/ OrderInv)
  BY TypeInit, OrderInit
<1>2. TypeOK /\ (raced \/ OrderInv) /\ [Next]_vars => (TypeOK /\ (raced \/ OrderInv))'
  BY TypeStep, OrderStep
<1> QED
  BY <1>1, <1>2, PTL DEF Spec

-----------------------------------------------------------------------------
(* From the parts of the pipeline to the whole.                             *)

\* The requests of s come in order, numbered above lo and up to hi.
Run(s, lo, hi) ==
    /\ s \in Seq(Msg)
    /\ \A i \in 1..Len(s) : lo < s[i].id /\ s[i].id <= hi
    /\ \A i, j \in 1..Len(s) : i < j => s[i].id < s[j].id

LEMMA RunsJoin ==
    ASSUME NEW s, NEW t, NEW lo \in Int, NEW mid \in Int, NEW hi \in Int,
           lo <= mid, mid <= hi, Run(s, lo, mid), Run(t, mid, hi)
    PROVE  Run(s \o t, lo, hi)
<1>1. s \in Seq(Msg) /\ t \in Seq(Msg) /\ s \o t \in Seq(Msg)
  BY DEF Run
<1>2. /\ Len(s) \in Nat /\ Len(t) \in Nat /\ Len(s \o t) = Len(s) + Len(t)
      /\ \A i \in 1..Len(s) : (s \o t)[i] = s[i]
      /\ \A i \in 1..Len(t) : (s \o t)[Len(s) + i] = t[i]
  BY <1>1
<1>3. \A m \in Msg : m.id \in Nat
  BY DEF Msg
<1>4. /\ \A i \in 1..Len(s) : s[i].id \in Nat /\ lo < s[i].id /\ s[i].id <= mid
      /\ \A i \in 1..Len(t) : t[i].id \in Nat /\ mid < t[i].id /\ t[i].id <= hi
  BY <1>1, <1>3 DEF Run
<1>5. \A i \in 1..Len(s \o t) :
        \/ i \in 1..Len(s) /\ (s \o t)[i] = s[i]
        \/ i - Len(s) \in 1..Len(t) /\ (s \o t)[i] = t[i - Len(s)]
  <2> TAKE i \in 1..Len(s \o t)
  <2>1. CASE i <= Len(s)
    BY <1>2, <2>1
  <2>2. CASE i > Len(s)
    <3>1. i - Len(s) \in 1..Len(t) /\ Len(s) + (i - Len(s)) = i
      BY <1>2, <2>2
    <3> QED
      BY <1>2, <3>1
  <2> QED
    BY <1>2, <2>1, <2>2
<1>6. \A i \in 1..Len(s \o t) : lo < (s \o t)[i].id /\ (s \o t)[i].id <= hi
  BY <1>4, <1>5
<1>7. \A i, j \in 1..Len(s \o t) : i < j => (s \o t)[i].id < (s \o t)[j].id
  <2> TAKE i, j \in 1..Len(s \o t)
  <2> HAVE i < j
  <2>1. CASE i \in 1..Len(s) /\ j \in 1..Len(s)
    BY <1>2, <2>1 DEF Run
  <2>2. CASE i \in 1..Len(s) /\ j \notin 1..Len(s)
    <3>1. /\ (s \o t)[i] = s[i]
          /\ j - Len(s) \in 1..Len(t) /\ (s \o t)[j] = t[j - Len(s)]
      BY <1>2, <1>5, <2>2
    <3> QED
      BY <1>4, <2>2, <3>1
  <2>3. CASE i \notin 1..Len(s)
    <3>1. /\ i - Len(s) \in 1..Len(t) /\ (s \o t)[i] = t[i - Len(s)]
          /\ j - Len(s) \in 1..Len(t) /\ (s \o t)[j] = t[j - Len(s)]
          /\ i - Len(s) < j - Len(s)
      BY <1>2, <1>5, <2>3
    <3> QED
      BY <3>1 DEF Run
  <2> QED
    BY <2>1, <2>2, <2>3
<1> QED
  BY <1>1, <1>6, <1>7 DEF Run

\* The deque read from its back.
LEMMA RunOfQueue ==
    ASSUME TypeOK, OrderInv
    PROVE  Run(Reverse(packetQueue), cur.id, Done)
<1>1. packetQueue \in Seq(Msg) /\ Len(packetQueue) \in Nat
  BY DEF TypeOK
<1> DEFINE r == Reverse(packetQueue)
<1>2. /\ r \in Seq(Msg) /\ Len(r) = Len(packetQueue)
      /\ \A i \in 1..Len(r) : r[i] = packetQueue[Len(packetQueue) - i + 1]
  BY <1>1 DEF Reverse
<1> HIDE DEF r
<1>3. \A i \in 1..Len(r) : Len(packetQueue) - i + 1 \in 1..Len(packetQueue)
  BY <1>1, <1>2
<1>4. \A i \in 1..Len(r) : cur.id < r[i].id /\ r[i].id <= Done
  BY <1>2, <1>3 DEF OrderInv
<1>5. \A i, j \in 1..Len(r) : i < j => r[i].id < r[j].id
  <2> TAKE i, j \in 1..Len(r)
  <2> HAVE i < j
  <2>1. Len(packetQueue) - j + 1 < Len(packetQueue) - i + 1
    BY <1>1, <1>2
  <2> QED
    BY <1>2, <1>3, <2>1 DEF OrderInv
<1> QED
  BY <1>2, <1>4, <1>5 DEF Run, r

LEMMA RunOfPipeline ==
    ASSUME TypeOK, OrderInv
    PROVE  Run(Pipeline, cur.id - 1, sent)
<1>1. /\ cur \in Msg /\ ioMsg \in Msg /\ ready \in Seq(Msg) /\ wire \in Seq(Msg)
      /\ Len(ready) \in Nat /\ Len(wire) \in Nat /\ sent \in Nat
      /\ Taken = sent - Len(wire) - Len(ready)
      /\ Taken \in Nat /\ Done \in Nat /\ cur.id \in Nat /\ cur.id <= Done
      /\ Done = IF InHand THEN Taken - 1 ELSE Taken
  BY IdsAreNumbers DEF TypeOK, OrderInv, Taken, Done
<1>2. Run(<<cur>>, cur.id - 1, cur.id)
  <2>1. <<cur>> \in Seq(Msg) /\ Len(<<cur>>) = 1 /\ <<cur>>[1] = cur
    BY <1>1
  <2> QED
    BY <1>1, <2>1 DEF Run
<1>3. Run(InIo, Done, Taken)
  <2>1. CASE InHand
    <3>1. InIo = <<ioMsg>> /\ Len(InIo) = 1 /\ InIo[1] = ioMsg /\ InIo \in Seq(Msg)
      BY <1>1, <2>1 DEF InIo, InHand
    <3>2. ioMsg.id = Taken /\ Done = Taken - 1
      BY <1>1, <2>1 DEF OrderInv
    <3> QED
      BY <1>1, <3>1, <3>2 DEF Run
  <2>2. CASE ~InHand
    BY <1>1, <2>2 DEF InIo, InHand, Run
  <2> QED
    BY <2>1, <2>2
<1>4. Run(ready, Taken, sent - Len(wire))
  <2>1. \A i \in 1..Len(ready) : ready[i].id = Taken + i
    BY DEF OrderInv
  <2> QED
    BY <1>1, <2>1 DEF Run
<1>5. Run(wire, sent - Len(wire), sent)
  <2>1. \A i \in 1..Len(wire) : wire[i].id = sent - Len(wire) + i
    BY DEF OrderInv
  <2> QED
    BY <1>1, <2>1 DEF Run
<1>6. /\ cur.id - 1 \in Int /\ sent - Len(wire) \in Int
      /\ cur.id - 1 <= cur.id /\ Done <= Taken /\ Taken <= sent - Len(wire)
      /\ cur.id - 1 <= Done /\ cur.id - 1 <= Taken /\ cur.id - 1 <= sent - Len(wire)
      /\ sent - Len(wire) <= sent
  BY <1>1
<1>7. Run(<<cur>> \o Reverse(packetQueue), cur.id - 1, Done)
  BY <1>1, <1>2, <1>6, RunOfQueue, RunsJoin
<1>8. Run(<<cur>> \o Reverse(packetQueue) \o InIo, cur.id - 1, Taken)
  BY <1>1, <1>3, <1>6, <1>7, RunsJoin
<1>9. Run(<<cur>> \o Reverse(packetQueue) \o InIo \o ready, cur.id - 1, sent - Len(wire))
  BY <1>1, <1>4, <1>6, <1>8, RunsJoin
<1> QED
  BY <1>1, <1>5, <1>6, <1>9, RunsJoin DEF Pipeline

\* ParsePacket pushes at the front of packet_queue and PacketQueueHandler takes
\* from its back: across the client, KCP, the io thread and the handler thread,
\* requests keep the order they were sent in, and none is there twice, as long as
\* the two threads have not spoilt the ends of the deque.
THEOREM RequestsInOrder == Spec => []InOrder
<1>1. TypeOK /\ (raced \/ OrderInv) => InOrder
  BY RunOfPipeline DEF Run, InOrder
<1> QED
  BY <1>1, OrderCorrect, PTL

-----------------------------------------------------------------------------
(* No request disappears.                                                   *)

Has(s, n) == \E i \in 1..Len(s) : s[i].id = n
Replied(n) == \E i \in 1..Len(outbox) : outbox[i].req = n
ThrownOn(n) == \E m \in lost : m.id = n

\* Each request is with the handler, in the deque, not yet through the io
\* thread, answered, or one that BasePacket threw on.
LossInv ==
    /\ \A n \in 1..sent : \/ n = cur.id \/ Has(packetQueue, n) \/ n > Done
                          \/ Replied(n) \/ ThrownOn(n)
    /\ hPc \in {"poll", "pop"} => cur.id = 0 \/ Replied(cur.id)
    /\ ioPc = "decrypt" /\ ioKey = "mt" => useMT
    /\ \A m \in lost : m.key = "dispatch" /\ useMT

LEMMA LossInit == Init => LossInv
BY DEF Init, LossInv, NoMsg

LEMMA LossClient ==
    ASSUME TypeOK, OrderInv, LossInv, Client
    PROVE  LossInv'
<1>1. UNCHANGED <<ioPc, ioKey, useMT, packetQueue, hPc, cur, outbox, lost>>
  BY DEF Client, ioVars, keyVars, handlerVars, historyVars
<1>2. sent \in Nat /\ (sent' = sent \/ sent' = sent + 1) /\ Done' = Done /\ Done \in Nat
      /\ (sent' = sent + 1 => Done <= sent)
  <2>1. sent \in Nat /\ Len(wire) \in Nat /\ Len(ready) \in Nat /\ wire \in Seq(Msg)
    BY DEF TypeOK
  <2>2. CASE ClientReceive
    BY <2>1, <2>2 DEF Client, ClientReceive, ioVars, Done, Taken, InHand, OrderInv
  <2>3. ASSUME NEW kind \in Kinds, ClientSend(kind)
        PROVE  sent' = sent + 1 /\ Done' = Done /\ Done <= sent
    <3>1. sent' = sent + 1 /\ Len(wire') = Len(wire) + 1 /\ UNCHANGED <<ready, ioPc>>
      BY <2>1, <2>3 DEF ClientSend, Client, ioVars
    <3> QED
      BY <2>1, <3>1 DEF Done, Taken, InHand
  <2> QED
    BY <2>1, <2>2, <2>3 DEF Client, OrderInv
<1>3. \A n \in 1..sent' : n \in 1..sent \/ n > Done'
  BY <1>2
<1> QED
  BY <1>1, <1>2, <1>3 DEF LossInv, Has, Replied, ThrownOn

LEMMA LossDatagram ==
    ASSUME TypeOK, OrderInv, LossInv, Datagram
    PROVE  LossInv'
<1>1. /\ UNCHANGED <<sent, useMT, packetQueue, hPc, cur, outbox, lost>>
      /\ ioPc' # "decrypt"
  BY DEF Datagram, IoInput, IoLeaves, keyVars, handlerVars, historyVars
<1>2. Done' = Done
  <2> PICK n \in 0..MaxBatch : n <= Len(wire) /\ IoInput(n)
    BY DEF Datagram
  <2>1. /\ n \in Nat /\ n <= Len(wire) /\ Len(wire) \in Nat /\ Len(ready) \in Nat /\ sent \in Nat
        /\ wire \in Seq(Msg) /\ ready \in Seq(Msg)
    BY GameSessionAssumption DEF TypeOK
  <2>2. ~InHand /\ ~InHand'
    BY DEF IoInput, InHand
  <2>3. Len(ready') + Len(wire') = Len(ready) + Len(wire)
    <3>1. CASE state = "CONNECTED"
      <4>1. SubSeq(wire, 1, n) \in Seq(Msg) /\ Len(SubSeq(wire, 1, n)) = n
        BY <2>1
      <4>2. Len(SubSeq(wire, n + 1, Len(wire))) = Len(wire) - n
        BY <2>1
      <4>3. ready' = ready \o SubSeq(wire, 1, n) /\ wire' = SubSeq(wire, n + 1, Len(wire))
        BY <3>1 DEF IoInput
      <4>4. Len(ready') = Len(ready) + n
        BY <2>1, <4>1, <4>3
      <4>5. Len(wire') = Len(wire) - n
        BY <4>2, <4>3
      <4> QED
        BY <2>1, <4>4, <4>5
    <3>2. CASE state # "CONNECTED"
      BY <3>2 DEF IoInput
    <3> QED
      BY <3>1, <3>2
  <2>4. Len(ready') \in Nat /\ Len(wire') \in Nat
    <3>1. TypeOK'
      BY TypeDatagram
    <3> QED
      BY <3>1 DEF TypeOK
  <2> QED
    BY <1>1, <2>1, <2>2, <2>3, <2>4 DEF Done, Taken
<1> QED
  BY <1>1, <1>2 DEF LossInv, Has, Replied, ThrownOn

LEMMA LossIoStep ==
    ASSUME TypeOK, OrderInv, KeyInv, LossInv, IoStep
    PROVE  LossInv'
<1>0. UNCHANGED <<sent, useMT, hPc, cur, outbox>>
  BY DEF IoStep, IoLeaves, keyVars, handlerVars
<1>1. CASE IoRecv
  <2>1. UNCHANGED <<packetQueue, lost>>
    BY <1>1 DEF IoRecv, historyVars
  <2>2. Done' = Done
    <3>1. CASE Readable
      <4>1. /\ ready \in Seq(Msg) /\ ready # <<>> /\ ready' = Tail(ready)
            /\ UNCHANGED wire /\ InHand' /\ ~InHand
        BY <1>1, <3>1 DEF IoRecv, Readable, TypeOK, InHand
      <4>2. /\ Len(ready) \in Nat /\ Len(wire) \in Nat /\ sent \in Nat
            /\ Len(ready') = Len(ready) - 1
        BY <4>1 DEF TypeOK
      <4> QED
        BY <1>0, <4>1, <4>2 DEF Done, Taken
    <3>2. CASE ~Readable
      BY <1>0, <1>1, <3>2 DEF IoRecv, Done, Taken, InHand
    <3> QED
      BY <3>1, <3>2
  <2>3. ioPc' = "decrypt" /\ ioKey' = "mt" => useMT
    BY <1>1 DEF IoRecv, DecryptKey
  <2> QED
    BY <1>0, <2>1, <2>2, <2>3 DEF LossInv, Has, Replied, ThrownOn
<1>2. CASE IoDecrypt
  <2>1. UNCHANGED <<wire, ready, packetQueue, ioKey>> /\ InHand /\ ioPc = "decrypt"
    BY <1>2 DEF IoDecrypt, InHand
  <2>2. Taken' = Taken /\ Taken \in Nat /\ ioMsg.id = Taken /\ Done = Taken - 1
    BY <1>0, <2>1 DEF OrderInv, Taken, Done
  <2>3. CASE ioPc' # "idle"
    <3>1. lost' = lost /\ InHand'
      BY <1>2, <2>1, <2>3 DEF IoDecrypt, InHand, historyVars
    <3>2. Done' = Done
      BY <2>1, <2>2, <3>1 DEF Done
    <3> QED
      BY <1>0, <2>1, <2>3, <3>1, <3>2 DEF LossInv, Has, Replied, ThrownOn
  <2>4. CASE ioPc' = "idle"
    <3>1. /\ lost' = lost \cup {ioMsg} /\ ~InHand' /\ ioMsg.key # ioKey
      BY <1>2, <2>4 DEF IoDecrypt, InHand, historyVars
    <3>2. ioMsg.key = "dispatch" /\ useMT
      <4>1. ioMsg.key \in Keys /\ ioKey \in Keys
        BY DEF TypeOK, Msg
      <4> QED
        BY <2>1, <3>1, <4>1 DEF KeyInv, MtImpliesSwitch, Keys, LossInv
    <3>3. Done' = Done + 1 /\ Done + 1 = ioMsg.id /\ Done \in Nat
      BY <2>2, <3>1 DEF Done, OrderInv
    <3>4. \A n \in 1..sent : n > Done => n > Done' \/ ThrownOn(n)'
      BY <3>1, <3>3 DEF ThrownOn
    <3>5. \A n : ThrownOn(n) => ThrownOn(n)'
      BY <3>1 DEF ThrownOn
    <3>6. \A m \in lost' : m.key = "dispatch" /\ useMT
      BY <3>1, <3>2 DEF LossInv
    <3> QED
      BY <1>0, <2>1, <3>1, <3>4, <3>5, <3>6 DEF LossInv, Has, Replied
  <2> QED
    BY <2>3, <2>4
<1>3. CASE IoPush
  <2>1. /\ UNCHANGED <<wire, ready, lost>> /\ InHand /\ ~InHand' /\ ioPc' = "construct"
        /\ packetQueue' = <<ioMsg>> \o packetQueue /\ packetQueue \in Seq(Msg)
        /\ ioMsg \in Msg
    BY <1>3 DEF IoPush, Pushed, InHand, historyVars, TypeOK
  <2>2. Taken' = Taken /\ Taken \in Nat /\ ioMsg.id = Taken /\ Done = Taken - 1 /\ Done' = Taken
    BY <1>0, <2>1 DEF OrderInv, Taken, Done
  <2>3. /\ Len(packetQueue) \in Nat /\ Len(packetQueue') = Len(packetQueue) + 1
        /\ packetQueue'[1] = ioMsg
        /\ \A i \in 1..Len(packetQueue) : packetQueue'[i + 1] = packetQueue[i]
    BY <2>1
  <2>4. Has(packetQueue', Taken)
    BY <2>2, <2>3 DEF Has
  <2>5. \A n : Has(packetQueue, n) => Has(packetQueue', n)
    <3> SUFFICES ASSUME NEW n, NEW i \in 1..Len(packetQueue), packetQueue[i].id = n
                 PROVE  Has(packetQueue', n)
      BY DEF Has
    <3>1. i + 1 \in 1..Len(packetQueue') /\ packetQueue'[i + 1].id = n
      BY <2>3
    <3> QED
      BY <3>1 DEF Has
  <2>6. \A n \in 1..sent : n > Done => n > Done' \/ n = Taken
    BY <2>2
  <2> QED
    BY <1>0, <2>1, <2>4, <2>5, <2>6 DEF LossInv, Replied, ThrownOn
<1>4. CASE IoConstruct
  BY <1>0, <1>4 DEF IoConstruct, LossInv, Has, Replied, ThrownOn, Taken, Done, InHand,
                    historyVars
<1> QED
  BY <1>1, <1>2, <1>3, <1>4 DEF IoStep

LEMMA LossHandler ==
    ASSUME TypeOK, OrderInv, KeyInv, LossInv, Handler
    PROVE  LossInv'
<1>0. UNCHANGED <<sent, wire, ioPc, ioKey, ioMsg, ready, lost>>
  BY DEF Handler, clientVars, ioVars
<1>1. Done' = Done
  BY <1>0 DEF Taken, Done, InHand
<1>2. useMT => useMT'
  BY DEF Handler, HPoll, HQueueEmpty, HPop, Take, HPopTornCrash, HNoHandler, HEmptyKey,
         HPing, HUseMT, HGenKey, HTokenRsp, HNotify, HLoginRsp, keyVars
<1>3. CASE HPop
  <2>1. packetQueue \in Seq(Msg) /\ packetQueue # <<>> /\ packetQueue' = Front(packetQueue)
    BY <1>3 DEF HPop, Take, HasPacket, TypeOK
  <2>2. /\ Len(packetQueue') = Len(packetQueue) - 1 /\ Len(packetQueue) \in Nat \ {0}
        /\ Last(packetQueue) = packetQueue[Len(packetQueue)]
        /\ \A i \in 1..Len(packetQueue') : packetQueue'[i] = packetQueue[i]
    BY <2>1, FrontOf
  <2>3. Last(packetQueue) \in Msg
    BY <2>1, FrontInSeq
  <2>4. cur'.id = Last(packetQueue).id /\ UNCHANGED outbox /\ hPc = "pop"
    BY <1>3, <2>3 DEF HPop, Take, Msg
  <2>5. hPc' \notin {"poll", "pop"}
    BY <1>3 DEF HPop, Take, HandlerOf
  <2>6. \A n : Has(packetQueue, n) => n = cur'.id \/ Has(packetQueue', n)
    <3> SUFFICES ASSUME NEW n, NEW i \in 1..Len(packetQueue), packetQueue[i].id = n,
                        n # cur'.id
                 PROVE  Has(packetQueue', n)
      BY DEF Has
    <3>1. i \in 1..Len(packetQueue') /\ packetQueue'[i].id = n
      BY <2>2, <2>4
    <3> QED
      BY <3>1 DEF Has
  <2>7. \A n \in 1..sent : n = cur.id => Replied(n)
    BY <2>4 DEF LossInv
  <2> QED
    BY <1>0, <1>1, <1>2, <2>4, <2>5, <2>6, <2>7 DEF LossInv, Replied, ThrownOn
<1>4. CASE ~HPop
  <2>1. UNCHANGED <<packetQueue, cur>>
    BY <1>4 DEF Handler, HPoll, HQueueEmpty, HPopTornCrash, HNoHandler, HEmptyKey,
                HPing, HUseMT, HGenKey, HTokenRsp, HNotify, HLoginRsp, handlerVars
  <2>2. ASSUME NEW id, NEW key, NEW next, Send(id, key, next)
        PROVE  Replied(cur.id)' /\ \A n : Replied(n) => Replied(n)'
    <3> DEFINE rsp == [id |-> id, key |-> key, req |-> cur.id]
    <3>1. outbox' = Append(outbox, rsp) /\ rsp.req = cur.id /\ outbox \in Seq(Reply)
      BY <2>2 DEF Send, TypeOK
    <3> HIDE DEF rsp
    <3>2. /\ Len(outbox) \in Nat /\ Len(outbox') = Len(outbox) + 1
          /\ outbox'[Len(outbox) + 1] = rsp
          /\ \A i \in 1..Len(outbox) : outbox'[i] = outbox[i]
      BY <3>1
    <3> QED
      BY <2>1, <3>1, <3>2 DEF Replied
  <2>3. CASE HPing \/ HTokenRsp \/ HNotify \/ HLoginRsp
    <3>1. Replied(cur.id)' /\ \A n : Replied(n) => Replied(n)'
      BY <2>2, <2>3 DEF HPing, HTokenRsp, HNotify, HLoginRsp
    <3> QED
      BY <1>0, <1>1, <1>2, <2>1, <3>1 DEF LossInv, Has, ThrownOn
  <2>4. CASE ~(HPing \/ HTokenRsp \/ HNotify \/ HLoginRsp)
    <3>1. UNCHANGED outbox /\ (hPc' \in {"poll", "pop"} => hPc \in {"poll", "pop"})
      BY <1>4, <2>4 DEF Handler, HPoll, HQueueEmpty, HPopTornCrash, HNoHandler,
                        HEmptyKey, HUseMT, HGenKey, handlerVars
    <3> QED
      BY <1>0, <1>1, <1>2, <2>1, <3>1 DEF LossInv, Has, Replied, ThrownOn
  <2> QED
    BY <2>3, <2>4
<1> QED
  BY <1>3, <1>4

LEMMA LossStep ==
    ASSUME TypeOK, raced \/ OrderInv, KeyInv, raced \/ LossInv, [Next]_vars
    PROVE  (raced \/ LossInv)'
<1> SUFFICES ASSUME OrderInv, LossInv, ~raced' PROVE LossInv'
  BY RacedStays
<1>1. CASE Background \/ UseAfterFree \/ Tick \/ UNCHANGED vars
  BY <1>1 DEF Background, UseAfterFree, Tick, vars, clientVars, ioVars, keyVars,
              handlerVars, historyVars, LossInv, Has, Replied, ThrownOn, Taken, Done, InHand
<1> QED
  BY <1>1, LossClient, LossDatagram, LossIoStep, LossHandler DEF Next, Race

\* What joining two runs of requests does to the numbers they hold.
LEMMA HasJoin ==
    ASSUME NEW s \in Seq(Msg), NEW t \in Seq(Msg), NEW n, Has(s, n) \/ Has(t, n)
    PROVE  Has(s \o t, n)
<1>1. /\ Len(s) \in Nat /\ Len(t) \in Nat /\ Len(s \o t) = Len(s) + Len(t)
      /\ \A i \in 1..Len(s) : (s \o t)[i] = s[i]
      /\ \A i \in 1..Len(t) : (s \o t)[Len(s) + i] = t[i]
  OBVIOUS
<1>2. CASE Has(s, n)
  BY <1>1, <1>2 DEF Has
<1>3. CASE Has(t, n)
  <2>1. PICK i \in 1..Len(t) : t[i].id = n
    BY <1>3 DEF Has
  <2>2. Len(s) + i \in 1..Len(s \o t) /\ (s \o t)[Len(s) + i].id = n
    BY <1>1, <2>1
  <2> QED
    BY <2>2 DEF Has
<1> QED
  BY <1>2, <1>3

LEMMA LateHas ==
    ASSUME TypeOK, OrderInv, NEW n \in 1..sent, n > Done
    PROVE  Has(InIo, n) \/ Has(ready, n) \/ Has(wire, n)
<1>1. /\ Len(ready) \in Nat /\ Len(wire) \in Nat /\ sent \in Nat /\ Taken \in Nat
      /\ Taken = sent - Len(wire) - Len(ready)
      /\ Done = IF InHand THEN Taken - 1 ELSE Taken
  BY DEF TypeOK, OrderInv, Taken, Done
<1>2. CASE n <= Taken
  <2>1. InHand /\ n = Taken
    BY <1>1, <1>2
  <2>2. InIo = <<ioMsg>> /\ ioMsg.id = n
    BY <2>1 DEF InIo, InHand, OrderInv
  <2> QED
    BY <2>2 DEF Has
<1>3. CASE n > Taken /\ n <= Taken + Len(ready)
  <2>1. n - Taken \in 1..Len(ready) /\ ready[n - Taken].id = Taken + (n - Taken)
    BY <1>1, <1>3 DEF OrderInv
  <2> QED
    BY <1>1, <2>1 DEF Has
<1>4. CASE n > Taken + Len(ready)
  <2>1. /\ n - (sent - Len(wire)) \in 1..Len(wire)
        /\ wire[n - (sent - Len(wire))].id = sent - Len(wire) + (n - (sent - Len(wire)))
    BY <1>1, <1>4 DEF OrderInv
  <2> QED
    BY <1>1, <2>1 DEF Has
<1> QED
  BY <1>1, <1>2, <1>3, <1>4

LEMMA QueueHas ==
    ASSUME TypeOK, NEW n, Has(packetQueue, n)
    PROVE  Has(Reverse(packetQueue), n)
<1>1. packetQueue \in Seq(Msg) /\ Len(packetQueue) \in Nat
  BY DEF TypeOK
<1>2. PICK i \in 1..Len(packetQueue) : packetQueue[i].id = n
  BY DEF Has
<1>3. Len(packetQueue) - i + 1 \in 1..Len(packetQueue)
  BY <1>1
<1>4. /\ Len(Reverse(packetQueue)) = Len(packetQueue)
      /\ Reverse(packetQueue)[Len(packetQueue) - i + 1] =
            packetQueue[Len(packetQueue) - (Len(packetQueue) - i + 1) + 1]
  BY <1>1, <1>3 DEF Reverse
<1>5. Len(packetQueue) - (Len(packetQueue) - i + 1) + 1 = i
  BY <1>1
<1> QED
  BY <1>2, <1>3, <1>4, <1>5 DEF Has

LEMMA PipelineHas ==
    ASSUME TypeOK, OrderInv, NEW n \in 1..sent,
           n = cur.id \/ Has(packetQueue, n) \/ n > Done
    PROVE  Has(Pipeline, n)
<1> DEFINE p1 == <<cur>> \o Reverse(packetQueue)
           p2 == p1 \o InIo
           p3 == p2 \o ready
<1>1. /\ <<cur>> \in Seq(Msg) /\ Reverse(packetQueue) \in Seq(Msg) /\ InIo \in Seq(Msg)
      /\ ready \in Seq(Msg) /\ wire \in Seq(Msg)
  BY RunOfQueue DEF TypeOK, InIo, Run
<1>2. p1 \in Seq(Msg) /\ p2 \in Seq(Msg) /\ p3 \in Seq(Msg)
  BY <1>1
<1>3. n = cur.id => Has(<<cur>>, n)
  BY DEF Has
<1>4. \/ Has(<<cur>>, n) \/ Has(Reverse(packetQueue), n)
      \/ Has(InIo, n) \/ Has(ready, n) \/ Has(wire, n)
  BY <1>3, QueueHas, LateHas
<1>5. Has(<<cur>>, n) \/ Has(Reverse(packetQueue), n) => Has(p1, n)
  BY <1>1, HasJoin
<1>6. Pipeline = p3 \o wire
  BY DEF Pipeline
<1> HIDE DEF p1
<1>7. Has(p1, n) \/ Has(InIo, n) => Has(p2, n)
  BY <1>1, <1>2, HasJoin
<1> HIDE DEF p2
<1>8. Has(p2, n) \/ Has(ready, n) => Has(p3, n)
  BY <1>1, <1>2, HasJoin
<1> HIDE DEF p3
<1>9. Has(p3, n) \/ Has(wire, n) => Has(p3 \o wire, n)
  BY <1>1, <1>2, HasJoin
<1> QED
  BY <1>4, <1>5, <1>6, <1>7, <1>8, <1>9

\* No request disappears between the client and its answer, while the ends of the
\* deque are right, but those that BasePacket cannot read: encrypted under the
\* dispatch key before the client knew of the switch, and decrypted after SetUseMT.
THEOREM NoRequestLost == Spec => []NothingLost
<1>1. TypeOK /\ (raced \/ OrderInv) /\ (raced \/ LossInv) => NothingLost
  <2> SUFFICES ASSUME TypeOK, OrderInv, LossInv
               PROVE  NothingLost
    BY DEF NothingLost
  <2>1. \A n \in 1..sent : Has(Pipeline, n) \/ Replied(n) \/ ThrownOn(n)
    BY PipelineHas DEF LossInv
  <2> QED
    BY <2>1 DEF NothingLost, LossInv, Has, Replied, ThrownOn
<1>2. Init => LossInv
  BY LossInit
<1>3. /\ (TypeOK /\ KeyInv) /\ (TypeOK /\ (raced \/ OrderInv)) /\ (raced \/ LossInv)
      /\ [Next]_vars
      => (raced \/ LossInv)'
  BY LossStep
<1>4. Spec => [](raced \/ LossInv)
  BY <1>2, <1>3, KeyCorrect, OrderCorrect, PTL DEF Spec
<1> QED
  BY <1>1, <1>4, OrderCorrect, PTL

-----------------------------------------------------------------------------
(* The protocol.                                                            *)

LastAnswered == Protocol!LastAnswered

\* Where the handler thread is between two packets of the protocol.
Replying ==
    /\ hPc \in {"ping", "useMT", "genKey", "tokenRsp", "notify"} => cur.id > 0
    /\ LastAnswered <= cur.id
    /\ hPc \in {"ping", "useMT", "genKey", "tokenRsp"} => LastAnswered < cur.id
    /\ hPc = "notify" => IF burst = 0 THEN LastAnswered < cur.id ELSE LastAnswered = cur.id
    /\ sessionState = "WAITING_FOR_TOKEN" => ~mtKey /\ outbox = <<>>
    /\ hPc \in {"useMT", "genKey"} => sessionState = "WAITING_FOR_TOKEN"
    /\ hPc = "tokenRsp" => sessionState = "WAITING_FOR_LOGIN" /\ outbox = <<>>
    /\ sessionState # "WAITING_FOR_TOKEN" /\ hPc # "tokenRsp" => outbox # <<>>
    /\ hPc = "notify" => sessionState = "WAITING_FOR_LOGIN" /\ burst \in 0..5
    /\ hPc # "notify" => burst = IF sessionState = "PICKING_CHARACTER" THEN 6 ELSE 0

\* A send that threw leaves the thread between two of those places; the process
\* dies of it.
ReplyInv == sent <= MaxMsgs /\ (crash = "none" => Replying)

LEMMA ReplyInit == Init => ReplyInv
BY GameSessionAssumption
   DEF Init, ReplyInv, Replying, LastAnswered, Protocol!LastAnswered, NoMsg

\* The numbers of requests fit the requests of the protocol.
LEMMA CurIsSent ==
    ASSUME TypeOK, OrderInv
    PROVE  cur.id \in Nat /\ cur.id <= sent
<1>1. /\ Len(ready) \in Nat /\ Len(wire) \in Nat /\ sent \in Nat /\ cur.id \in Nat
      /\ Taken = sent - Len(wire) - Len(ready) /\ Taken \in Nat
      /\ Done = IF InHand THEN Taken - 1 ELSE Taken
      /\ cur.id <= Done
  BY IdsAreNumbers DEF TypeOK, OrderInv, Taken, Done
<1> QED
  BY <1>1

\* What a Send adds, in the terms of the protocol.
LEMMA ReplySend ==
    ASSUME TypeOK, NEW id, NEW key, NEW next, Send(id, key, next)
    PROVE  /\ Protocol!Emit(id, key, cur.id)
           /\ outbox' # <<>>
           /\ cur' = cur => LastAnswered' = cur'.id
           /\ crash' = "none" => hPc' = next
<1> DEFINE rsp == [id |-> id, key |-> key, req |-> cur.id]
<1>1. outbox' = Append(outbox, rsp) /\ rsp.req = cur.id /\ outbox \in Seq(Reply)
  BY DEF Send, TypeOK
<1>2. Protocol!Emit(id, key, cur.id)
  BY <1>1 DEF Protocol!Emit
<1> HIDE DEF rsp
<1>3. /\ Len(outbox) \in Nat /\ Len(outbox') = Len(outbox) + 1 /\ outbox' # <<>>
      /\ outbox'[Len(outbox')] = rsp
  BY <1>1
<1>4. LastAnswered' = rsp.req
  BY <1>3 DEF LastAnswered, Protocol!LastAnswered
<1> QED
  BY <1>1, <1>2, <1>3, <1>4 DEF Send

LEMMA ReplyHandler ==
    ASSUME TypeOK, OrderInv, KeyInv, ReplyInv, Handler
    PROVE  ReplyInv' /\ [Protocol!Next]_(Protocol!vars)
<1>0. /\ sent' = sent /\ sent <= MaxMsgs /\ crash = "none" /\ Replying
      /\ MaxMsgs \in Nat /\ cur.id \in Nat /\ cur.id <= MaxMsgs
      /\ LastAnswered \in Int
  <2>1. LastAnswered \in Int
    <3>1. outbox # <<>> => outbox[Len(outbox)] \in Reply
      BY DEF TypeOK
    <3> QED
      BY <3>1 DEF LastAnswered, Protocol!LastAnswered, Reply
  <2> QED
    BY <2>1, CurIsSent, GameSessionAssumption DEF Handler, clientVars, ReplyInv, TypeOK
<1>1. SUFFICES (crash' = "none" => Replying') /\ [Protocol!Next]_(Protocol!vars)
  BY <1>0 DEF ReplyInv
<1> USE DEF Replying
<1>2. CASE HPoll \/ HQueueEmpty
  BY <1>0, <1>2 DEF HPoll, HQueueEmpty, LastAnswered, Protocol!LastAnswered, keyVars,
                    Protocol!vars
<1>3. CASE HPop
  <2>1. packetQueue \in Seq(Msg) /\ packetQueue # <<>>
    BY <1>3 DEF HPop, Take, HasPacket, TypeOK
  <2>2. /\ Len(packetQueue) \in 1..Len(packetQueue)
        /\ Last(packetQueue) = packetQueue[Len(packetQueue)]
    BY <2>1, FrontOf
  <2>3. PICK kind \in Kinds :
          /\ cur' = [Last(packetQueue) EXCEPT !.kind = kind]
          /\ hPc' = IF Gate(kind) THEN HandlerOf(kind) ELSE "stopped"
    BY <1>3 DEF HPop, Take
  <2>4. cur'.id = Last(packetQueue).id /\ Last(packetQueue).id \in Nat
    <3>1. Last(packetQueue) \in Msg
      BY <2>1, FrontInSeq
    <3> QED
      BY <2>3, <3>1 DEF Msg
  <2>5. cur.id < cur'.id /\ cur'.id \in Nat
    BY <2>2, <2>4 DEF OrderInv
  <2>6. UNCHANGED <<mtKey, sessionState, burst, outbox, crash>> /\ LastAnswered' = LastAnswered
    BY <1>3 DEF HPop, Take, keyVars, LastAnswered, Protocol!LastAnswered
  <2>7. /\ hPc' \in {"ping", "useMT", "notify", "noHandler", "stopped"}
        /\ hPc' = "useMT" => sessionState = "WAITING_FOR_TOKEN"
        /\ hPc' = "notify" => sessionState = "WAITING_FOR_LOGIN"
    BY <2>3 DEF Gate, HandlerOf
  <2>8. hPc = "pop"
    BY <1>3 DEF HPop, Take
  <2> QED
    BY <1>0, <2>5, <2>6, <2>7, <2>8 DEF Protocol!vars
<1>4. CASE HPopTornCrash \/ HNoHandler \/ HEmptyKey
  BY <1>4 DEF HPopTornCrash, HNoHandler, HEmptyKey, handlerVars, Protocol!vars
<1>5. CASE HPing
  <2>1. Send("PingRsp", "mt", "pop") /\ mtKey
    BY <1>5 DEF HPing, Send
  <2>2. UNCHANGED <<mtKey, sessionState, cur, burst>> /\ hPc = "ping"
    BY <1>5 DEF HPing, keyVars
  <2>3. outbox # <<>> /\ burst \in {0, 6} /\ cur.id > LastAnswered /\ cur.id \in 1..MaxMsgs
    BY <1>0, <2>1, <2>2 DEF TypeOK
  <2>4. Protocol!AnswerPing(cur.id)
    BY <2>1, <2>2, <2>3, ReplySend, BurstLengths
       DEF Protocol!AnswerPing, Protocol!BurstLength, LastAnswered
  <2>5. Protocol!Next
    BY <2>3, <2>4 DEF Protocol!Next
  <2>6. crash' = "none" => Replying'
    BY <1>0, <2>1, <2>2, <2>3, ReplySend
  <2> QED
    BY <2>5, <2>6
<1>6. CASE HUseMT
  BY <1>0, <1>6 DEF HUseMT, LastAnswered, Protocol!LastAnswered, Protocol!vars
<1>7. CASE HGenKey
  BY <1>0, <1>7 DEF HGenKey, LastAnswered, Protocol!LastAnswered, Protocol!vars
<1>8. CASE HTokenRsp
  <2>1. Send("GetPlayerTokenRsp", "dispatch", "pop")
    BY <1>8 DEF HTokenRsp
  <2>2. UNCHANGED <<mtKey, sessionState, cur, burst>> /\ hPc = "tokenRsp"
    BY <1>8 DEF HTokenRsp, keyVars
  <2>3. Protocol!AnswerToken(cur.id)
    BY <1>0, <2>1, <2>2, ReplySend DEF Protocol!AnswerToken
  <2>4. Protocol!Next
    <3>1. cur.id \in 1..MaxMsgs
      BY <1>0, <2>2
    <3> QED
      BY <2>3, <3>1 DEF Protocol!Next
  <2>5. crash' = "none" => Replying'
    BY <1>0, <2>1, <2>2, ReplySend
  <2> QED
    BY <2>4, <2>5
<1>9. CASE HNotify
  <2>1. Send(LoginNotifies[burst + 1], "mt", "notify") /\ burst' = burst + 1
    BY <1>9 DEF HNotify
  <2>2. UNCHANGED <<mtKey, sessionState, cur>> /\ hPc = "notify" /\ burst \in 0..4
    BY <1>0, <1>9, BurstLengths DEF HNotify, keyVars
  <2>3. ASSUME burst = 0
        PROVE  Protocol!Next
    <3>1. Protocol!BeginLogin(cur.id)
      BY <1>0, <2>1, <2>2, <2>3, ReplySend DEF Protocol!BeginLogin, LastAnswered
    <3>2. cur.id \in 1..MaxMsgs
      BY <1>0, <2>2
    <3> QED
      BY <3>1, <3>2 DEF Protocol!Next
  <2>4. ASSUME burst # 0
        PROVE  Protocol!Next
    <3>1. Protocol!ContinueLogin
      BY <1>0, <2>1, <2>2, <2>4, ReplySend, BurstLengths
         DEF Protocol!ContinueLogin, LastAnswered
    <3> QED
      BY <3>1 DEF Protocol!Next
  <2>5. crash' = "none" => Replying'
    BY <1>0, <2>1, <2>2, ReplySend
  <2> QED
    BY <2>3, <2>4, <2>5
<1>10. CASE HLoginRsp
  <2>1. Send("GetPlayerTokenRsp", "dispatch", "pop") /\ burst' = burst + 1
    BY <1>10 DEF HLoginRsp
  <2>2. /\ UNCHANGED <<mtKey, cur>> /\ sessionState' = "PICKING_CHARACTER"
        /\ hPc = "notify" /\ burst = 5
    BY <1>10, BurstLengths DEF HLoginRsp, keyVars
  <2>3. Protocol!EndLogin
    BY <1>0, <2>1, <2>2, ReplySend, BurstLengths DEF Protocol!EndLogin, LastAnswered
  <2>4. Protocol!Next
    BY <2>3 DEF Protocol!Next
  <2>5. crash' = "none" => Replying'
    BY <1>0, <2>1, <2>2, ReplySend
  <2> QED
    BY <2>4, <2>5
<1> QED
  BY <1>2, <1>3, <1>4, <1>5, <1>6, <1>7, <1>8, <1>9, <1>10 DEF Handler

LEMMA ReplyStep ==
    ASSUME TypeOK, raced \/ OrderInv, KeyInv, raced \/ ReplyInv, [Next]_vars
    PROVE  (raced \/ ReplyInv)' /\ [raced \/ Protocol!Next]_(Protocol!vars)
<1>0. CASE raced
  BY <1>0, RacedStays
<1> SUFFICES ASSUME OrderInv, ReplyInv, ~raced
             PROVE  (raced' \/ ReplyInv') /\ [Protocol!Next]_(Protocol!vars)
  BY <1>0
<1>1. CASE Client
  <2>1. UNCHANGED <<keyVars, handlerVars, crash>>
    BY <1>1 DEF Client
  <2>2. sent' <= MaxMsgs
    <3>1. sent \in Nat /\ sent <= MaxMsgs /\ MaxMsgs \in Nat
      BY GameSessionAssumption DEF TypeOK, ReplyInv
    <3>2. sent' = sent \/ (sent < MaxMsgs /\ sent' = sent + 1)
      BY <1>1 DEF Client, ClientSend, ClientReceive
    <3> QED
      BY <3>1, <3>2
  <2> QED
    BY <2>1, <2>2 DEF ReplyInv, Replying, keyVars, handlerVars, LastAnswered,
                      Protocol!LastAnswered, Protocol!vars
<1>2. CASE Datagram \/ IoStep \/ Background \/ UseAfterFree \/ Tick \/ UNCHANGED vars
  <2>1. UNCHANGED <<sent, mtKey, sessionState, hPc, cur, burst, outbox>>
    BY <1>2 DEF Datagram, IoStep, Background, UseAfterFree, Tick, vars, IoLeaves,
                clientVars, keyVars, handlerVars
  <2>2. crash' = "none" => crash = "none"
    BY <1>2 DEF Datagram, IoStep, Background, UseAfterFree, Tick, vars
  <2> QED
    BY <2>1, <2>2 DEF ReplyInv, Replying, LastAnswered, Protocol!LastAnswered,
                      Protocol!vars
<1>3. CASE Race
  BY <1>3 DEF Race, Take, Protocol!vars
<1> QED
  BY <1>1, <1>2, <1>3, ReplyHandler DEF Next

\* The packets a session sends are a run of SessionProtocol: one token response
\* first, never a ping or a notify before it, one login burst that nothing
\* interrupts, and answers in the order of the requests, until the ends of the
\* deque are spoilt.
THEOREM ImplementsProtocol == Spec => FollowsProtocol
<1>1. Init => Protocol!Init
  BY DEF Init, Protocol!Init
<1>2. Init => ReplyInv
  BY ReplyInit
<1>3. /\ (TypeOK /\ KeyInv) /\ (TypeOK /\ (raced \/ OrderInv)) /\ (raced \/ ReplyInv)
      /\ [Next]_vars
      => (raced \/ ReplyInv)' /\ [raced \/ Protocol!Next]_(Protocol!vars)
  BY ReplyStep
<1> QED
  BY <1>1, <1>2, <1>3, KeyCorrect, OrderCorrect, PTL DEF Spec, FollowsProtocol

-----------------------------------------------------------------------------
(* The client that waits for each reply.                                    *)

\* The requests of a client that follows the protocol, by number.
Proper(m) ==
    /\ m.kind = IF m.id = 1 THEN "GetPlayerTokenReq"
                ELSE IF m.id = 2 THEN "PlayerLoginReq" ELSE "PingReq"
    /\ m.key = IF m.id = 1 THEN "dispatch" ELSE "mt"

\* With such a client one request at a time is under way, and the two ends
\* agree on the key and on the place in the protocol whenever it is read.
Serving ==
    /\ \A i \in 1..Len(wire) : Proper(wire[i])
    /\ \A i \in 1..Len(ready) : Proper(ready[i])
    /\ InHand => Proper(ioMsg)
    /\ ioPc = "decrypt" => ioKey = ioMsg.key
    /\ \A i \in 1..Len(packetQueue) : Proper(packetQueue[i])
    /\ sent <= cur.id + 1
    /\ sent >= 2 => mtKey /\ sessionState # "WAITING_FOR_TOKEN"
    /\ cur.id = 0 => ~useMT /\ sessionState = "WAITING_FOR_TOKEN"
    /\ hPc \in {"useMT", "genKey", "tokenRsp"} => cur.id = 1
    /\ hPc = "notify" => cur.id = 2
    /\ hPc = "ping" => cur.id >= 3
    /\ hPc # "noHandler"
    /\ sessionState = "PICKING_CHARACTER" => cur.id >= 2
    /\ hPc = "stopped" => state # "CONNECTED"
    /\ lost = {} /\ crash \notin {"emptyKey", "noHandler"}

OrderlyInv ==
    /\ \A i \in 1..Len(outbox) : outbox[i].req <= cur.id
    /\ outbox # <<>> => outbox[1].id = "GetPlayerTokenRsp"
    /\ orderly /\ ~garbled => Serving

LEMMA OrderlyInit == Init => OrderlyInv
BY DEF Init, OrderlyInv, Serving, NoMsg, InHand

LEMMA OrderlyClient ==
    ASSUME TypeOK, OrderInv, KeyInv, ReplyInv, OrderlyInv, Client
    PROVE  OrderlyInv'
<1>0. UNCHANGED <<ioVars, liveVars, keyVars, packetQueue, handlerVars, crash, historyVars>>
  BY DEF Client
<1>1. CASE ClientReceive
  BY <1>0, <1>1 DEF ClientReceive, OrderlyInv, Serving, InHand, Proper, ioVars, liveVars,
                    keyVars, handlerVars, historyVars
<1>2. ASSUME NEW kind \in Kinds, ClientSend(kind)
      PROVE  OrderlyInv'
  <2> SUFFICES ASSUME orderly', ~garbled'
               PROVE  Serving'
    BY <1>0 DEF OrderlyInv, handlerVars
  <2> DEFINE m == [id |-> sent + 1, kind |-> kind, key |-> ClientKey]
  <2>1. /\ orderly /\ ~garbled /\ Serving
        /\ sent > 0 => Answered(sent)
        /\ OrderlyKind(kind)
        /\ wire' = Append(wire, m) /\ sent' = sent + 1
    BY <1>0, <1>2 DEF ClientSend, OrderlyInv, historyVars, TypeOK
  <2>2. /\ sent \in Nat /\ seen \in Nat /\ Len(outbox) \in Nat /\ seen <= Len(outbox)
        /\ cur.id \in Nat /\ cur.id <= sent
    BY CurIsSent DEF TypeOK, KeyInv, KeyMade
  <2>3. ASSUME sent > 0
        PROVE  sent <= cur.id /\ 1 \in 1..seen /\ outbox # <<>>
    <3>1. PICK i \in 1..seen : outbox[i].req = sent
      BY <2>1, <2>3 DEF Answered
    <3>2. i \in 1..Len(outbox) /\ 1 \in 1..seen /\ Len(outbox) # 0
      BY <2>2, <3>1
    <3> QED
      BY <2>1, <3>1, <3>2 DEF OrderlyInv
  <2>4. sent > 0 => mtKey /\ sessionState # "WAITING_FOR_TOKEN"
    BY <2>3 DEF KeyInv, KeyMade, ReplyInv, Replying, Client
  <2>5. sent = 0 => outbox = <<>> /\ seen = 0
    BY <2>1, <2>2 DEF Serving, ReplyInv, Replying, Client
  <2>6. ClientKey = IF sent = 0 THEN "dispatch" ELSE "mt"
    BY <2>2, <2>3, <2>5 DEF ClientKey, OrderlyInv
  <2>7. Proper(m)
    <3>1. m.id = sent + 1 /\ m.kind = kind /\ m.key = ClientKey
      OBVIOUS
    <3> HIDE DEF m
    <3> QED
      BY <2>1, <2>2, <2>6, <3>1 DEF Proper, OrderlyKind
  <2> HIDE DEF m
  <2>8. \A i \in 1..Len(wire') : Proper(wire'[i])
    <3>1. /\ wire \in Seq(Msg) /\ Len(wire') = Len(wire) + 1 /\ Len(wire) \in Nat
          /\ \A i \in 1..Len(wire) : wire'[i] = wire[i]
          /\ wire'[Len(wire) + 1] = m
      BY <2>1 DEF TypeOK
    <3> QED
      BY <2>1, <2>7, <3>1 DEF Serving
  <2>9. sent' <= cur.id + 1
    BY <2>1, <2>2, <2>3
  <2>10. sent' >= 2 => sent > 0
    BY <2>1, <2>2
  <2> QED
    BY <1>0, <2>1, <2>4, <2>8, <2>9, <2>10
       DEF Serving, InHand, Proper, ioVars, liveVars, keyVars, handlerVars, historyVars
<1> QED
  BY <1>1, <1>2 DEF Client

LEMMA OrderlyDatagram ==
    ASSUME TypeOK, OrderlyInv, Datagram
    PROVE  OrderlyInv'
<1>1. /\ UNCHANGED <<sent, orderly, state, mtKey, useMT, packetQueue, sessionState, hPc,
                     cur, outbox, crash, lost, garbled>>
      /\ ~InHand' /\ ioPc' # "decrypt"
  BY DEF Datagram, IoInput, IoLeaves, keyVars, handlerVars, historyVars, InHand
<1>2. ASSUME Serving
      PROVE  /\ \A i \in 1..Len(wire') : Proper(wire'[i])
             /\ \A i \in 1..Len(ready') : Proper(ready'[i])
  BY <1>2, DatagramMoves DEF Serving
<1> QED
  BY <1>1, <1>2 DEF OrderlyInv, Serving

\* The request a Recv hands out, and the key ParsePacket takes to it.
LEMMA OrderlyRecv ==
    ASSUME TypeOK, OrderInv, KeyInv, Serving, ioPc = "recv", ready # <<>>
    PROVE  DecryptKey = Head(ready).key /\ Proper(Head(ready))
<1>1. /\ ready \in Seq(Msg) /\ Len(ready) \in Nat /\ Len(ready) >= 1
      /\ Head(ready) = ready[1] /\ 1 \in 1..Len(ready)
      /\ Len(wire) \in Nat /\ sent \in Nat
  BY DEF TypeOK
<1>2. /\ Taken \in Nat /\ Taken = sent - Len(wire) - Len(ready) /\ Done = Taken
      /\ ready[1].id = Taken + 1 /\ cur.id <= Done /\ cur.id \in Nat
  BY <1>1, IdsAreNumbers DEF OrderInv, Taken, Done, InHand
<1>3. Proper(ready[1])
  BY <1>1 DEF Serving
<1>4. CASE Taken = 0
  <2>1. cur.id = 0 /\ ready[1].id = 1
    BY <1>2, <1>4
  <2>2. ~useMT
    BY <2>1 DEF Serving
  <2> QED
    BY <1>1, <1>3, <2>1, <2>2 DEF Proper, DecryptKey
<1>5. CASE Taken > 0
  <2>1. sent >= 2 /\ ready[1].id # 1
    BY <1>1, <1>2, <1>5
  <2> QED
    BY <1>1, <1>3, <2>1 DEF Serving, Proper, DecryptKey, KeyInv, KeyMade
<1>6. Taken = 0 \/ Taken > 0
  BY <1>2
<1> QED
  BY <1>4, <1>5, <1>6

\* A request under the mt key in the io thread's hands comes after the key.
LEMMA OrderlyKeyMade ==
    ASSUME TypeOK, OrderInv, Serving, InHand, Proper(ioMsg), ioMsg.key = "mt"
    PROVE  mtKey
<1>1. Len(wire) \in Nat /\ Len(ready) \in Nat /\ sent \in Nat
  BY DEF TypeOK
<1>2. ioMsg.id = Taken /\ Taken >= 1 /\ Taken <= sent /\ Taken \in Nat
  BY <1>1 DEF OrderInv, Taken, Done
<1>3. ioMsg.id # 1
  BY DEF Proper
<1> QED
  BY <1>1, <1>2, <1>3 DEF Serving

LEMMA OrderlyIoStep ==
    ASSUME TypeOK, OrderInv, KeyInv, OrderlyInv, IoStep
    PROVE  OrderlyInv'
<1>0. UNCHANGED <<sent, orderly, state, mtKey, useMT, sessionState, hPc, cur, outbox>>
  BY DEF IoStep, IoLeaves, keyVars, handlerVars
<1> SUFFICES ASSUME orderly', ~garbled'
             PROVE  Serving'
  BY <1>0 DEF OrderlyInv
<1>1. orderly /\ ~garbled /\ Serving
  BY <1>0 DEF OrderlyInv, IoStep, IoRecv, IoDecrypt, IoPush, IoConstruct, historyVars
<1>2. CASE IoRecv
  <2>1. UNCHANGED <<wire, packetQueue, crash, lost>> /\ ioPc = "recv"
    BY <1>2 DEF IoRecv, historyVars
  <2>2. CASE Readable
    <3>1. /\ ready \in Seq(Msg) /\ ready # <<>> /\ ioMsg' = Head(ready)
          /\ ready' = Tail(ready) /\ ioKey' = DecryptKey
      BY <1>2, <2>2 DEF IoRecv, Readable, TypeOK
    <3>2. \A i \in 1..Len(ready') : ready'[i] = ready[i + 1] /\ i + 1 \in 1..Len(ready)
      BY <3>1
    <3>3. \A i \in 1..Len(ready') : Proper(ready'[i])
      BY <1>1, <3>2 DEF Serving
    <3>4. ioKey' = ioMsg'.key /\ Proper(ioMsg')
      BY <1>1, <2>1, <3>1, OrderlyRecv
    <3> QED
      BY <1>0, <1>1, <2>1, <3>3, <3>4 DEF Serving
  <2>3. CASE ~Readable
    BY <1>0, <1>1, <1>2, <2>1, <2>3 DEF IoRecv, Serving, InHand
  <2> QED
    BY <2>2, <2>3
<1>3. CASE IoDecrypt
  <2>1. /\ UNCHANGED <<wire, ready, packetQueue, ioKey>> /\ ioPc = "decrypt" /\ InHand
        /\ ioKey = ioMsg.key /\ Proper(ioMsg)
    BY <1>1, <1>3 DEF IoDecrypt, InHand, Serving
  <2>2. ioKey = "mt" => mtKey
    BY <1>1, <2>1, OrderlyKeyMade
  <2>3. UNCHANGED <<ioMsg, lost, garbled, crash>>
    BY <1>3, <2>1, <2>2 DEF IoDecrypt, historyVars
  <2>4. ioPc' # "decrypt"
    BY <1>3, <2>1, <2>2 DEF IoDecrypt
  <2> QED
    BY <1>0, <1>1, <2>1, <2>3, <2>4 DEF Serving
<1>4. CASE IoPush
  <2>1. /\ UNCHANGED <<wire, ready, crash, lost>> /\ InHand /\ ~InHand' /\ ioPc' # "decrypt"
        /\ packetQueue' = <<ioMsg>> \o packetQueue /\ packetQueue \in Seq(Msg)
    BY <1>4 DEF IoPush, Pushed, InHand, historyVars, TypeOK
  <2>2. /\ Len(packetQueue) \in Nat /\ Len(packetQueue') = Len(packetQueue) + 1
        /\ packetQueue'[1] = ioMsg
        /\ \A i \in 2..Len(packetQueue') :
             packetQueue'[i] = packetQueue[i - 1] /\ i - 1 \in 1..Len(packetQueue)
    BY <2>1
  <2>3. \A i \in 1..Len(packetQueue') : Proper(packetQueue'[i])
    <3> TAKE i \in 1..Len(packetQueue')
    <3>1. i = 1 \/ i \in 2..Len(packetQueue')
      BY <2>2
    <3> QED
      BY <1>1, <2>1, <2>2, <3>1 DEF Serving
  <2> QED
    BY <1>0, <1>1, <2>1, <2>3 DEF Serving
<1>5. CASE IoConstruct
  BY <1>0, <1>1, <1>5 DEF IoConstruct, Serving, InHand, historyVars
<1> QED
  BY <1>2, <1>3, <1>4, <1>5 DEF IoStep

\* The request HPop takes is the next one, and the gate lets it through.
LEMMA OrderlyPop ==
    ASSUME TypeOK, OrderInv, KeyInv, ReplyInv, Serving, HPop, ~garbled', crash = "none"
    PROVE  /\ cur'.id = cur.id + 1 /\ cur'.id >= 1
           /\ hPc' = IF cur'.id = 1 THEN "useMT" ELSE IF cur'.id = 2 THEN "notify" ELSE "ping"
<1> DEFINE m == Last(packetQueue)
<1>1. packetQueue \in Seq(Msg) /\ packetQueue # <<>> /\ ~Torn
  BY DEF HPop, Take, HasPacket, TypeOK
<1>2. /\ Len(packetQueue) \in 1..Len(packetQueue)
      /\ m = packetQueue[Len(packetQueue)] /\ m \in Msg /\ m.id \in Nat
  <2>1. m \in Msg
    BY <1>1, FrontInSeq
  <2>2. \A x \in Msg : x.id \in Nat
    BY DEF Msg
  <2>3. Len(packetQueue) \in Nat \ {0} /\ m = packetQueue[Len(packetQueue)]
    BY <1>1, FrontOf
  <2> QED
    BY <2>1, <2>2, <2>3
<1>3. /\ Proper(m) /\ cur.id < m.id /\ m.id <= Done
  BY <1>2 DEF Serving, OrderInv
<1> HIDE DEF m
<1>4. cur' = [m EXCEPT !.kind = m.kind] /\ hPc' = IF Gate(m.kind) THEN HandlerOf(m.kind) ELSE "stopped"
  BY <1>1 DEF HPop, Take, m
<1>5. cur'.id = m.id
  BY <1>2, <1>4 DEF Msg
<1>6. /\ Len(ready) \in Nat /\ Len(wire) \in Nat /\ sent \in Nat /\ cur.id \in Nat
      /\ Taken = sent - Len(wire) - Len(ready) /\ Taken \in Nat
      /\ Done = IF InHand THEN Taken - 1 ELSE Taken
      /\ sent <= cur.id + 1
  BY IdsAreNumbers DEF TypeOK, OrderInv, Taken, Done, Serving
<1>7. m.id = cur.id + 1 /\ m.id <= sent
  BY <1>2, <1>3, <1>6
<1>8. CASE m.id = 1
  <2>1. m.kind = "GetPlayerTokenReq" /\ cur.id = 0
    BY <1>3, <1>6, <1>7, <1>8 DEF Proper
  <2>2. sessionState = "WAITING_FOR_TOKEN"
    BY <2>1 DEF Serving
  <2> QED
    BY <1>4, <1>5, <1>7, <1>8, <2>1, <2>2 DEF Gate, HandlerOf
<1>9. CASE m.id = 2
  <2>1. m.kind = "PlayerLoginReq" /\ cur.id = 1 /\ sent >= 2
    BY <1>3, <1>6, <1>7, <1>9 DEF Proper
  <2>2. sessionState = "WAITING_FOR_LOGIN"
    BY <2>1 DEF Serving, TypeOK
  <2> QED
    BY <1>4, <1>5, <1>7, <1>9, <2>1, <2>2 DEF Gate, HandlerOf
<1>10. CASE m.id # 1 /\ m.id # 2
  <2>1. m.kind = "PingReq"
    BY <1>3, <1>10 DEF Proper
  <2> QED
    BY <1>4, <1>5, <1>6, <1>7, <1>10, <2>1 DEF Gate, HandlerOf
<1> QED
  BY <1>8, <1>9, <1>10

LEMMA OrderlyHandler ==
    ASSUME TypeOK, OrderInv, KeyInv, ReplyInv, OrderlyInv, Handler
    PROVE  OrderlyInv'
<1>0. /\ UNCHANGED <<sent, seen, orderly, wire, ready, ioPc, ioMsg, ioKey, state, lost>>
      /\ crash = "none" /\ Replying /\ InHand' = InHand
      /\ cur.id \in Nat /\ cur.id <= sent /\ sent \in Nat
      /\ outbox \in Seq(Reply) /\ Len(outbox) \in Nat
  BY CurIsSent DEF Handler, clientVars, ioVars, liveVars, ReplyInv, InHand, TypeOK
<1>1. ASSUME orderly, ~garbled, Serving, hPc \in {"ping", "notify"}
      PROVE  mtKey
  BY <1>0, <1>1 DEF Serving
<1>2. garbled => garbled'
  BY DEF Handler, HPoll, HQueueEmpty, HPop, Take, HPopTornCrash, HNoHandler, HEmptyKey, HPing,
         HUseMT, HGenKey, HTokenRsp, HNotify, HLoginRsp
<1>3. ASSUME NEW id, NEW key, NEW next, Send(id, key, next), cur' = cur,
             outbox = <<>> => id = "GetPlayerTokenRsp"
      PROVE  /\ \A i \in 1..Len(outbox') : outbox'[i].req <= cur'.id
             /\ outbox' # <<>> => outbox'[1].id = "GetPlayerTokenRsp"
             /\ crash' \notin {"emptyKey", "noHandler"}
             /\ hPc' \in {hPc, next}
  <2> DEFINE rsp == [id |-> id, key |-> key, req |-> cur.id]
  <2>1. outbox' = Append(outbox, rsp) /\ rsp.req = cur.id /\ rsp.id = id
    BY <1>3 DEF Send
  <2> HIDE DEF rsp
  <2>2. /\ Len(outbox') = Len(outbox) + 1 /\ outbox'[Len(outbox) + 1] = rsp
        /\ \A i \in 1..Len(outbox) : outbox'[i] = outbox[i]
    BY <1>0, <2>1
  <2>3. outbox = <<>> \/ 1 \in 1..Len(outbox)
    BY <1>0
  <2>4. outbox = <<>> => Len(outbox) + 1 = 1
    BY <1>0
  <2> QED
    BY <1>0, <1>3, <2>1, <2>2, <2>3, <2>4 DEF OrderlyInv, Send
<1>4. CASE HPoll \/ HQueueEmpty
  BY <1>0, <1>4 DEF HPoll, HQueueEmpty, OrderlyInv, Serving, keyVars
<1>5. CASE HPop
  <2>1. packetQueue \in Seq(Msg) /\ packetQueue # <<>> /\ packetQueue' = Front(packetQueue)
    BY <1>5 DEF HPop, Take, HasPacket, TypeOK
  <2>2. /\ Len(packetQueue') = Len(packetQueue) - 1 /\ Len(packetQueue) \in Nat \ {0}
        /\ \A i \in 1..Len(packetQueue') : packetQueue'[i] = packetQueue[i]
    BY <2>1, FrontOf
  <2>3. UNCHANGED <<mtKey, useMT, sessionState, burst, outbox, crash>>
    BY <1>5 DEF HPop, Take, keyVars
  <2>4. cur.id < cur'.id /\ cur'.id \in Nat
    <3>1. Last(packetQueue) \in Msg /\ Last(packetQueue) = packetQueue[Len(packetQueue)]
      BY <2>1, FrontInSeq, FrontOf
    <3>2. cur'.id = Last(packetQueue).id
      BY <1>5, <3>1 DEF HPop, Take, Msg
    <3> QED
      BY <2>2, <3>1, <3>2 DEF OrderInv, Msg
  <2>5. \A i \in 1..Len(outbox) : outbox[i].req \in Nat
    <3>1. \A i \in 1..Len(outbox) : outbox[i] \in Reply
      BY <1>0
    <3>2. \A r \in Reply : r.req \in Nat
      BY DEF Reply
    <3> QED
      BY <3>1, <3>2
  <2>6. ASSUME orderly, ~garbled'
        PROVE  Serving'
    <3>1. Serving
      BY <1>2, <2>6 DEF OrderlyInv
    <3>2. /\ cur'.id = cur.id + 1 /\ cur'.id >= 1
          /\ hPc' = IF cur'.id = 1 THEN "useMT" ELSE IF cur'.id = 2 THEN "notify" ELSE "ping"
      BY <1>0, <1>5, <2>6, <3>1, OrderlyPop
    <3>3. \A i \in 1..Len(packetQueue') : Proper(packetQueue'[i])
      BY <2>2, <3>1 DEF Serving
    <3> QED
      BY <1>0, <2>3, <2>4, <3>1, <3>2, <3>3 DEF Serving
  <2> QED
    BY <1>0, <2>3, <2>4, <2>5, <2>6 DEF OrderlyInv
<1>6. CASE HPopTornCrash \/ HNoHandler \/ HEmptyKey
  <2>1. UNCHANGED <<useMT, mtKey, packetQueue, sessionState, hPc, cur, outbox, garbled>>
    BY <1>6 DEF HPopTornCrash, HNoHandler, HEmptyKey, keyVars, handlerVars
  <2>2. ASSUME orderly, ~garbled, Serving
        PROVE  crash' \notin {"emptyKey", "noHandler"}
    BY <1>1, <1>6, <2>2 DEF HPopTornCrash, HNoHandler, HEmptyKey, Serving
  <2> QED
    BY <1>0, <2>1, <2>2 DEF OrderlyInv, Serving
<1>7. CASE HPing
  <2>1. /\ Send("PingRsp", "mt", "pop") /\ hPc = "ping" /\ mtKey
        /\ UNCHANGED <<mtKey, useMT, packetQueue, sessionState, cur, burst, garbled>>
    BY <1>7 DEF HPing, Send, keyVars
  <2>2. outbox # <<>>
    BY <1>0, <2>1 DEF Replying
  <2> QED
    BY <1>0, <1>3, <2>1, <2>2 DEF OrderlyInv, Serving
<1>8. CASE HUseMT \/ HGenKey
  BY <1>0, <1>8 DEF HUseMT, HGenKey, OrderlyInv, Serving
<1>9. CASE HTokenRsp
  <2>1. /\ Send("GetPlayerTokenRsp", "dispatch", "pop") /\ hPc = "tokenRsp"
        /\ UNCHANGED <<mtKey, useMT, packetQueue, sessionState, cur, burst, garbled>>
    BY <1>9 DEF HTokenRsp, keyVars
  <2> QED
    BY <1>0, <1>3, <2>1 DEF OrderlyInv, Serving
<1>10. CASE HNotify
  <2>1. /\ Send(LoginNotifies[burst + 1], "mt", "notify") /\ hPc = "notify"
        /\ UNCHANGED <<mtKey, useMT, packetQueue, sessionState, cur, garbled>>
    BY <1>10 DEF HNotify, keyVars
  <2>2. outbox # <<>>
    BY <1>0, <2>1 DEF Replying
  <2> QED
    BY <1>0, <1>3, <2>1, <2>2 DEF OrderlyInv, Serving
<1>11. CASE HLoginRsp
  <2>1. /\ Send("GetPlayerTokenRsp", "dispatch", "pop") /\ hPc = "notify"
        /\ sessionState' = "PICKING_CHARACTER"
        /\ UNCHANGED <<mtKey, useMT, packetQueue, cur, garbled>>
    BY <1>11 DEF HLoginRsp, keyVars
  <2> QED
    BY <1>0, <1>3, <2>1 DEF OrderlyInv, Serving
<1> QED
  BY <1>4, <1>5, <1>6, <1>7, <1>8, <1>9, <1>10, <1>11 DEF Handler

LEMMA OrderlyStep ==
    ASSUME TypeOK, OrderInv, KeyInv, ReplyInv, OrderlyInv, [Next]_vars, ~raced'
    PROVE  OrderlyInv'
<1>1. CASE Background
  BY <1>1 DEF Background, BgUpdateThrows, BgClose, BgDelete, clientVars, ioVars, keyVars,
              handlerVars, historyVars, OrderlyInv, Serving, InHand, Proper
<1>2. CASE UseAfterFree \/ Tick \/ UNCHANGED vars
  BY <1>2 DEF UseAfterFree, Tick, vars, clientVars, ioVars, liveVars, keyVars, handlerVars,
              historyVars, OrderlyInv, Serving, InHand, Proper
<1> QED
  BY <1>1, <1>2, OrderlyClient, OrderlyDatagram, OrderlyIoStep, OrderlyHandler
     DEF Next, Race

\* A session whose deque has gone wrong counts as misread.
RaceInv == raced => garbled

LEMMA RaceStep == RaceInv /\ [Next]_vars => RaceInv'
BY DEF RaceInv, Next, Client, Datagram, IoInput, IoStep, IoRecv, IoDecrypt, IoPush,
       IoConstruct, Handler, HPoll, HQueueEmpty, HPop, HPopTornCrash, HNoHandler, HEmptyKey,
       HPing, HUseMT, HGenKey, HTokenRsp, HNotify, HLoginRsp, Race, Background,
       UseAfterFree, Tick, vars, historyVars

OrderlyOrRaced == RaceInv /\ (raced \/ (ReplyInv /\ OrderlyInv))

LEMMA OrderlyCorrect == Spec => []OrderlyOrRaced
<1>1. Init => OrderlyOrRaced
  BY ReplyInit, OrderlyInit DEF OrderlyOrRaced, RaceInv, Init
<1>2. /\ (TypeOK /\ KeyInv) /\ (TypeOK /\ (raced \/ OrderInv)) /\ OrderlyOrRaced
      /\ [Next]_vars
      => OrderlyOrRaced'
  BY RaceStep, RacedStays, ReplyStep, OrderlyStep DEF OrderlyOrRaced
<1> QED
  BY <1>1, <1>2, KeyCorrect, OrderCorrect, PTL DEF Spec

\* A client that waits for each reply and follows the protocol loses no request
\* to the key switch and is never refused: only a send that throws, the deque
\* read while it is written, or the deletion of the object ends its session.
THEOREM OrderlyServed == Spec => []OrderlyClientServed
<1>1. OrderlyOrRaced => OrderlyClientServed
  BY DEF OrderlyOrRaced, RaceInv, OrderlyInv, OrderlyClientServed, Serving
<1> QED
  BY <1>1, OrderlyCorrect, PTL

-----------------------------------------------------------------------------
(* The empty key.                                                           *)

\* A thread that meets an empty mt key dies of it, with nothing sent yet.
EmptyKeyInv == crash = "emptyKey" => outbox = <<>>

LEMMA EmptyKeyStep ==
    ASSUME TypeOK, KeyInv, EmptyKeyInv, [Next]_vars
    PROVE  EmptyKeyInv'
<1>1. CASE crash = "emptyKey"
  BY <1>1 DEF EmptyKeyInv, Next, Client, Datagram, IoStep, Handler, Race, Background,
              UseAfterFree, Tick, vars, handlerVars
<1>2. CASE crash # "emptyKey"
  <2> SUFFICES ASSUME crash' = "emptyKey" PROVE outbox' = <<>>
    BY DEF EmptyKeyInv
  <2>1. \/ IoStep /\ IoDecrypt /\ ~mtKey
        \/ Handler /\ HEmptyKey
    BY <1>2 DEF Next, Client, Datagram, IoInput, IoStep, IoRecv, IoDecrypt, IoPush,
                IoConstruct, Handler, HPoll, HQueueEmpty, HPop, Take, HPopTornCrash,
                HNoHandler, HPing, HUseMT, HGenKey, HTokenRsp, HNotify, HLoginRsp, Send,
                Race, Background, BgUpdateThrows, BgClose, BgDelete, UseAfterFree, Tick,
                vars
  <2>2. ~mtKey /\ UNCHANGED outbox
    BY <2>1 DEF IoStep, IoLeaves, HEmptyKey, handlerVars
  <2> QED
    BY <2>2 DEF KeyInv, KeyMade
<1> QED
  BY <1>1, <1>2

\* HandlePlayerTokenReq calls SetUseMT before GenerateMTKey, and a ping passes the
\* gate before either: whatever the client sends and however the threads meet, the
\* empty key can only be met while no reply is out; and never if the client waits
\* for each reply and no packet was misread.
THEOREM KeyWindow == Spec => []EmptyKeyOnlyEarly
<1>1. TypeOK /\ (raced \/ OrderInv) /\ KeyInv /\ OrderlyOrRaced /\ EmptyKeyInv
        => EmptyKeyOnlyEarly
  <2> SUFFICES ASSUME TypeOK, raced \/ OrderInv, KeyInv, OrderlyOrRaced, EmptyKeyInv,
                      crash = "emptyKey" \/ (ioPc = "decrypt" /\ ioKey = "mt" /\ ~mtKey)
               PROVE  outbox = <<>> /\ (orderly => garbled)
    BY DEF EmptyKeyOnlyEarly
  <2>1. outbox = <<>>
    BY DEF EmptyKeyInv, KeyInv, KeyMade
  <2>2. ASSUME orderly, ~garbled
        PROVE  FALSE
    <3>1. OrderInv /\ Serving
      BY <2>2 DEF OrderlyOrRaced, RaceInv, OrderlyInv
    <3>2. ioPc = "decrypt" /\ ioKey = "mt" /\ ~mtKey /\ InHand
      BY <3>1 DEF Serving, InHand
    <3>3. Proper(ioMsg) /\ ioMsg.key = "mt"
      BY <3>1, <3>2 DEF Serving
    <3> QED
      BY <3>1, <3>2, <3>3, OrderlyKeyMade
  <2> QED
    BY <2>1, <2>2
<1>2. Init => EmptyKeyInv
  BY DEF Init, EmptyKeyInv
<1>3. (TypeOK /\ KeyInv) /\ EmptyKeyInv /\ [Next]_vars => EmptyKeyInv'
  BY EmptyKeyStep
<1>4. Spec => []EmptyKeyInv
  BY <1>2, <1>3, KeyCorrect, PTL DEF Spec
<1> QED
  BY <1>1, <1>4, KeyCorrect, OrderCorrect, OrderlyCorrect, PTL
=============================================================================
