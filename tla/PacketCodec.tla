---------------------------- MODULE PacketCodec ----------------------------
(***************************************************************************)
(* What a KCP message says: BasePacket's two directions on bufferView, Xor,*)
(* and the buffers a message passes through from ikcp_recv to a handler.   *)
(* The io thread receives into one buffer, used again and again, and       *)
(* queues packets that only point to their bytes; the handler thread reads *)
(* them later.  Clients send messages whole, cut short or under a key that *)
(* is not the server's.  When keys change, and which packets the handler   *)
(* thread's gate lets through in which state of the session, is in         *)
(* GameSession: here the gate may refuse any packet but a ping.            *)
(***************************************************************************)
EXTENDS Integers, Sequences, SequencesExt

CONSTANTS
    ByteXor(_, _),  \* ^ of two bytes
    Messages,       \* what clients send: records [id, meta, data]
    Keys,           \* keys, sequences of bytes; the server's and others
    PingReq,        \* the id of the only packets that pass in every state
    MaxMsgs         \* bound of the model: messages sent

Byte == 0..255
TwoBytes == 65536        \* numbers of two bytes
UInt16 == 0..TwoBytes - 1
Body == 10               \* a packet's metadata and data come after so many bytes
RecvBufSize == 65534     \* what _recvBuf has room for

ASSUME ByteXorAssumption ==
    \A a, b \in Byte : ByteXor(a, b) \in Byte /\ ByteXor(ByteXor(a, b), b) = a

ASSUME CodecAssumption ==
    /\ Messages \subseteq [id: UInt16, meta: Seq(Byte), data: Seq(Byte)]
    /\ \A m \in Messages : Body + Len(m.meta) + Len(m.data) + 2 <= RecvBufSize
    /\ Keys \subseteq Seq(Byte) \ {<<>>}
    /\ PingReq \in UInt16
    /\ MaxMsgs \in Nat

VARIABLES
    key,            \* the server's key
    sent,           \* history: messages sent, as [msg, size, key]
    wire,           \* what ikcp_recv is to return, oldest first
    pc,             \* the io thread, in ParsePacket: "recv", "xor", "parse"
    recvBuf,        \* _recvBuf
    size,           \* the size of the message received
    heap,           \* buffers allocated by Xor, never freed
    dec,            \* where dec_data is: a buffer's number, 0 for _recvBuf
    queue,          \* packet_queue: packets, oldest first
    handled,        \* history: what handlers have read
    stopped         \* the message refused, at which the handler thread ended; 0: none

ioVars == <<pc, recvBuf, size, heap, dec>>
handlerVars == <<handled, stopped>>
vars == <<key, sent, wire, ioVars, queue, handlerVars>>

-----------------------------------------------------------------------------
(* Bytes.                                                                   *)

\* Write<T> of a number of two and of four bytes, first byte first.
Short(v) == <<v \div 256, v % 256>>
Long(v) == Short(v \div TwoBytes) \o Short(v % TwoBytes)

\* Read<T>.
ShortAt(bytes, at) == 256 * bytes[at + 1] + bytes[at + 2]
LongAt(bytes, at) == TwoBytes * ShortAt(bytes, at) + ShortAt(bytes, at + 2)

\* The key is repeated over the packet.
Xor(packet, k) ==
    [i \in 1..Len(packet) |-> ByteXor(packet[i], k[((i - 1) % Len(k)) + 1])]

CanReadBytes(bytes, at, n) == Len(bytes) >= at + n

-----------------------------------------------------------------------------
(* A packet.                                                                *)

MagicStart == 17767     \* 0x4567
MagicEnd == 35243       \* 0x89ab

\* BasePacket, from what it carries: sizes of two and four bytes.
Header(m) ==
    (Short(MagicStart) \o Short(m.id)) \o (Short(Len(m.meta)) \o Long(Len(m.data)))
Encode(m) == (Header(m) \o m.meta) \o (m.data \o Short(MagicEnd))

\* BasePacket, from bytes: where the parts are, unless a read throws.  The
\* magic numbers are read, and compared with nothing.
MetaSize(bytes) == ShortAt(bytes, 4)
DataSize(bytes) == LongAt(bytes, 6)

Parses_MetaOnly(bytes) ==                         \* mutant: the size of the data believed
    /\ CanReadBytes(bytes, 0, Body)
    /\ CanReadBytes(bytes, Body, MetaSize(bytes))
Parses(bytes) ==
    /\ CanReadBytes(bytes, 0, Body)
    /\ CanReadBytes(bytes, Body, MetaSize(bytes))
    /\ CanReadBytes(bytes, Body + MetaSize(bytes), DataSize(bytes))
    /\ CanReadBytes(bytes, Body + MetaSize(bytes) + DataSize(bytes), 2)

Init ==
    /\ key \in Keys
    /\ sent = <<>> /\ wire = <<>>
    /\ pc = "recv" /\ recvBuf = <<>> /\ size = 0 /\ heap = <<>> /\ dec = 0
    /\ queue = <<>> /\ handled = <<>> /\ stopped = 0

\* A client (not in this repository) has a message delivered by KCP.
ClientSend(m, n, k) ==
    /\ Len(sent) < MaxMsgs
    /\ sent' = Append(sent, [msg |-> m, size |-> n, key |-> k])
    /\ wire' = Append(wire, Xor(SubSeq(Encode(m), 1, n), k))
    /\ UNCHANGED <<key, ioVars, queue, handlerVars>>

\* Kcp::Recv.  A message of no bytes has the size that stands for none: it is
\* not taken out, and nothing behind it is.
Receive ==
    /\ pc = "recv" /\ wire # <<>> /\ Head(wire) # <<>>
    /\ size' = Len(Head(wire))
    /\ recvBuf' = Head(wire) \o SubSeq(recvBuf, size' + 1, Len(recvBuf))
    /\ wire' = Tail(wire)
    /\ pc' = "xor"
    /\ UNCHANGED <<key, sent, heap, dec, queue, handlerVars>>

\* Xor into a buffer of its own.
Decrypt_InPlace ==                                \* mutant: over what was received
    /\ pc = "xor"
    /\ recvBuf' = Xor(SubSeq(recvBuf, 1, size), key) \o SubSeq(recvBuf, size + 1, Len(recvBuf))
    /\ dec' = 0
    /\ pc' = "parse"
    /\ UNCHANGED <<key, sent, wire, size, heap, queue, handlerVars>>

Decrypt ==
    /\ pc = "xor"
    /\ heap' = Append(heap, Xor(SubSeq(recvBuf, 1, size), key))
    /\ dec' = Len(heap')
    /\ pc' = "parse"
    /\ UNCHANGED <<key, sent, wire, recvBuf, size, queue, handlerVars>>

Content(buf) == IF buf = 0 THEN recvBuf ELSE heap[buf]
Decrypted == SubSeq(Content(dec), 1, size)

\* BasePacket and push_front.  The metadata is copied; m_Data is a view.
Push ==
    /\ pc = "parse" /\ Parses(Decrypted)
    /\ queue' = Append(queue,
         [of |-> Len(sent) - Len(wire),
          id |-> ShortAt(Decrypted, 2),
          meta |-> SubSeq(Decrypted, Body + 1, Body + MetaSize(Decrypted)),
          buf |-> dec, at |-> Body + MetaSize(Decrypted), len |-> DataSize(Decrypted)])
    /\ pc' = "recv"
    /\ UNCHANGED <<key, sent, wire, recvBuf, size, heap, dec, handlerVars>>

\* A read throws: ParsePacket logs it and returns.
Reject_Ends ==                                    \* mutant: caught outside the loop
    /\ pc = "parse" /\ ~Parses(Decrypted)
    /\ pc' = "ended"
    /\ UNCHANGED <<key, sent, wire, recvBuf, size, heap, dec, queue, handlerVars>>
Reject ==
    /\ pc = "parse" /\ ~Parses(Decrypted)
    /\ pc' = "recv"
    /\ UNCHANGED <<key, sent, wire, recvBuf, size, heap, dec, queue, handlerVars>>

\* PacketQueueHandler on the other thread: the packet passes the gate, and its
\* handler parses m_Data now.
DataOf(p) == SubSeq(Content(p.buf), p.at + 1, p.at + p.len)

Handle ==
    /\ stopped = 0 /\ queue # <<>>
    /\ LET p == Head(queue)
       IN  handled' = Append(handled, [of |-> p.of, msg |->
                              [id |-> p.id, meta |-> p.meta, data |-> DataOf(p)]])
    /\ queue' = Tail(queue)
    /\ UNCHANGED <<key, sent, wire, ioVars, stopped>>

\* Or the session is not in the state its id asks for: the thread returns, and
\* what is queued behind the packet stays there.
Refuse ==
    /\ stopped = 0 /\ queue # <<>> /\ Head(queue).id # PingReq
    /\ stopped' = Head(queue).of
    /\ queue' = Tail(queue)
    /\ UNCHANGED <<key, sent, wire, ioVars, handled>>

ParsePacket == Receive \/ Decrypt \/ Push \/ Reject
PacketQueueHandler == Handle \/ Refuse

Next ==
    \/ \E m \in Messages, k \in Keys : \E n \in 0..Len(Encode(m)) : ClientSend(m, n, k)
    \/ ParsePacket
    \/ PacketQueueHandler

Spec == Init /\ [][Next]_vars

\* Datagrams go on coming, each of which runs ParsePacket, and the handler
\* thread polls.
Fairness == WF_vars(ParsePacket) /\ WF_vars(PacketQueueHandler)
FairSpec == Spec /\ Fairness

-----------------------------------------------------------------------------
(* Properties.                                                              *)

\* The variables have their types.
TypeOK ==
    /\ key \in Keys
    /\ \A s \in Range(sent) : s.msg \in Messages /\ s.key \in Keys
    /\ wire \in Seq(Seq(Byte)) /\ recvBuf \in Seq(Byte) /\ heap \in Seq(Seq(Byte))
    /\ pc \in {"recv", "xor", "parse"} /\ size \in 0..Len(recvBuf)
    /\ dec \in 0..Len(heap)
    /\ \A p \in Range(queue) : p.id \in UInt16 /\ p.meta \in Seq(Byte)
    /\ stopped \in Nat

Ours(i) == sent[i].key = key
Good(i) == Ours(i) /\ sent[i].size = Len(Encode(sent[i].msg))

\* What a handler reads is what its client sent, although the packet pointed to
\* its bytes while more messages were received into the same buffer; and of the
\* messages under the server's key only whole ones become packets, in order.
HandledAsSent ==
    /\ \A h \in Range(handled) : Ours(h.of) => Good(h.of) /\ h.msg = sent[h.of].msg
    /\ \A i, j \in DOMAIN handled : i < j => handled[i].of < handled[j].of

\* Buffers hold bytes, and no view leaves its buffer, whatever sizes a message
\* under another key seems to have.
ViewsInside ==
    TypeOK /\ \A p \in Range(queue) : p.at + p.len <= Len(Content(p.buf))

\* The handler thread may have ended at message i: under the server's key no
\* ping ends it.
Refusable(i) == Ours(i) => sent[i].msg.id # PingReq

\* Every whole message under the server's key is handled, however many messages
\* before it were cut short or did not parse, unless the gate refuses it or one
\* before it, which is then no ping under that key; or one of them is empty.
GoodHandled ==
    \A i \in 1..MaxMsgs :
        (i \in DOMAIN sent /\ Good(i) /\ \A j \in 1..i : sent[j].size > 0)
            ~> \/ \E h \in Range(handled) : h.of = i
               \/ \E j \in 1..i : stopped = j /\ Refusable(j)
=============================================================================
