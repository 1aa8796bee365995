---------------------------- MODULE KcpLinkProofs ----------------------------
(* Proofs about KcpLink, for any windows, message sizes and bounds, over a    *)
(* network that loses, repeats and reorders.                                  *)
EXTENDS KcpLink, SequenceTheorems, TLAPS

Received(sn) == sn < rcvNxt \/ sn \in rcvBuf

\* What the receiver has stays received, and it is all that acknowledgements,
\* queued or on their way, speak of.
LinkInv ==
    /\ stream \in Seq(Nat)
    /\ TypeOK
    /\ QueueInOrder
    /\ ReceiverBounded
    /\ DroppedOnlyIfReceived
    /\ \A sn \in acks : Received(sn)
    /\ \A m \in ackNet : m.sn # NoSn => Received(m.sn)

LEMMA LinkInit == Init => LinkInv
<1> SUFFICES ASSUME Init PROVE LinkInv
  OBVIOUS
<1>1. Len(stream) = 0 /\ Len(rcvQue) = 0 /\ rcvQue \in Seq(0..rcvNxt - 1) /\ stream \in Seq(Nat)
  BY DEF Init
<1>2. TypeOK
  <2>1. probing \in BOOLEAN /\ tell \in BOOLEAN /\ wask \in BOOLEAN
    BY Zenon DEF Init
  <2>2. sndNxt = 0 /\ sndUna = 0 /\ rcvNxt = 0 /\ rmtWnd = FragLimit
    BY DEF Init
  <2>3. sndBuf = {} /\ rcvBuf = {} /\ acks = {} /\ data = {} /\ ackNet = {}
    BY DEF Init
  <2> QED
    BY <1>1, <2>1, <2>2, <2>3, KcpAssumption DEF TypeOK
<1>3. QueueInOrder /\ ReceiverBounded /\ DroppedOnlyIfReceived
  BY <1>1, KcpAssumption DEF Init, QueueInOrder, ReceiverBounded, DroppedOnlyIfReceived
<1> QED
  BY <1>1, <1>2, <1>3 DEF Init, LinkInv

\* Moving segments from rcv_buf to rcv_queue: the queue grows at its end by the
\* segments from rcv_nxt on, nothing is lost and no limit passed.
LEMMA FillStep ==
    ASSUME LinkInv, NEW buf \in SUBSET (0..sndNxt - 1), NEW que \in Seq(0..rcvNxt - 1),
           \A s \in buf : rcvNxt <= s /\ s < rcvNxt + RcvWnd,
           Len(que) <= RcvWnd,
           \A i \in 1..Len(que) : que[i] = rcvNxt - Len(que) + i - 1,
           Fill(buf, que)
    PROVE  /\ rcvNxt' \in rcvNxt..sndNxt
           /\ rcvBuf' \subseteq 0..sndNxt - 1
           /\ rcvQue' \in Seq(0..rcvNxt' - 1)
           /\ rcvNxt' - Len(rcvQue') = rcvNxt - Len(que)
           /\ Len(rcvQue') <= RcvWnd
           /\ \A i \in 1..Len(rcvQue') : rcvQue'[i] = rcvNxt' - Len(rcvQue') + i - 1
           /\ \A s \in rcvBuf' : rcvNxt' <= s /\ s < rcvNxt' + RcvWnd
           /\ \A s \in buf : s < rcvNxt' \/ s \in rcvBuf'
<1>1. PICK k \in 0..RcvWnd :
        /\ CanMove(buf, que, k)
        /\ rcvBuf' = buf \ (rcvNxt..rcvNxt + k - 1)
        /\ rcvQue' = que \o [i \in 1..k |-> rcvNxt + i - 1]
        /\ rcvNxt' = rcvNxt + k
  BY DEF Fill
<1>2. /\ rcvNxt \in Nat /\ sndNxt \in Nat /\ RcvWnd \in Nat /\ k \in Nat
      /\ rcvNxt <= sndNxt /\ Len(que) \in Nat
  BY KcpAssumption DEF LinkInv, TypeOK
<1>3. k = 0 \/ {s \in buf : s < rcvNxt + k} = rcvNxt..rcvNxt + k - 1
  BY <1>1 DEF CanMove
<1>4. Len(que) + k <= RcvWnd
  BY <1>1, <1>2 DEF CanMove
<1>5. rcvNxt + k <= sndNxt
  <2>1. CASE k = 0
    BY <1>2, <2>1
  <2>2. CASE k # 0
    <3>1. rcvNxt + k - 1 \in rcvNxt..rcvNxt + k - 1
      BY <1>2, <2>2
    <3>2. rcvNxt + k - 1 \in buf
      BY <1>3, <2>2, <3>1
    <3> QED
      BY <3>2, <1>2
  <2> QED
    BY <2>1, <2>2
<1> DEFINE run == [i \in 1..k |-> rcvNxt + i - 1]
<1>6. run \in Seq(0..rcvNxt + k - 1) /\ Len(run) = k
  BY <1>2
<1>7. que \in Seq(0..rcvNxt + k - 1)
  BY <1>2
<1>8. /\ rcvQue' \in Seq(0..rcvNxt' - 1)
      /\ Len(rcvQue') = Len(que) + k
      /\ \A i \in 1..Len(rcvQue') :
            rcvQue'[i] = IF i <= Len(que) THEN que[i] ELSE run[i - Len(que)]
  <2> DEFINE S == 0..rcvNxt + k - 1
  <2>0. S = 0..rcvNxt' - 1
    <3>1. rcvNxt' = rcvNxt + k
      BY <1>1
    <3> HIDE DEF run
    <3> QED
      BY <3>1, <1>2
  <2>1. run \in Seq(S) /\ que \in Seq(S) /\ rcvQue' = que \o run
    BY <1>1, <1>6, <1>7, Zenon
  <2> HIDE DEF run, S
  <2>2. /\ que \o run \in Seq(S)
        /\ Len(que \o run) = Len(que) + Len(run)
        /\ \A i \in 1..Len(que) + Len(run) :
              (que \o run)[i] = IF i <= Len(que) THEN que[i] ELSE run[i - Len(que)]
    BY <2>1, ConcatProperties
  <2> QED
    BY <2>0, <2>1, <2>2, <1>6
<1>9. \A i \in 1..Len(rcvQue') : rcvQue'[i] = rcvNxt' - Len(rcvQue') + i - 1
  BY <1>1, <1>2, <1>8
<1>10. /\ \A s \in rcvBuf' : rcvNxt' <= s /\ s < rcvNxt' + RcvWnd
       /\ \A s \in buf : s < rcvNxt' \/ s \in rcvBuf'
  BY <1>1, <1>2, <1>3
<1> QED
  BY <1>1, <1>2, <1>4, <1>5, <1>8, <1>9, <1>10

LEMMA SendStep ==
    ASSUME LinkInv, NEW n \in 1..MaxSegs, Send(n)
    PROVE  LinkInv'
<1> DEFINE frags == [i \in 1..n |-> n - i]
<1>1. n \in Nat /\ frags \in Seq(Nat) /\ Len(frags) = n
  BY KcpAssumption
<1> HIDE DEF frags
<1>2. stream' = stream \o frags /\ stream \in Seq(Nat)
  BY DEF Send, frags, LinkInv
<1>3. stream' \in Seq(Nat) /\ Len(stream') = Len(stream) + n /\ Len(stream) \in Nat
  <2>1. stream \o frags \in Seq(Nat) /\ Len(stream \o frags) = Len(stream) + Len(frags)
    BY <1>1, <1>2, ConcatProperties, Zenon
  <2>2. Len(stream) \in Nat
    BY <1>2, LenProperties
  <2> QED
    BY <1>1, <1>2, <2>1, <2>2
<1>4. UNCHANGED <<sndNxt, sndUna, sndBuf, rmtWnd, probing, rcvVars, netVars>>
  BY DEF Send
<1>5. 0..Len(stream) \subseteq 0..Len(stream')
  BY <1>1, <1>3
<1>6. TypeOK'
  BY <1>4, <1>5 DEF LinkInv, TypeOK, rcvVars, netVars
<1> QED
  BY <1>3, <1>4, <1>6
  DEF LinkInv, QueueInOrder, ReceiverBounded, DroppedOnlyIfReceived, Received, rcvVars, netVars

LEMMA SndFlushStep ==
    ASSUME LinkInv, NEW due \in SUBSET sndBuf, NEW timeout \in BOOLEAN, SndFlush(due, timeout)
    PROVE  LinkInv'
<1>1. /\ sndNxt \in Nat /\ Len(stream) \in Nat /\ sndNxt <= Len(stream)
      /\ sndUna \in 0..sndNxt /\ rmtWnd \in Nat /\ SndWnd \in Nat
  BY KcpAssumption, LenProperties DEF LinkInv, TypeOK
<1>2. sndNxt' = FlushNxt /\ sndNxt' \in sndNxt..Len(stream)
  BY <1>1 DEF SndFlush, FlushNxt, Allowed, Smaller, Larger
<1>3. /\ sndBuf' = sndBuf \cup sndNxt..sndNxt' - 1
      /\ data' = data \cup due \cup sndNxt..sndNxt' - 1
      /\ UNCHANGED <<sent, stream, sndUna, rmtWnd, rcvVars, ackNet>>
  BY DEF SndFlush
<1>4. wask' \in BOOLEAN /\ probing' \in BOOLEAN
  BY Zenon DEF SndFlush, LinkInv, TypeOK
<1>5. 0..sndNxt - 1 \subseteq 0..sndNxt' - 1 /\ sndNxt..sndNxt' - 1 \subseteq 0..sndNxt' - 1
  BY <1>1, <1>2
<1>6. TypeOK'
  <2>1. /\ sndNxt' \in 0..Len(stream') /\ sndUna' \in 0..sndNxt' /\ rcvNxt' \in 0..sndNxt'
    BY <1>1, <1>2, <1>3 DEF LinkInv, TypeOK, rcvVars
  <2>2. sndBuf' \subseteq 0..sndNxt' - 1 /\ data' \subseteq 0..sndNxt' - 1
    BY <1>3, <1>5 DEF LinkInv, TypeOK
  <2>3. rcvBuf' \subseteq 0..sndNxt' - 1 /\ acks' \subseteq 0..sndNxt' - 1
    BY <1>3, <1>5 DEF LinkInv, TypeOK, rcvVars
  <2>4. ackNet' \subseteq [sn: {NoSn} \cup 0..sndNxt' - 1, una: 0..rcvNxt', wnd: Nat]
    BY <1>3, <1>5 DEF LinkInv, TypeOK, rcvVars
  <2> QED
    BY <1>3, <1>4, <2>1, <2>2, <2>3, <2>4 DEF LinkInv, TypeOK, rcvVars
<1>7. DroppedOnlyIfReceived'
  BY <1>1, <1>2, <1>3 DEF LinkInv, DroppedOnlyIfReceived, rcvVars
<1> QED
  BY <1>3, <1>6, <1>7 DEF LinkInv, QueueInOrder, ReceiverBounded, Received, rcvVars

\* una and the acknowledged number both stand for segments received.
LEMMA AckInputStep ==
    ASSUME LinkInv, NEW m \in ackNet, AckInput(m)
    PROVE  LinkInv'
<1>1. /\ m \in [sn: {NoSn} \cup 0..sndNxt - 1, una: 0..rcvNxt, wnd: Nat]
      /\ m.sn # NoSn => Received(m.sn)
  BY DEF LinkInv, TypeOK
<1>2. /\ sndBuf' = {s \in sndBuf : s >= m.una} \ {m.sn}
      /\ rmtWnd' = m.wnd /\ ackNet' \subseteq ackNet
      /\ UNCHANGED <<stream, sndNxt, probing, rcvVars, data, wask>>
  BY DEF AckInput, Unacked
<1>3. sndUna' \in 0..sndNxt
  <2>1. sndUna' = sndNxt \/ sndUna' \in sndBuf
    BY DEF AckInput, Shrink, Unacked
  <2>2. sndNxt \in Nat /\ sndBuf \subseteq 0..sndNxt - 1
    BY LenProperties DEF LinkInv, TypeOK
  <2>3. ASSUME NEW s \in sndBuf PROVE s \in 0..sndNxt
    <3>1. s \in 0..sndNxt - 1
      BY <2>2
    <3> QED
      BY <2>2, <3>1
  <2>4. sndNxt \in 0..sndNxt
    BY <2>2
  <2> QED
    BY <2>1, <2>3, <2>4
<1>4. TypeOK'
  BY <1>1, <1>2, <1>3 DEF LinkInv, TypeOK, rcvVars
<1>5. DroppedOnlyIfReceived'
  <2> SUFFICES ASSUME NEW sn \in 0..sndNxt - 1, sn \notin sndBuf'
               PROVE  sn < rcvNxt \/ sn \in rcvBuf
    BY <1>2 DEF DroppedOnlyIfReceived, rcvVars
  <2>1. CASE sn \notin sndBuf
    BY <2>1 DEF LinkInv, DroppedOnlyIfReceived
  <2>2. CASE sn = m.sn
    <3>1. m.sn # NoSn
      BY <2>2 DEF NoSn
    <3> QED
      BY <1>1, <2>2, <3>1 DEF Received
  <2>3. CASE sn \in sndBuf /\ ~(sn >= m.una)
    <3>1. rcvNxt \in Nat /\ m.una \in 0..rcvNxt
      BY <1>1, LenProperties DEF LinkInv, TypeOK
    <3> QED
      BY <2>3, <3>1
  <2> QED
    BY <1>2, <2>1, <2>2, <2>3
<1> QED
  BY <1>2, <1>4, <1>5 DEF LinkInv, QueueInOrder, ReceiverBounded, Received, rcvVars

\* A step that leaves the sender alone, adds nothing to data, and makes the
\* receiver hold more keeps the invariant, if acknowledgements keep theirs.
LEMMA ReceiverStep ==
    ASSUME LinkInv, UNCHANGED sndVars, data' \subseteq data, ackNet' \subseteq ackNet,
           wask' \in BOOLEAN, tell' \in BOOLEAN,
           acks' \subseteq 0..sndNxt - 1,
           rcvNxt' \in rcvNxt..sndNxt,
           rcvBuf' \subseteq 0..sndNxt - 1,
           rcvQue' \in Seq(0..rcvNxt' - 1),
           QueueInOrder', ReceiverBounded',
           \A sn \in 0..sndNxt - 1 : Received(sn) => Received(sn)',
           \A sn \in acks' : Received(sn)'
    PROVE  LinkInv'
<1>1. sndNxt \in Nat /\ rcvNxt \in 0..sndNxt
  BY LenProperties DEF LinkInv, TypeOK
<1>2. 0..rcvNxt \subseteq 0..rcvNxt' /\ rcvNxt' \in 0..sndNxt
  BY <1>1
<1>3. ackNet' \subseteq [sn: {NoSn} \cup 0..sndNxt - 1, una: 0..rcvNxt', wnd: Nat]
  BY <1>2 DEF LinkInv, TypeOK
<1>4. TypeOK'
  BY <1>2, <1>3 DEF LinkInv, TypeOK, sndVars
<1>5. DroppedOnlyIfReceived'
  BY DEF LinkInv, DroppedOnlyIfReceived, Received, sndVars
<1>6. \A m \in ackNet' : m.sn # NoSn => Received(m.sn)'
  BY DEF LinkInv, TypeOK
<1> QED
  BY <1>4, <1>5, <1>6 DEF LinkInv, sndVars

LEMMA DataInputStep ==
    ASSUME LinkInv, NEW sn \in data, DataInput(sn)
    PROVE  LinkInv'
<1>1. /\ UNCHANGED sndVars /\ data' \subseteq data /\ ackNet' \subseteq ackNet
      /\ wask' \in BOOLEAN /\ tell' \in BOOLEAN
  BY Zenon DEF DataInput, LinkInv, TypeOK
<1>2. /\ sn \in 0..sndNxt - 1 /\ sndNxt \in Nat /\ rcvNxt \in 0..sndNxt
      /\ rcvBuf \in SUBSET (0..sndNxt - 1) /\ acks \subseteq 0..sndNxt - 1
      /\ rcvQue \in Seq(0..rcvNxt - 1) /\ RcvWnd \in Nat
  BY LenProperties, KcpAssumption DEF LinkInv, TypeOK
<1>3. acks' = acks \cup (IF InWindow(sn) THEN {sn} ELSE {})
  BY DEF DataInput, Acked
<1>4. acks' \subseteq 0..sndNxt - 1
  BY <1>2, <1>3
<1>5. CASE InWindow(sn) /\ sn >= rcvNxt
  <2>1. Fill(rcvBuf \cup {sn}, rcvQue)
    BY <1>5 DEF DataInput
  <2>2. /\ rcvBuf \cup {sn} \in SUBSET (0..sndNxt - 1)
        /\ \A s \in rcvBuf \cup {sn} : rcvNxt <= s /\ s < rcvNxt + RcvWnd
        /\ Len(rcvQue) <= RcvWnd
        /\ \A i \in 1..Len(rcvQue) : rcvQue[i] = rcvNxt - Len(rcvQue) + i - 1
    BY <1>2, <1>5 DEF LinkInv, ReceiverBounded, QueueInOrder, InWindow
  <2>3. /\ rcvNxt' \in rcvNxt..sndNxt
        /\ rcvBuf' \subseteq 0..sndNxt - 1
        /\ rcvQue' \in Seq(0..rcvNxt' - 1)
        /\ QueueInOrder' /\ ReceiverBounded'
        /\ \A s \in rcvBuf \cup {sn} : s < rcvNxt' \/ s \in rcvBuf'
    BY <1>2, <2>1, <2>2, FillStep DEF QueueInOrder, ReceiverBounded
  <2>4. \A s \in 0..sndNxt - 1 : Received(s) => Received(s)'
    BY <1>2, <2>3 DEF Received
  <2>5. \A s \in acks' : Received(s)'
    BY <1>2, <1>3, <1>4, <2>3, <2>4 DEF LinkInv, Received
  <2> QED
    BY <1>1, <1>4, <2>3, <2>4, <2>5, ReceiverStep
<1>6. CASE ~(InWindow(sn) /\ sn >= rcvNxt)
  <2>1. UNCHANGED <<rcvBuf, rcvQue, rcvNxt>>
    BY <1>6 DEF DataInput
  <2>2. \A s \in acks' : Received(s)'
    <3>1. InWindow(sn) => sn < rcvNxt
      BY <1>2, <1>6
    <3> QED
      BY <1>3, <2>1, <3>1 DEF LinkInv, Received
  <2>3. /\ rcvNxt' \in rcvNxt..sndNxt
        /\ rcvBuf' \subseteq 0..sndNxt - 1
        /\ rcvQue' \in Seq(0..rcvNxt' - 1)
    BY <1>2, <2>1
  <2>4. QueueInOrder' /\ ReceiverBounded' /\ \A s \in 0..sndNxt - 1 : Received(s) => Received(s)'
    BY <2>1 DEF LinkInv, QueueInOrder, ReceiverBounded, Received
  <2> QED
    BY <1>1, <1>4, <2>2, <2>3, <2>4, ReceiverStep
<1> QED
  BY <1>5, <1>6

\* The part of ikcp_recv both invariants need: what is left of the queue once a
\* message is read is in order, and is filled up.
LEMMA RecvFill ==
    ASSUME LinkInv, NEW n \in 1..Len(rcvQue),
           Fill(rcvBuf, SubSeq(rcvQue, n + 1, Len(rcvQue)))
    PROVE  /\ rcvNxt' \in rcvNxt..sndNxt
           /\ rcvBuf' \subseteq 0..sndNxt - 1
           /\ rcvQue' \in Seq(0..rcvNxt' - 1)
           /\ rcvNxt' - Len(rcvQue') = rcvNxt - Len(rcvQue) + n
           /\ QueueInOrder' /\ ReceiverBounded'
           /\ \A s \in rcvBuf : s < rcvNxt' \/ s \in rcvBuf'
<1> DEFINE rest == SubSeq(rcvQue, n + 1, Len(rcvQue))
<1>1. /\ sndNxt \in Nat /\ rcvNxt \in 0..sndNxt /\ rcvBuf \in SUBSET (0..sndNxt - 1)
      /\ rcvQue \in Seq(0..rcvNxt - 1) /\ Len(rcvQue) \in Nat /\ RcvWnd \in Nat
  BY LenProperties, KcpAssumption DEF LinkInv, TypeOK
<1>2. /\ rest \in Seq(0..rcvNxt - 1) /\ Len(rest) = Len(rcvQue) - n
      /\ \A i \in 1..Len(rest) : rest[i] = rcvQue[n + i]
  <2> DEFINE S == 0..rcvNxt - 1
             from == n + 1
             L == Len(rcvQue)
  <2>1. L \in Int /\ from \in Int /\ n \in 1..L
    BY <1>1
  <2>2. \A i \in from..L : rcvQue[i] \in S
    BY <1>1
  <2>3. /\ SubSeq(rcvQue, from, L) \in Seq(S)
        /\ Len(SubSeq(rcvQue, from, L)) = IF from <= L THEN L - from + 1 ELSE 0
        /\ \A i \in 1..L - from + 1 : SubSeq(rcvQue, from, L)[i] = rcvQue[from + i - 1]
    <3> HIDE DEF S, from, L
    <3> QED
      BY <2>1, <2>2, SubSeqProperties
  <2>4. rest = SubSeq(rcvQue, from, L) /\ from = n + 1 /\ L = Len(rcvQue)
    OBVIOUS
  <2>5. S = 0..rcvNxt - 1
    OBVIOUS
  <2> HIDE DEF rest, S, from, L
  <2>6. rest \in Seq(S) /\ Len(rest) = L - n
    BY <2>1, <2>3, <2>4
  <2>7. \A i \in 1..L - n : rest[i] = rcvQue[n + i]
    <3> SUFFICES ASSUME NEW i \in 1..L - n PROVE rest[i] = rcvQue[n + i]
      OBVIOUS
    <3>1. i \in 1..L - from + 1 /\ from + i - 1 = n + i
      BY <2>1, <2>4
    <3> QED
      BY <2>3, <2>4, <3>1
  <2> QED
    BY <2>4, <2>5, <2>6, <2>7
<1>4. Fill(rcvBuf, rest)
  OBVIOUS
<1> HIDE DEF rest
<1>3. /\ \A s \in rcvBuf : rcvNxt <= s /\ s < rcvNxt + RcvWnd
      /\ Len(rest) <= RcvWnd
      /\ \A i \in 1..Len(rest) : rest[i] = rcvNxt - Len(rest) + i - 1
  <2>1. \A s \in rcvBuf : rcvNxt <= s /\ s < rcvNxt + RcvWnd
    BY DEF LinkInv, ReceiverBounded
  <2>2. Len(rcvQue) <= RcvWnd
        /\ \A i \in 1..Len(rcvQue) : rcvQue[i] = rcvNxt - Len(rcvQue) + i - 1
    BY DEF LinkInv, ReceiverBounded, QueueInOrder
  <2>3. n \in 1..Len(rcvQue)
    OBVIOUS
  <2>4. ASSUME NEW i \in 1..Len(rest) PROVE rest[i] = rcvNxt - Len(rest) + i - 1
    <3>1. n + i \in 1..Len(rcvQue)
      BY <1>1, <1>2, <2>3
    <3> QED
      BY <1>1, <1>2, <2>2, <2>3, <3>1
  <2> QED
    BY <1>1, <1>2, <2>1, <2>2, <2>3, <2>4
<1>5. /\ rcvNxt' \in rcvNxt..sndNxt
      /\ rcvBuf' \subseteq 0..sndNxt - 1
      /\ rcvQue' \in Seq(0..rcvNxt' - 1)
      /\ rcvNxt' - Len(rcvQue') = rcvNxt - Len(rest)
      /\ QueueInOrder' /\ ReceiverBounded'
      /\ \A s \in rcvBuf : s < rcvNxt' \/ s \in rcvBuf'
  BY <1>1, <1>2, <1>3, <1>4, FillStep DEF QueueInOrder, ReceiverBounded
<1>6. rcvNxt - Len(rest) = rcvNxt - Len(rcvQue) + n
  BY <1>1, <1>2
<1> QED
  BY <1>5, <1>6

LEMMA RecvStep ==
    ASSUME LinkInv, Recv
    PROVE  LinkInv'
<1>1. PICK n \in 1..Len(rcvQue) : Fill(rcvBuf, SubSeq(rcvQue, n + 1, Len(rcvQue)))
  BY DEF Recv
<1>2. /\ rcvNxt' \in rcvNxt..sndNxt
      /\ rcvBuf' \subseteq 0..sndNxt - 1
      /\ rcvQue' \in Seq(0..rcvNxt' - 1)
      /\ QueueInOrder' /\ ReceiverBounded'
      /\ \A s \in rcvBuf : s < rcvNxt' \/ s \in rcvBuf'
  BY <1>1, RecvFill
<1>3. UNCHANGED <<sndVars, acks, netVars>>
  BY DEF Recv
<1>4. tell' \in BOOLEAN /\ wask' \in BOOLEAN
  BY <1>3, Zenon DEF Recv, LinkInv, TypeOK, netVars
<1>5. rcvNxt \in Nat /\ sndNxt \in Nat
  BY LenProperties DEF LinkInv, TypeOK
<1>6. \A s \in 0..sndNxt - 1 : Received(s) => Received(s)'
  BY <1>2, <1>5 DEF Received
<1>7. acks' \subseteq 0..sndNxt - 1 /\ \A s \in acks' : Received(s)'
  BY <1>3, <1>6 DEF LinkInv, TypeOK
<1> QED
  BY <1>2, <1>3, <1>4, <1>6, <1>7, ReceiverStep DEF netVars

LEMMA RcvFlushStep ==
    ASSUME LinkInv, NEW otherDirection \in BOOLEAN, RcvFlush(otherDirection)
    PROVE  LinkInv'
<1> DEFINE out == {Header(sn) : sn \in acks}
                  \cup (IF tell \/ otherDirection THEN {Header(NoSn)} ELSE {})
<1>1. ackNet' \subseteq ackNet \cup out
  <2>1. ackNet' \in Joined(ackNet, out)
    BY DEF RcvFlush
  <2> HIDE DEF out
  <2> QED
    BY <2>1 DEF Joined
<1>2. /\ acks' = {} /\ tell' = FALSE
      /\ UNCHANGED <<sndVars, rcvNxt, rcvBuf, rcvQue, got, data, wask>>
  BY DEF RcvFlush
<1>3. /\ rcvNxt \in Nat /\ WndUnused \in Nat
      /\ acks \subseteq 0..sndNxt - 1
  BY KcpAssumption, LenProperties DEF LinkInv, TypeOK, WndUnused
<1>4. \A m \in out : /\ m \in [sn: {NoSn} \cup 0..sndNxt - 1, una: 0..rcvNxt, wnd: Nat]
                     /\ m.sn # NoSn => m.sn \in acks
  BY <1>3 DEF Header
<1> HIDE DEF out
<1>5. TypeOK'
  <2>1. ackNet' \subseteq [sn: {NoSn} \cup 0..sndNxt - 1, una: 0..rcvNxt, wnd: Nat]
    BY <1>1, <1>4 DEF LinkInv, TypeOK
  <2>2. acks' \subseteq 0..sndNxt - 1 /\ tell' \in BOOLEAN
    BY <1>2
  <2> QED
    BY <1>2, <2>1, <2>2 DEF LinkInv, TypeOK, sndVars
<1>6. \A m \in ackNet' : m.sn # NoSn => Received(m.sn)'
  BY <1>1, <1>2, <1>4 DEF LinkInv, Received
<1> QED
  BY <1>2, <1>5, <1>6
  DEF LinkInv, QueueInOrder, ReceiverBounded, DroppedOnlyIfReceived, Received, sndVars

LEMMA LinkStep == LinkInv /\ [Next]_vars => LinkInv'
<1> SUFFICES ASSUME LinkInv, [Next]_vars PROVE LinkInv'
  OBVIOUS
<1>1. ASSUME NEW n \in 1..MaxSegs, Send(n) PROVE LinkInv'
  BY <1>1, SendStep
<1>2. ASSUME NEW due \in SUBSET sndBuf, NEW timeout \in BOOLEAN, SndFlush(due, timeout)
      PROVE  LinkInv'
  BY <1>2, SndFlushStep
<1>3. ASSUME NEW m \in ackNet, AckInput(m) PROVE LinkInv'
  BY <1>3, AckInputStep
<1>4. ASSUME NEW sn \in data, DataInput(sn) PROVE LinkInv'
  BY <1>4, DataInputStep
<1>5. CASE WaskInput
  <2>1. wask' \in BOOLEAN
    BY <1>5, KcpAssumption DEF WaskInput
  <2>2. tell' \in BOOLEAN /\ UNCHANGED <<sndVars, rcvNxt, rcvBuf, rcvQue, acks, got, data, ackNet>>
    BY <1>5 DEF WaskInput
  <2> QED
    BY <2>1, <2>2
    DEF LinkInv, TypeOK, QueueInOrder, ReceiverBounded, DroppedOnlyIfReceived, Received, sndVars
<1>6. CASE Recv
  BY <1>6, RecvStep
<1>7. ASSUME NEW otherDirection \in BOOLEAN, RcvFlush(otherDirection) PROVE LinkInv'
  BY <1>7, RcvFlushStep
<1>8. CASE Lose
  <2>1. data' \subseteq data /\ ackNet' \subseteq ackNet /\ wask' \in {wask, FALSE}
    BY <1>8 DEF Lose
  <2>2. UNCHANGED <<sndVars, rcvVars>>
    BY <1>8 DEF Lose
  <2>3. wask' \in BOOLEAN
    BY <2>1, Zenon DEF LinkInv, TypeOK
  <2> QED
    BY <2>1, <2>2, <2>3
    DEF LinkInv, TypeOK, QueueInOrder, ReceiverBounded, DroppedOnlyIfReceived, Received,
        sndVars, rcvVars
<1>9. CASE UNCHANGED vars
  BY <1>9
  DEF LinkInv, TypeOK, QueueInOrder, ReceiverBounded, DroppedOnlyIfReceived, Received,
      vars, sndVars, rcvVars, netVars
<1> QED
  BY <1>1, <1>2, <1>3, <1>4, <1>5, <1>6, <1>7, <1>8, <1>9 DEF Next

LEMMA LinkInvariant == Spec => []LinkInv
BY LinkInit, LinkStep, PTL DEF Spec

\* Buffers, queues and the network hold only segments the sender has numbered,
\* and no acknowledgement runs ahead of rcv_nxt (TypeOK).
THEOREM TypeCorrect == Spec => []TypeOK
BY LinkInvariant, PTL DEF LinkInv

\* No acknowledgement drops a segment that did not arrive (DroppedOnlyIfReceived).
THEOREM NothingDroppedEarly == Spec => []DroppedOnlyIfReceived
BY LinkInvariant, PTL DEF LinkInv

\* rcv_queue has neither gaps nor repetitions (QueueInOrder).
THEOREM QueueOrder == Spec => []QueueInOrder
BY LinkInvariant, PTL DEF LinkInv

\* rcv_queue and rcv_buf each keep to the window (ReceiverBounded).
THEOREM BoundedBuffers == Spec => []ReceiverBounded
BY LinkInvariant, PTL DEF LinkInv

-----------------------------------------------------------------------------
\* How messages lie in the stream of segments: message k is the run of segments
\* from Start(k) on, counted down by frg, and the next one follows it.
Start(k) == IF k <= Len(sent) THEN sent[k][1] ELSE Len(stream)

Laid(k) ==
    LET n == Len(sent[k])
    IN /\ n \in Nat \ {0} /\ Start(k) \in Nat
       /\ sent[k] = [i \in 1..n |-> Start(k) + i - 1]
       /\ Start(k) + n <= Len(stream)
       /\ Start(k + 1) = Start(k) + n
       /\ \A i \in 1..n : Frg(Start(k) + i - 1) = n - i

\* What is not read begins with a message.
MessageInv ==
    /\ sent \in Seq(Seq(Nat)) /\ got \in Seq(Seq(Nat))
    /\ Len(got) <= Len(sent)
    /\ \A k \in 1..Len(sent) : Laid(k)
    /\ rcvNxt - Len(rcvQue) = Start(Len(got) + 1)

LEMMA MessageInit == Init => MessageInv
<1> SUFFICES ASSUME Init PROVE MessageInv
  OBVIOUS
<1>1. sent = <<>> /\ got = <<>> /\ stream = <<>> /\ rcvQue = <<>> /\ rcvNxt = 0
  BY DEF Init
<1>2. Len(<<>>) = 0 /\ <<>> \in Seq(Seq(Nat))
  OBVIOUS
<1>3. Len(sent) = 0 /\ Len(got) = 0 /\ Len(stream) = 0 /\ Len(rcvQue) = 0
  BY <1>1, <1>2
<1>4. Start(Len(got) + 1) = 0
  BY <1>3 DEF Start
<1> QED
  BY <1>1, <1>2, <1>3, <1>4 DEF MessageInv

\* ikcp_send adds a message at the end of the stream.
LEMMA SendMessage ==
    ASSUME LinkInv, MessageInv, NEW n \in 1..MaxSegs, Send(n)
    PROVE  MessageInv' /\ Channel!Next
<1> DEFINE frags == [i \in 1..n |-> n - i]
           message == [i \in 1..n |-> Len(stream) + i - 1]
<1>0. PICK L \in Nat : L = Len(sent)
  BY LenProperties DEF MessageInv
<1>1. /\ n \in Nat \ {0} /\ Len(stream) \in Nat /\ stream \in Seq(Nat)
      /\ L \in Nat /\ sent \in Seq(Seq(Nat))
  BY KcpAssumption, LenProperties DEF LinkInv, MessageInv
<1>14. Len(sent) = L /\ Len(got) \in Nat
  BY <1>0, LenProperties DEF MessageInv
<1>2. /\ frags \in Seq(Nat) /\ Len(frags) = n /\ \A i \in 1..n : frags[i] = n - i
      /\ message \in Seq(Nat) /\ Len(message) = n
      /\ \A i \in 1..n : message[i] = Len(stream) + i - 1
  BY <1>1
<1>3. /\ stream' = stream \o frags /\ sent' = Append(sent, message)
      /\ UNCHANGED <<got, rcvNxt, rcvQue>>
  BY DEF Send, rcvVars
<1>4. Len(stream) + n <= MaxSegs
  BY DEF Send
<1>5. message \in Messages
  <2>1. Len(stream) \in 0..MaxSegs - 1
    BY <1>1, <1>4, KcpAssumption
  <2>2. \E a \in 1..MaxSegs, b \in 0..MaxSegs - 1 : message = [i \in 1..a |-> b + i - 1]
    <3> WITNESS n \in 1..MaxSegs, Len(stream) \in 0..MaxSegs - 1
    <3> QED
      OBVIOUS
  <2> HIDE DEF message
  <2> QED
    BY <2>2 DEF Messages
<1> HIDE DEF frags, message
<1>6. /\ Len(stream') = Len(stream) + n
      /\ \A i \in 1..Len(stream) : stream'[i] = stream[i]
      /\ \A i \in 1..n : stream'[Len(stream) + i] = n - i
  <2>1. /\ Len(stream \o frags) = Len(stream) + Len(frags)
        /\ \A i \in 1..Len(stream) + Len(frags) :
              (stream \o frags)[i] = IF i <= Len(stream) THEN stream[i] ELSE frags[i - Len(stream)]
    BY <1>1, <1>2, ConcatProperties
  <2>2. ASSUME NEW i \in 1..n PROVE stream'[Len(stream) + i] = n - i
    <3>1. Len(stream) + i \in 1..Len(stream) + Len(frags) /\ ~(Len(stream) + i <= Len(stream))
          /\ Len(stream) + i - Len(stream) = i
      BY <1>1, <1>2
    <3> QED
      BY <1>2, <1>3, <2>1, <3>1
  <2> QED
    BY <1>1, <1>2, <1>3, <2>1, <2>2
<1>7. /\ sent' \in Seq(Seq(Nat)) /\ Len(sent') = L + 1
      /\ \A k \in 1..L : sent'[k] = sent[k]
      /\ sent'[L + 1] = message
  BY <1>0, <1>1, <1>2, <1>3, AppendProperties
<1>8. /\ \A k \in 1..L + 1 : Start(k)' = Start(k)
      /\ Start(L + 1) = Len(stream) /\ Start(L + 2)' = Len(stream')
  <2>1. ASSUME NEW k \in 1..L PROVE Start(k)' = Start(k)
    <3>1. k <= L /\ k <= L + 1 /\ sent'[k] = sent[k]
      BY <1>1, <1>7
    <3> QED
      BY <1>7, <1>14, <3>1 DEF Start
  <2>2. ~(L + 1 <= L) /\ L + 1 <= L + 1 /\ ~(L + 2 <= L + 1)
    BY <1>1
  <2>3. Start(L + 1) = Len(stream) /\ Start(L + 2)' = Len(stream')
    BY <1>7, <1>14, <2>2 DEF Start
  <2>4. Start(L + 1)' = message[1]
    BY <1>7, <2>2 DEF Start
  <2>5. message[1] = Len(stream)
    BY <1>1, <1>2
  <2>6. \A k \in 1..L + 1 : k \in 1..L \/ k = L + 1
    BY <1>1
  <2> QED
    BY <2>1, <2>3, <2>4, <2>5, <2>6
<1>12. \A k \in 1..L : Laid(k)
  BY <1>14 DEF MessageInv
<1>9. ASSUME NEW k \in 1..L PROVE Laid(k)'
  <2>1. Laid(k) /\ sent'[k] = sent[k] /\ Start(k)' = Start(k) /\ Start(k + 1)' = Start(k + 1)
    <3>1. k \in 1..L + 1 /\ k + 1 \in 1..L + 1
      BY <1>1
    <3> QED
      BY <1>7, <1>8, <1>12, <3>1
  <2> DEFINE c == Len(sent[k])
  <2>2. /\ c \in Nat \ {0} /\ Start(k) \in Nat /\ Start(k) + c <= Len(stream)
        /\ \A i \in 1..c : Frg(Start(k) + i - 1) = c - i
    BY <2>1 DEF Laid
  <2>5. Len(sent'[k]) = c
    BY <2>1
  <2>6. sent[k] = [i \in 1..c |-> Start(k) + i - 1] /\ Start(k + 1) = Start(k) + c
    BY <2>1 DEF Laid
  <2> HIDE DEF c
  <2>3. ASSUME NEW i \in 1..c PROVE Frg(Start(k) + i - 1)' = c - i
    <3> DEFINE first == Start(k)
               size == Len(stream)
    <3>3. c \in Nat \ {0} /\ first \in Nat /\ first + c <= size /\ size \in Nat
      BY <1>1, <2>2
    <3>1. Start(k) + i - 1 + 1 \in 1..Len(stream)
      <4> HIDE DEF first, size
      <4>1. first + i - 1 + 1 \in 1..size
        BY <3>3
      <4> QED
        BY <4>1 DEF first, size
    <3>2. stream'[Start(k) + i - 1 + 1] = stream[Start(k) + i - 1 + 1]
      BY <1>6, <3>1
    <3> QED
      BY <2>1, <2>2, <3>2 DEF Frg
  <2>4. Start(k) + c <= Len(stream')
    BY <1>1, <1>6, <2>2
  <2> QED
    BY <2>1, <2>2, <2>3, <2>4, <2>5, <2>6 DEF Laid
<1>10. Laid(L + 1)'
  <2>1. Start(L + 1)' = Len(stream) /\ Start(L + 2)' = Len(stream) + n /\ Len(sent'[L + 1]) = n
    <3>1. L + 1 \in 1..L + 1
      BY <1>1
    <3> QED
      BY <1>2, <1>6, <1>7, <1>8, <3>1
  <2>2. sent'[L + 1] = [i \in 1..n |-> Start(L + 1)' + i - 1]
    BY <1>7, <2>1 DEF message
  <2>3. ASSUME NEW i \in 1..n PROVE Frg(Start(L + 1) + i - 1)' = n - i
    <3>1. Len(stream) + i - 1 + 1 = Len(stream) + i
      BY <1>1
    <3> QED
      BY <1>6, <2>1, <3>1 DEF Frg
  <2>4. L + 1 + 1 = L + 2
    BY <1>1
  <2> QED
    BY <1>1, <1>6, <2>1, <2>2, <2>3, <2>4 DEF Laid
<1>11. MessageInv'
  <2>1. Len(got) + 1 \in 1..L + 1
    BY <1>14 DEF MessageInv
  <2>2. Start(Len(got) + 1)' = Start(Len(got) + 1)
    <3>1. PICK g \in 1..L + 1 : g = Len(got) + 1
      BY <2>1
    <3>2. Start(g)' = Start(g) /\ Len(got') + 1 = g
      BY <1>3, <1>8, <3>1
    <3>3. Start(Len(got) + 1)' = Start(g)'
      BY <3>2 DEF Start
    <3> QED
      BY <3>1, <3>2, <3>3
  <2>3. \A k \in 1..Len(sent') : Laid(k)'
    <3>1. \A k \in 1..L + 1 : k \in 1..L \/ k = L + 1
      BY <1>1
    <3> QED
      BY <1>7, <1>9, <1>10, <3>1
  <2> QED
    BY <1>1, <1>3, <1>7, <1>14, <2>1, <2>2, <2>3 DEF MessageInv
<1>13. Channel!Next
  BY <1>3, <1>5 DEF Channel!Next, Channel!Accept
<1> QED
  BY <1>11, <1>13

LEMMA LaidStays ==
    ASSUME NEW k, Laid(k), UNCHANGED <<sent, stream>>
    PROVE  Laid(k)'
<1>1. Start(k)' = Start(k) /\ Start(k + 1)' = Start(k + 1)
  BY DEF Start
<1>2. ASSUME NEW i \in 1..Len(sent[k]) PROVE Frg(Start(k) + i - 1)' = Frg(Start(k) + i - 1)
  BY <1>1 DEF Frg
<1> QED
  BY <1>1, <1>2 DEF Laid

\* ikcp_recv returns the first message not read, and all of it.
LEMMA RecvMessage ==
    ASSUME LinkInv, MessageInv, Recv
    PROVE  MessageInv' /\ Channel!Deliver
<1> DEFINE base == rcvNxt - Len(rcvQue)
           g == Len(got) + 1
           message == sent[g]
           c == Len(message)
<1>1. PICK n \in 1..Len(rcvQue) :
        /\ EndsMessage(n)
        /\ got' = Append(got, SubSeq(rcvQue, 1, n))
        /\ Fill(rcvBuf, SubSeq(rcvQue, n + 1, Len(rcvQue)))
  BY DEF Recv
<1>2. /\ Complete /\ UNCHANGED <<sent, stream>>
  BY DEF Recv, sndVars
<1>3. /\ rcvNxt \in Nat /\ rcvNxt <= Len(stream) /\ Len(stream) \in Nat
      /\ Len(rcvQue) \in Nat /\ n \in Nat \ {0} /\ n <= Len(rcvQue)
      /\ Len(got) \in Nat /\ Len(sent) \in Nat /\ Len(got) <= Len(sent)
      /\ rcvQue \in Seq(0..rcvNxt - 1)
  BY LenProperties DEF LinkInv, TypeOK, MessageInv
<1>4. base = Start(g) /\ base < Len(stream)
  BY <1>3 DEF MessageInv
<1>5. Len(got) < Len(sent) /\ g \in 1..Len(sent)
  BY <1>3, <1>4 DEF Start
<1>6. Laid(g)
  BY <1>5 DEF MessageInv
<1>7. /\ c \in Nat \ {0} /\ base \in Nat
      /\ message = [i \in 1..c |-> base + i - 1]
      /\ Start(g + 1) = base + c
      /\ \A i \in 1..c : Frg(base + i - 1) = c - i
  BY <1>4, <1>6 DEF Laid
<1>8. \A i \in 1..Len(rcvQue) : rcvQue[i] = base + i - 1
  BY <1>3 DEF LinkInv, QueueInOrder
<1> HIDE DEF base, c, message
<1>9. \A i \in 1..Len(rcvQue) : i <= c => Frg(rcvQue[i]) = c - i
  <2> SUFFICES ASSUME NEW i \in 1..Len(rcvQue), i <= c PROVE Frg(rcvQue[i]) = c - i
    OBVIOUS
  <2>1. i \in 1..c
    BY <1>7
  <2> QED
    BY <1>7, <1>8, <2>1
<1>10. Len(rcvQue) >= c
  <2>1. 1 \in 1..Len(rcvQue) /\ 1 <= c
    BY <1>3, <1>7
  <2>2. Frg(rcvQue[1]) = c - 1
    BY <1>9, <2>1
  <2>3. Len(rcvQue) >= Frg(rcvQue[1]) + 1
    BY <1>2 DEF Complete
  <2> QED
    BY <1>7, <2>2, <2>3
<1>11. n = c
  <2>1. ~(n < c)
    <3> SUFFICES ASSUME n < c PROVE FALSE
      OBVIOUS
    <3>1. Frg(rcvQue[n]) = c - n
      BY <1>3, <1>7, <1>9
    <3> QED
      BY <1>1, <1>3, <1>7, <1>10, <3>1 DEF EndsMessage
  <2>2. ~(n > c)
    <3> SUFFICES ASSUME n > c PROVE FALSE
      OBVIOUS
    <3>1. c \in 1..n - 1 /\ c \in 1..Len(rcvQue) /\ c <= c
      BY <1>3, <1>7, <1>10
    <3>2. Frg(rcvQue[c]) = 0
      BY <1>7, <1>9, <3>1
    <3> QED
      BY <1>1, <3>1, <3>2 DEF EndsMessage
  <2> QED
    BY <1>3, <1>7, <2>1, <2>2
<1>12. SubSeq(rcvQue, 1, n) = message
  <2> DEFINE read == SubSeq(rcvQue, 1, n)
  <2>1. \A i \in 1..n : rcvQue[i] \in Nat
    <3> SUFFICES ASSUME NEW i \in 1..n PROVE rcvQue[i] \in Nat
      OBVIOUS
    <3>1. i \in 1..Len(rcvQue) /\ base + i - 1 \in Nat
      BY <1>3, <1>7
    <3> QED
      BY <1>8, <3>1
  <2>2. /\ read \in Seq(Nat) /\ Len(read) = n
        /\ \A i \in 1..n : read[i] = rcvQue[i]
    <3>1. 1 \in Int /\ n \in Int /\ (IF 1 <= n THEN n - 1 + 1 ELSE 0) = n /\ n - 1 + 1 = n
      BY <1>3
    <3>2. \A i \in 1..n : 1 + i - 1 = i
      OBVIOUS
    <3> QED
      BY <2>1, <3>1, <3>2, SubSeqProperties
  <2>3. message \in Seq(Nat) /\ Len(message) = n /\ \A i \in 1..n : message[i] = base + i - 1
    BY <1>7, <1>11
  <2>4. \A i \in 1..n : read[i] = message[i]
    <3> SUFFICES ASSUME NEW i \in 1..n PROVE read[i] = message[i]
      OBVIOUS
    <3>1. i \in 1..Len(rcvQue)
      BY <1>3
    <3> QED
      BY <1>8, <2>2, <2>3, <3>1
  <2> HIDE DEF read
  <2> QED
    BY <2>2, <2>3, <2>4, SeqEqual
<1>13. /\ got' \in Seq(Seq(Nat)) /\ Len(got') = Len(got) + 1
  <2>1. message \in Seq(Nat)
    BY <1>5, LenProperties DEF MessageInv, message
  <2>2. got \in Seq(Seq(Nat)) /\ got' = Append(got, message)
    BY <1>1, <1>12 DEF MessageInv
  <2> QED
    BY <2>1, <2>2, AppendProperties
<1>14. rcvNxt' - Len(rcvQue') = base + n
  BY <1>1, RecvFill DEF base
<1>15. Start(Len(got) + 1)' = Start(g + 1)
  BY <1>2, <1>13 DEF Start
<1>16. \A k \in 1..Len(sent') : Laid(k)'
  BY <1>2, LaidStays DEF MessageInv
<1>17. MessageInv'
  BY <1>2, <1>3, <1>5, <1>7, <1>11, <1>13, <1>14, <1>15, <1>16 DEF MessageInv
<1>18. Channel!Deliver
  BY <1>1, <1>2, <1>5, <1>12 DEF Channel!Deliver, message
<1> QED
  BY <1>17, <1>18

\* The other steps move no message boundary and read nothing.
LEMMA QuietStep ==
    ASSUME MessageInv, UNCHANGED <<sent, stream, got>>,
           rcvNxt' - Len(rcvQue') = rcvNxt - Len(rcvQue)
    PROVE  MessageInv' /\ UNCHANGED Channel!vars
<1>1. \A k \in 1..Len(sent') : Laid(k)'
  BY LaidStays DEF MessageInv
<1>2. Start(Len(got) + 1)' = Start(Len(got) + 1)
  BY DEF Start
<1> QED
  BY <1>1, <1>2 DEF MessageInv, Channel!vars

LEMMA DataMessage ==
    ASSUME LinkInv, MessageInv, NEW sn \in data, DataInput(sn)
    PROVE  MessageInv' /\ UNCHANGED Channel!vars
<1>1. UNCHANGED <<sent, stream, got>>
  BY DEF DataInput, sndVars
<1>2. CASE InWindow(sn) /\ sn >= rcvNxt
  <2>1. Fill(rcvBuf \cup {sn}, rcvQue)
    BY <1>2 DEF DataInput
  <2>2. /\ sn \in 0..sndNxt - 1 /\ rcvNxt \in 0..sndNxt /\ sndNxt \in Nat /\ RcvWnd \in Nat
        /\ rcvBuf \in SUBSET (0..sndNxt - 1) /\ rcvQue \in Seq(0..rcvNxt - 1)
    BY LenProperties, KcpAssumption DEF LinkInv, TypeOK
  <2>3. /\ rcvBuf \cup {sn} \in SUBSET (0..sndNxt - 1)
        /\ \A s \in rcvBuf \cup {sn} : rcvNxt <= s /\ s < rcvNxt + RcvWnd
        /\ Len(rcvQue) <= RcvWnd
        /\ \A i \in 1..Len(rcvQue) : rcvQue[i] = rcvNxt - Len(rcvQue) + i - 1
    BY <2>2, <1>2 DEF LinkInv, ReceiverBounded, QueueInOrder, InWindow
  <2>4. rcvNxt' - Len(rcvQue') = rcvNxt - Len(rcvQue)
    BY <2>1, <2>2, <2>3, FillStep
  <2> QED
    BY <1>1, <2>4, QuietStep
<1>3. CASE ~(InWindow(sn) /\ sn >= rcvNxt)
  <2>1. UNCHANGED <<rcvBuf, rcvQue, rcvNxt>>
    BY <1>3 DEF DataInput
  <2> QED
    BY <1>1, <2>1, QuietStep
<1> QED
  BY <1>2, <1>3

LEMMA MessageStep ==
    LinkInv /\ MessageInv /\ [Next]_vars => MessageInv' /\ [Channel!Next]_(Channel!vars)
<1> SUFFICES ASSUME LinkInv, MessageInv, [Next]_vars
             PROVE  MessageInv' /\ [Channel!Next]_(Channel!vars)
  OBVIOUS
<1>1. ASSUME NEW n \in 1..MaxSegs, Send(n)
      PROVE  MessageInv' /\ [Channel!Next]_(Channel!vars)
  BY <1>1, SendMessage
<1>2. CASE Recv
  BY <1>2, RecvMessage DEF Channel!Next
<1>3. ASSUME NEW sn \in data, DataInput(sn)
      PROVE  MessageInv' /\ [Channel!Next]_(Channel!vars)
  BY <1>3, DataMessage
<1>4. CASE \/ \E due \in SUBSET sndBuf, timeout \in BOOLEAN : SndFlush(due, timeout)
           \/ \E m \in ackNet : AckInput(m)
           \/ WaskInput
           \/ \E otherDirection \in BOOLEAN : RcvFlush(otherDirection)
           \/ Lose
           \/ UNCHANGED vars
  <2>1. UNCHANGED <<sent, stream, got, rcvNxt, rcvQue>>
    BY <1>4 DEF SndFlush, AckInput, WaskInput, RcvFlush, Lose, vars, sndVars, rcvVars
  <2> QED
    BY <2>1, QuietStep
<1> QED
  BY <1>1, <1>2, <1>3, <1>4 DEF Next

\* The link delivers every message whole, in order and at most once, whatever the
\* network does: it implements FifoChannel (ImplementsFifo).
THEOREM LinkIsFifo == Spec => ImplementsFifo
<1>1. Init => Channel!Init
  BY DEF Init, Channel!Init
<1> QED
  BY <1>1, LinkInvariant, MessageInit, MessageStep, PTL DEF Spec, ImplementsFifo, Channel!Spec
=============================================================================
