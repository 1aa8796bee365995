------------------------------- MODULE KcpLink -------------------------------
(***************************************************************************)
(* One direction of a KCP connection (external/kcp/ikcp.c) as EyPS sets it *)
(* up: no congestion window (nc = 1), message mode (stream = 0).  A sender *)
(* fragments messages, keeps segments until they are acknowledged and      *)
(* sends them again when due; a receiver reassembles, acknowledges and     *)
(* advertises its window.  The network loses, repeats and reorders.        *)
(* A segment is its sequence number; sequence numbers do not wrap here.    *)
(* When a segment is due (time-outs, fast resend) is left open.  The state  *)
(* a dead link sets (xmit >= dead_link) is read by nobody.                 *)
(***************************************************************************)
EXTENDS Integers, Sequences, FiniteSets

CONSTANTS
    FragLimit,      \* IKCP_WND_RCV (128): a message has fewer fragments than this
    SndWnd,         \* snd_wnd (4096)
    RcvWnd,         \* rcv_wnd (4096; ikcp_wndsize allows no less than IKCP_WND_RCV)
    MaxSegs,        \* bound of the model: segments sent
    MaxAcks,        \* bound of the model: acknowledgements waiting for a flush
    MaxFlight,      \* bound of the model: segments on their way back to the sender
    Repeats         \* TRUE: the network keeps what it delivers; FALSE: it loses

ASSUME KcpAssumption ==
    /\ FragLimit \in Nat \ {0, 1}
    /\ SndWnd \in Nat \ {0}
    /\ RcvWnd \in Nat /\ RcvWnd >= FragLimit
    /\ MaxSegs \in Nat /\ MaxAcks \in Nat /\ MaxFlight \in Nat
    /\ Repeats \in BOOLEAN

VARIABLES
    sent,           \* history: messages taken by ikcp_send, as their segments
    stream,         \* frg of every segment: segment sn has frg stream[sn + 1]
    sndNxt,         \* snd_nxt: segments from here on are in snd_queue
    sndUna,         \* snd_una
    sndBuf,         \* snd_buf
    rmtWnd,         \* rmt_wnd: the window last heard of
    probing,        \* probe_wait # 0
    rcvNxt,         \* rcv_nxt
    rcvBuf,         \* rcv_buf
    rcvQue,         \* rcv_queue, oldest segment first
    acks,           \* acklist
    tell,           \* probe has IKCP_ASK_TELL
    got,            \* history: messages returned by ikcp_recv, as their segments
    data,           \* the network: PUSH segments on their way
    ackNet,         \* the network: segments on their way back [sn, una, wnd]
    wask            \* the network: a WASK on its way

sndVars == <<sent, stream, sndNxt, sndUna, sndBuf, rmtWnd, probing>>
rcvVars == <<rcvNxt, rcvBuf, rcvQue, acks, tell, got>>
netVars == <<data, ackNet, wask>>
vars == <<sndVars, rcvVars, netVars>>

NoSn == -1          \* sn of a segment that acknowledges none

Smaller(a, b) == IF a <= b THEN a ELSE b
Larger(a, b) == IF a <= b THEN b ELSE a

\* Every segment tells how far its sender has received and what room it has.
WndUnused == IF Len(rcvQue) < RcvWnd THEN RcvWnd - Len(rcvQue) ELSE 0
Header_Highest(sn) ==                             \* mutant: una past a gap
    [sn |-> sn, una |-> IF rcvBuf = {} THEN rcvNxt ELSE rcvNxt + 1, wnd |-> WndUnused]
Header(sn) == [sn |-> sn, una |-> rcvNxt, wnd |-> WndUnused]

Init ==
    /\ sent = <<>> /\ stream = <<>>
    /\ sndNxt = 0 /\ sndUna = 0 /\ sndBuf = {}
    /\ rmtWnd = FragLimit /\ probing = FALSE
    /\ rcvNxt = 0 /\ rcvBuf = {} /\ rcvQue = <<>>
    /\ acks = {} /\ tell = FALSE /\ got = <<>>
    /\ data = {} /\ ackNet = {} /\ wask = FALSE

-----------------------------------------------------------------------------
(* The sender.                                                              *)

\* ikcp_send: a message of n fragments, numbered downwards in frg, joins
\* snd_queue; one of FragLimit or more is refused.
Accepts(n) == n < FragLimit

Send(n) ==
    /\ Accepts(n)
    /\ Len(stream) + n <= MaxSegs
    /\ stream' = stream \o [i \in 1..n |-> n - i]
    /\ sent' = Append(sent, [i \in 1..n |-> Len(stream) + i - 1])
    /\ UNCHANGED <<sndNxt, sndUna, sndBuf, rmtWnd, probing, rcvVars, netVars>>

\* The first sequence number that stays in snd_queue.
Allowed == sndUna + Smaller(SndWnd, rmtWnd)

FlushNxt == Larger(sndNxt, Smaller(Allowed, Len(stream)))

\* probe_wait is set by the first flush with a closed window; a later one, when
\* ts_probe has come, asks.
Asks_Never(timeout) == FALSE                      \* mutant: no window probe
Asks(timeout) == rmtWnd = 0 /\ probing /\ timeout

\* ikcp_flush: new segments as the window allows, again those that are due,
\* and a window probe.
SndFlush(due, timeout) ==
    /\ sndNxt' = FlushNxt
    /\ sndBuf' = sndBuf \cup sndNxt..FlushNxt - 1
    /\ data' = data \cup due \cup sndNxt..FlushNxt - 1
    /\ wask' = (wask \/ Asks(timeout))
    /\ probing' = (rmtWnd = 0)
    /\ UNCHANGED <<sent, stream, sndUna, rmtWnd, rcvVars, ackNet>>

\* ikcp_parse_una, then ikcp_parse_ack: what stays in snd_buf.
Unacked(m) == {s \in sndBuf : s >= m.una} \ {m.sn}

\* ikcp_shrink_buf
Shrink(buf) ==
    \/ buf = {} /\ sndUna' = sndNxt
    \/ \E una \in buf : (\A s \in buf : una <= s) /\ sndUna' = una

\* ikcp_input of an ACK or WINS segment, or of a PUSH of the other direction.
AckInput(m) ==
    /\ m \in ackNet
    /\ ackNet' = IF Repeats THEN ackNet ELSE ackNet \ {m}
    /\ rmtWnd' = m.wnd
    /\ sndBuf' = Unacked(m)
    /\ Shrink(Unacked(m))
    /\ UNCHANGED <<sent, stream, sndNxt, probing, rcvVars, data, wask>>

-----------------------------------------------------------------------------
(* The receiver.                                                            *)

\* The loop that moves segments from rcv_buf to rcv_queue can move k of them.
CanMove_NoRoom(buf, que, k) ==                    \* mutant: rcv_queue without limit
    k = 0 \/ {s \in buf : s < rcvNxt + k} = rcvNxt..rcvNxt + k - 1
CanMove(buf, que, k) ==
    \/ k = 0
    \/ /\ Len(que) + k <= RcvWnd
       /\ {s \in buf : s < rcvNxt + k} = rcvNxt..rcvNxt + k - 1

\* ... and moves as many as it can.
Fill(buf, que) ==
    \E k \in 0..RcvWnd :
        /\ CanMove(buf, que, k) /\ ~CanMove(buf, que, k + 1)
        /\ rcvBuf' = buf \ (rcvNxt..rcvNxt + k - 1)
        /\ rcvQue' = que \o [i \in 1..k |-> rcvNxt + i - 1]
        /\ rcvNxt' = rcvNxt + k

\* ikcp_input of a PUSH segment, and ikcp_parse_data: everything below the
\* window's end is acknowledged, what is new is kept.  (MaxAcks bounds the model.)
InWindow(sn) == sn < rcvNxt + RcvWnd

Acked_Any(sn) == {sn}                             \* mutant: also what is refused
Acked(sn) == IF InWindow(sn) THEN {sn} ELSE {}

DataInput(sn) ==
    /\ sn \in data
    /\ Cardinality(acks \cup Acked(sn)) <= MaxAcks
    /\ data' = IF Repeats THEN data ELSE data \ {sn}
    /\ acks' = acks \cup Acked(sn)
    /\ IF InWindow(sn) /\ sn >= rcvNxt
       THEN Fill(rcvBuf \cup {sn}, rcvQue)
       ELSE UNCHANGED <<rcvBuf, rcvQue, rcvNxt>>
    /\ UNCHANGED <<sndVars, tell, got, ackNet, wask>>

WaskInput ==
    /\ wask
    /\ wask' = Repeats
    /\ tell' = TRUE
    /\ UNCHANGED <<sndVars, rcvNxt, rcvBuf, rcvQue, acks, got, data, ackNet>>

Frg(sn) == stream[sn + 1]

\* ikcp_peeksize: all fragments of the first message are there.
Complete_Any == rcvQue # <<>>                     \* mutant: the check left out
Complete == rcvQue # <<>> /\ Len(rcvQue) >= Frg(rcvQue[1]) + 1

\* ikcp_recv merges up to the first fragment whose frg is 0.
EndsMessage(n) ==
    /\ Frg(rcvQue[n]) = 0 \/ n = Len(rcvQue)
    /\ \A i \in 1..n - 1 : Frg(rcvQue[i]) # 0

Recv ==
    /\ Complete
    /\ \E n \in 1..Len(rcvQue) :
        /\ EndsMessage(n)
        /\ got' = Append(got, SubSeq(rcvQue, 1, n))
        /\ Fill(rcvBuf, SubSeq(rcvQue, n + 1, Len(rcvQue)))
    /\ tell' = (tell \/ (Len(rcvQue) >= RcvWnd /\ Len(rcvQue') < RcvWnd))
    /\ UNCHANGED <<sndVars, acks, netVars>>

\* The network after new segments joined it: of the old ones, as many stay as
\* MaxFlight leaves room for.
Joined(old, new) ==
    LET room == Larger(MaxFlight, Cardinality(new))
    IN {new \cup kept : kept \in
          {k \in SUBSET old : /\ Cardinality(new \cup k) <= room
                              /\ \A m \in old \ k : Cardinality(new \cup k \cup {m}) > room}}

\* ikcp_flush of the receiver: the acknowledgements and, when asked for, the
\* window.  A segment of the other direction carries the same fields.
RcvFlush(otherDirection) ==
    LET out == {Header(sn) : sn \in acks}
               \cup (IF tell \/ otherDirection THEN {Header(NoSn)} ELSE {})
    IN /\ ackNet' \in Joined(ackNet, out)
       /\ acks' = {} /\ tell' = FALSE
       /\ UNCHANGED <<sndVars, rcvNxt, rcvBuf, rcvQue, got, data, wask>>

-----------------------------------------------------------------------------
(* The network.  One that repeats keeps every segment, to deliver it any    *)
(* number of times, in any order, or never.                                 *)

Lose ==
    /\ ~Repeats
    /\ \/ \E sn \in data : data' = data \ {sn} /\ UNCHANGED <<ackNet, wask>>
       \/ \E m \in ackNet : ackNet' = ackNet \ {m} /\ UNCHANGED <<data, wask>>
       \/ wask /\ wask' = FALSE /\ UNCHANGED <<data, ackNet>>
    /\ UNCHANGED <<sndVars, rcvVars>>

Next ==
    \/ \E n \in 1..MaxSegs : Send(n)
    \/ \E due \in SUBSET sndBuf, timeout \in BOOLEAN : SndFlush(due, timeout)
    \/ \E m \in ackNet : AckInput(m)
    \/ \E sn \in data : DataInput(sn)
    \/ WaskInput
    \/ Recv
    \/ \E otherDirection \in BOOLEAN : RcvFlush(otherDirection)
    \/ Lose

Spec == Init /\ [][Next]_vars

-----------------------------------------------------------------------------
(* Safety.                                                                  *)

\* Types: the sender's buffer is made of segments it has numbered, the receiver
\* and the network hold nothing else.
TypeOK ==
    /\ sndNxt \in 0..Len(stream) /\ sndUna \in 0..sndNxt
    /\ sndBuf \subseteq 0..sndNxt - 1
    /\ rmtWnd \in Nat /\ probing \in BOOLEAN
    /\ rcvNxt \in 0..sndNxt
    /\ rcvBuf \subseteq 0..sndNxt - 1
    /\ rcvQue \in Seq(0..rcvNxt - 1)
    /\ acks \subseteq 0..sndNxt - 1 /\ tell \in BOOLEAN
    /\ data \subseteq 0..sndNxt - 1
    /\ ackNet \subseteq [sn: {NoSn} \cup 0..sndNxt - 1, una: 0..rcvNxt, wnd: Nat]
    /\ wask \in BOOLEAN

\* A segment the sender has dropped has reached the receiver, however
\* acknowledgements were lost, repeated or overtaken: nothing is ever missing
\* for good (ikcp_parse_una, ikcp_parse_ack against ikcp_parse_data).
DroppedOnlyIfReceived ==
    \A sn \in 0..sndNxt - 1 : sn \notin sndBuf => sn < rcvNxt \/ sn \in rcvBuf

\* rcv_queue is the run of segments that ends before rcv_nxt: no gap, no
\* repetition, no exchange (ikcp_parse_data, ikcp_recv).
QueueInOrder ==
    \A i \in 1..Len(rcvQue) : rcvQue[i] = rcvNxt - Len(rcvQue) + i - 1

\* The receiver never holds more than its window in rcv_queue and another
\* window in rcv_buf.  Not the sender sees to it, which may work with a stale
\* window and send too much, but the tests of ikcp_input and ikcp_parse_data.
ReceiverBounded ==
    /\ Len(rcvQue) <= RcvWnd
    /\ \A sn \in rcvBuf : rcvNxt <= sn /\ sn < rcvNxt + RcvWnd

\* Every message is delivered whole, in order and once: the link implements
\* FifoChannel.
Messages == {[i \in 1..n |-> sn + i - 1] : n \in 1..MaxSegs, sn \in 0..MaxSegs - 1}

Channel == INSTANCE FifoChannel

ImplementsFifo == Channel!Spec

-----------------------------------------------------------------------------
(* Liveness.  ikcp_update is called again and again, a segment that stays   *)
(* in snd_buf is due again and again, and so is the probe; the application  *)
(* reads; of what is sent again and again, something gets through.          *)

UpToDate(m) == m.una = rcvNxt /\ m.wnd = WndUnused

Fairness ==
    /\ WF_vars(SndFlush({}, TRUE))
    /\ \A sn \in 0..MaxSegs - 1 :
        /\ WF_vars(sn \in sndBuf /\ SndFlush({sn}, FALSE))
        /\ SF_vars(DataInput(sn))
    /\ WF_vars(RcvFlush(FALSE))
    /\ WF_vars(Recv)
    /\ SF_vars(\E m \in ackNet : UpToDate(m) /\ AckInput(m))
    /\ SF_vars(WaskInput)

FairSpec == Spec /\ Fairness

\* Every message taken by ikcp_send is returned by ikcp_recv in the end: no loss,
\* closed window or lost window update stops the link for good.
EverythingArrives ==
    \A n \in 1..MaxSegs : Len(sent) >= n ~> Len(got) >= n
=============================================================================
