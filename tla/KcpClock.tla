------------------------------ MODULE KcpClock ------------------------------
(***************************************************************************)
(* When KCP acts: the loop of Kcp::Background around ikcp_update and       *)
(* ikcp_check, and the timers of ikcp_flush, which the handler thread      *)
(* calls too, by Kcp::Send.  KCP keeps its times in unsigned words and     *)
(* compares them by a signed difference; Background reads clock(), a       *)
(* number wider than the word, of CPU time on POSIX systems and of the     *)
(* time gone by elsewhere, and sleeps as many milliseconds as it has ticks *)
(* to go.  How far the clock moves while it sleeps is therefore left open, *)
(* up to MaxLag between two updates: nothing here says that the sleep ends *)
(* when it should, but what KCP does whenever it ends.                     *)
(*                                                                         *)
(* KcpLink has what the segments and acknowledgements are; here a segment  *)
(* is its timer, and the peer's window is open.                            *)
(***************************************************************************)
EXTENDS Integers

CONSTANTS
    Word,           \* times are kept modulo Word (2^32)
    Interval,       \* ticks between flushes (10, by ikcp_nodelay)
    Jump,           \* a larger step of the clock starts the flush timer anew (10000)
    MinRto, MaxRto, \* bounds of the resend time (30, 60000)
    MaxLag,         \* the clock moves no farther between two updates
    Segs            \* segments, each sent once or more

ASSUME ClockAssumption ==
    /\ Word \in Nat /\ Interval \in Nat \ {0} /\ Jump \in Nat
    /\ MinRto \in Nat /\ MaxRto \in Nat /\ MaxLag \in Nat \ {0}
    /\ Word % 2 = 0 /\ 2 * Jump < Word /\ 2 * (MaxLag + Interval) < Word
    /\ 4 * Interval <= Word
    /\ Interval <= MinRto /\ MinRto <= MaxRto /\ 2 * MaxRto < Word

VARIABLES
    clock,          \* clock(); a second lap stands for all laps after the first
    current,        \* kcp->current
    updated,        \* kcp->updated
    tsFlush,        \* kcp->ts_flush
    rxRto,          \* kcp->rx_rto
    queued,         \* snd_queue
    buf,            \* snd_buf: for each segment its resendts and rto, and as
                    \* history whether it was sent an odd number of times
    acks,           \* there are acknowledgements to send
    pc,             \* Background: "update", "check", "sleep"
    now,            \* Background's `current`, the word it is passed on as
    ts              \* what ikcp_check returned

kcpVars == <<current, updated, tsFlush, rxRto>>
segVars == <<queued, buf, acks>>
bgVars == <<pc, now, ts>>
vars == <<clock, kcpVars, segVars, bgVars>>

Laps == 0..2 * Word - 1

-----------------------------------------------------------------------------
(* Arithmetic of words.                                                     *)

Signed(w) == IF w < Word \div 2 THEN w ELSE w - Word

\* _itimediff
Diff_Wide(later, earlier) == later - earlier      \* mutant: not in a word
Diff(later, earlier) == Signed((later - earlier) % Word)

\* C's division rounds towards zero.
Half(i) == IF i >= 0 THEN i \div 2 ELSE -((-i) \div 2)

\* With nodelay = 1 a time-out adds half of the rto, taken as signed.
Backoff(r) == (r + Half(Signed(r))) % Word

-----------------------------------------------------------------------------
(* KCP.                                                                     *)

\* ikcp_create and ikcp_nodelay, in a process that has run for any time.
Init ==
    /\ clock \in Laps
    /\ current = 0 /\ updated = FALSE /\ tsFlush = 0
    /\ rxRto \in MinRto..MaxRto
    /\ queued = {} /\ buf = [s \in {} |-> 0] /\ acks = FALSE
    /\ pc = "update" /\ now = 0 /\ ts = 0

Due(s, t) == Diff(t, buf[s].resendts) >= 0

Timer(t, r, o) == [resendts |-> (t + r) % Word, rto |-> r, odd |-> o]

\* ikcp_flush at time t with segments `new` to send for the first time; those
\* in `fast` were skipped by enough acknowledgements to go before they are due.
Sent(s, t, fast) ==
    CASE Due(s, t) -> Timer(t, Backoff(buf[s].rto), ~buf[s].odd)
      [] ~Due(s, t) /\ s \in fast -> Timer(t, buf[s].rto, ~buf[s].odd)
      [] OTHER -> buf[s]

Flush(t, new) ==
    /\ \E fast \in SUBSET DOMAIN buf :
         buf' = [s \in DOMAIN buf \cup new |->
                    IF s \in new THEN Timer(t, rxRto, TRUE) ELSE Sent(s, t, fast)]
    /\ queued' = {}
    /\ acks' = FALSE

\* ikcp_update's flush timer, at time t: the time from which it goes on, and
\* the time it is set to when that has come.
FlushFrom_PutOff(t) ==                            \* mutant: a jump puts the flush off
    IF ~updated \/ Diff(t, tsFlush) >= Jump \/ Diff(t, tsFlush) < -Jump
    THEN (t + Interval) % Word ELSE tsFlush
FlushFrom(t) ==
    IF ~updated \/ Diff(t, tsFlush) >= Jump \/ Diff(t, tsFlush) < -Jump THEN t ELSE tsFlush

Rearmed_Once(t) == (FlushFrom(t) + Interval) % Word  \* mutant: may be in the past
Rearmed(t) ==
    LET next == (FlushFrom(t) + Interval) % Word
    IN  IF Diff(t, next) >= 0 THEN (t + Interval) % Word ELSE next

\* ikcp_check at time t: the time from which to call ikcp_update again.
Deadlines_FlushOnly(t) == {tsFlush}               \* mutant: forgets the segments
Deadlines(t) ==
    {IF Diff(t, tsFlush) >= Jump \/ Diff(t, tsFlush) < -Jump THEN t ELSE tsFlush}
        \cup {buf[s].resendts : s \in DOMAIN buf}

CheckAt(t) ==
    LET ahead == {Diff(d, t) : d \in Deadlines(t)} \cup {Interval}
        least == CHOOSE d \in ahead : \A e \in ahead : d <= e
    IN  IF ~updated \/ least <= 0 THEN t ELSE (t + least) % Word

-----------------------------------------------------------------------------
(* The threads.                                                             *)

\* Background: the clock is read, and ikcp_update called with it.
Update ==
    /\ pc = "update"
    /\ LET t == clock % Word
       IN  /\ now' = t /\ current' = t /\ updated' = TRUE
           /\ IF Diff(t, FlushFrom(t)) >= 0
              THEN tsFlush' = Rearmed(t) /\ Flush(t, queued)
              ELSE tsFlush' = FlushFrom(t) /\ UNCHANGED segVars
    /\ pc' = "check"
    /\ UNCHANGED <<clock, rxRto, ts>>

Check ==
    /\ pc = "check"
    /\ ts' = CheckAt(now)
    /\ pc' = "sleep"
    /\ UNCHANGED <<clock, kcpVars, segVars, now>>

\* The ticks from clock() to ts are slept as milliseconds, and not at all when
\* clock() has outgrown the word; how far the clock moves meanwhile is open.
Wake ==
    /\ pc = "sleep"
    /\ pc' = "update" /\ now' = 0 /\ ts' = 0
    /\ UNCHANGED <<clock, kcpVars, segVars>>

\* Kcp::Send on the handler thread; ikcp_flush works with the time of the last
\* update and does nothing before the first.
Send(s) ==
    /\ s \notin queued \cup DOMAIN buf
    /\ IF updated THEN Flush(current, queued \cup {s})
                  ELSE queued' = queued \cup {s} /\ UNCHANGED <<buf, acks>>
    /\ UNCHANGED <<clock, kcpVars, bgVars>>

\* ikcp_input on the io thread: data to acknowledge ...
DataInput ==
    /\ acks' = TRUE
    /\ UNCHANGED <<clock, kcpVars, queued, buf, bgVars>>

\* ... or an acknowledgement, from which ikcp_update_ack takes a time in bounds.
AckInput(s) ==
    /\ s \in DOMAIN buf
    /\ buf' = [r \in DOMAIN buf \ {s} |-> buf[r]]
    /\ rxRto' \in MinRto..MaxRto
    /\ UNCHANGED <<clock, current, updated, tsFlush, queued, acks, bgVars>>

\* clock() moves on.
Advance ==
    /\ updated => (clock - current) % Word < MaxLag
    /\ clock' = IF clock + 1 \in Laps THEN clock + 1 ELSE Word
    /\ UNCHANGED <<kcpVars, segVars, bgVars>>

Next ==
    \/ Update \/ Check \/ Wake
    \/ \E s \in Segs : Send(s) \/ AckInput(s)
    \/ DataInput
    \/ Advance

Spec == Init /\ [][Next]_vars

\* Background goes on, and so does the clock: the handler thread's loop, which
\* never blocks, uses up CPU time.  Nothing need be sent or acknowledged.
Fairness == WF_vars(Update \/ Check \/ Wake) /\ WF_vars(Advance)
FairSpec == Spec /\ Fairness

-----------------------------------------------------------------------------
(* Properties.                                                              *)

Times == 0..Word - 1

\* The variables have their types: all times of KCP are words.
TypeOK ==
    /\ clock \in Laps /\ current \in Times /\ updated \in BOOLEAN
    /\ tsFlush \in Times /\ rxRto \in MinRto..MaxRto
    /\ queued \subseteq Segs /\ DOMAIN buf \subseteq Segs \ queued
    /\ \A s \in DOMAIN buf : buf[s] \in [resendts : Times, rto : Times, odd : BOOLEAN]
    /\ acks \in BOOLEAN
    /\ pc \in {"update", "check", "sleep"} /\ now \in Times /\ ts \in Times

\* After any number of laps and any lag, the next flush is set for a time, a
\* word like all others, that is still to come and at most one interval away
\* (ikcp_update).
FlushArmed == TypeOK /\ (updated => Diff(tsFlush, current) \in 1..Interval)

\* The time ikcp_check returns is at most an interval ahead, and later than
\* neither the next flush nor a segment's resend time, not even that of a
\* segment which Kcp::Send adds, or sends again, after ikcp_check has returned;
\* while a segment that is due waits for the flush it is the present.  A
\* back-off of half a word or more counts as due at once and is left aside.
CheckInTime ==
    pc = "sleep" =>
        LET ahead == Diff(ts, current) IN
        /\ ahead \in 0..Interval
        /\ ahead > 0 =>
             /\ ahead <= Diff(tsFlush, current)
             /\ \A s \in DOMAIN buf :
                    2 * buf[s].rto < Word => ahead <= Diff(buf[s].resendts, current)

\* A segment that is not acknowledged is sent again, and again after that,
\* however the clock and its back-off wrap.
UnackedResent ==
    \A s \in Segs, o \in BOOLEAN :
        (s \in DOMAIN buf /\ buf[s].odd = o) ~> (s \notin DOMAIN buf \/ buf[s].odd # o)

\* What waits for a flush, an acknowledgement or a segment sent before the
\* first update, leaves with one.
WaitingFlushed == (acks \/ queued # {}) ~> ~(acks \/ queued # {})
=============================================================================
