---------------------------- MODULE KcpClockProofs ----------------------------
(* Proofs about KcpClock, for every word, interval, bound and segment set.   *)
EXTENDS KcpClock, WellFoundedInduction, NaturalsInduction, TLAPS

-----------------------------------------------------------------------------
(* Arithmetic of words.                                                     *)

LEMMA WordBounds ==
    /\ Word \in Nat /\ Word > 0 /\ Word \div 2 \in Nat /\ Word = 2 * (Word \div 2)
    /\ Interval \in Nat /\ Interval > 0 /\ MinRto \in Nat /\ MaxRto \in Nat /\ Jump \in Nat
    /\ MaxLag \in Nat /\ MaxLag > 0
    /\ 2 * Jump < Word /\ 2 * (MaxLag + Interval) < Word
    /\ Interval <= MinRto /\ MinRto <= MaxRto /\ 2 * MaxRto < Word
BY ClockAssumption

\* The remainder of a number at most two words away.
LEMMA ModCases ==
    ASSUME NEW x \in Int, -2 * Word <= x, x < 2 * Word
    PROVE  x % Word = IF x < -Word THEN x + 2 * Word
                      ELSE IF x < 0 THEN x + Word
                      ELSE IF x < Word THEN x ELSE x - Word
<1> DEFINE q == x \div Word
           r == x % Word
<1>1. Word \in Nat /\ Word > 0
  BY WordBounds
<1>2. q \in Int /\ r \in Int /\ 0 <= r /\ r < Word /\ x = Word * q + r
  BY <1>1
<1> HIDE DEF q, r
<1>3. q \in {-2, -1, 0, 1}
  <2>1. ~(q >= 2)
    BY <1>1, <1>2
  <2>2. ~(q <= -3)
    BY <1>1, <1>2
  <2> QED
    BY <1>2, <2>1, <2>2
<1>4. r = IF x < -Word THEN x + 2 * Word
          ELSE IF x < 0 THEN x + Word
          ELSE IF x < Word THEN x ELSE x - Word
  BY <1>1, <1>2, <1>3
<1> QED
  BY <1>4 DEF r

LEMMA ModTimes ==
    ASSUME NEW x \in Int
    PROVE  x % Word \in Times
BY WordBounds DEF Times

\* A time some ticks on.
LEMMA AddWrap ==
    ASSUME NEW t \in Times, NEW r \in Nat, r <= Word
    PROVE  /\ (t + r) % Word \in Times
           /\ (t + r) % Word = IF t + r < Word THEN t + r ELSE (t + r) - Word
<1> DEFINE x == t + r
<1>1. x \in Int /\ 0 <= x /\ x < 2 * Word
  BY WordBounds DEF Times
<1> HIDE DEF x
<1>2. x % Word \in Times
  BY <1>1, ModTimes
<1>3. x % Word = IF x < Word THEN x ELSE x - Word
  BY <1>1, ModCases, WordBounds
<1> QED
  BY <1>2, <1>3, Zenon DEF x

\* _itimediff of two words.
LEMMA DiffCases ==
    ASSUME NEW a \in Times, NEW b \in Times
    PROVE  /\ Diff(a, b) \in Int
           /\ -(Word \div 2) <= Diff(a, b) /\ Diff(a, b) < Word \div 2
           /\ \/ a - b = Diff(a, b)
              \/ a - b = Diff(a, b) + Word
              \/ a - b = Diff(a, b) - Word
<1>1. a - b \in Int /\ -2 * Word <= a - b /\ a - b < 2 * Word
  BY WordBounds DEF Times
<1>2. (a - b) % Word = IF a - b < 0 THEN a - b + Word ELSE a - b
  BY <1>1, ModCases, WordBounds DEF Times
<1> QED
  BY <1>1, <1>2, WordBounds DEF Diff, Signed, Times

LEMMA DiffIs ==
    ASSUME NEW a \in Times, NEW b \in Laps, NEW d \in Int,
           -(Word \div 2) <= d, d < Word \div 2,
           a - b = d \/ a - b = d + Word \/ a - b = d - Word \/ a - b = d - 2 * Word
    PROVE  Diff(a, b) = d
<1>1. a - b \in Int /\ -2 * Word <= a - b /\ a - b < Word
  BY WordBounds DEF Times, Laps
<1>2. (a - b) % Word = IF d >= 0 THEN d ELSE d + Word
  BY <1>1, ModCases, WordBounds
<1> QED
  BY <1>2, WordBounds DEF Diff, Signed

\* A time set r ticks ahead of a clock is r ticks ahead of it.
LEMMA DiffAhead ==
    ASSUME NEW b \in Laps, NEW t \in Times, b % Word = t, NEW r \in Nat, 2 * r < Word
    PROVE  (t + r) % Word \in Times /\ Diff((t + r) % Word, b) = r
<1>1. t + r \in Int /\ 0 <= t + r /\ t + r < 2 * Word /\ b \in Int /\ 0 <= b /\ b < 2 * Word
  BY WordBounds DEF Times, Laps
<1>2. (t + r) % Word = IF t + r < Word THEN t + r ELSE t + r - Word
  BY <1>1, ModCases, WordBounds
<1>3. t = IF b < Word THEN b ELSE b - Word
  BY <1>1, ModCases, WordBounds
<1>4. (t + r) % Word \in Times
  BY <1>1, ModTimes
<1> DEFINE a == (t + r) % Word
<1>5. a - b = r \/ a - b = r + Word \/ a - b = r - Word \/ a - b = r - 2 * Word
  BY <1>1, <1>2, <1>3, WordBounds
<1>6. a \in Times
  BY <1>4
<1> HIDE DEF a
<1>7. Diff(a, b) = r
  BY <1>5, <1>6, DiffIs, WordBounds
<1> QED
  BY <1>4, <1>7 DEF a

\* However the back-off wraps, a time below half a word is no shorter than the
\* interval between flushes.
RtoOK(r) == r \in Times /\ (2 * r < Word => Interval <= r)

LEMMA BackoffRto ==
    ASSUME NEW r, RtoOK(r)
    PROVE  RtoOK(Backoff(r))
<1>1. r \in Int /\ 0 <= r /\ r < Word
  BY WordBounds DEF RtoOK, Times
<1>2. CASE r < Word \div 2
  <2>1. Half(Signed(r)) = r \div 2
    BY <1>1, <1>2 DEF Half, Signed
  <2>2. r + r \div 2 \in Int /\ 0 <= r + r \div 2 /\ r + r \div 2 < Word
    BY <1>1, <1>2, WordBounds
  <2>3. Backoff(r) = r + r \div 2
    BY <2>1, <2>2, ModCases, WordBounds DEF Backoff
  <2> QED
    BY <1>1, <1>2, <2>2, <2>3, WordBounds DEF RtoOK, Times
<1>3. CASE r >= Word \div 2
  <2>1. Half(Signed(r)) = -((Word - r) \div 2)
    BY <1>1, <1>3, WordBounds DEF Half, Signed
  <2> DEFINE b == r - (Word - r) \div 2
  <2>2. b \in Int /\ 0 <= b /\ b < Word /\ Interval <= b
    BY <1>1, <1>3, WordBounds, ClockAssumption
  <2>3. Backoff(r) = b
    BY <1>1, <2>1, <2>2, ModCases, WordBounds DEF Backoff
  <2> HIDE DEF b
  <2> QED
    BY <2>2, <2>3, WordBounds DEF RtoOK, Times
<1> QED
  BY <1>1, <1>2, <1>3, WordBounds

\* A set of integers with a lower bound has a least element.
LEMMA LeastExists ==
    ASSUME NEW S, S \subseteq Int, S # {}, NEW lo \in Int, \A x \in S : lo <= x
    PROVE  \E d \in S : \A e \in S : d <= e
<1> DEFINE T == {x - lo : x \in S}
<1>1. T \subseteq Nat /\ T # {}
  <2>1. \A x \in S : x - lo \in Nat
    OBVIOUS
  <2>2. PICK x \in S : TRUE
    OBVIOUS
  <2>3. x - lo \in T
    OBVIOUS
  <2> QED
    BY <2>1, <2>3
<1> HIDE DEF T
<1>2. PICK n \in T : \A m \in T : ~(<<m, n>> \in OpToRel(<, Nat))
  BY <1>1, WFMin, NatLessThanWellFounded
<1>3. \A m \in T : n <= m
  <2>1. \A m \in T : ~(m < n)
    BY <1>1, <1>2, Zenon DEF OpToRel
  <2> QED
    BY <1>1, <2>1
<1>4. PICK d \in S : n = d - lo
  BY DEF T
<1>5. \A e \in S : d <= e
  <2> TAKE e \in S
  <2>1. e - lo \in T
    BY DEF T
  <2> QED
    BY <1>3, <1>4, <2>1
<1> QED
  BY <1>5

-----------------------------------------------------------------------------
(* The timers.                                                              *)

SegOK(b) == b \in [resendts : Times, rto : Times, odd : BOOLEAN] /\ RtoOK(b.rto)

\* Types; the flush timer is armed and the clock not far ahead of the last
\* update; between update and sleep Background works with the time of that
\* update; and what ikcp_check returned is late for nothing.
ClockInv ==
    /\ TypeOK
    /\ \A s \in DOMAIN buf : SegOK(buf[s])
    /\ updated => /\ Diff(tsFlush, current) \in 1..Interval
                  /\ (clock - current) % Word <= MaxLag
    /\ pc # "update" => updated /\ now = current
    /\ CheckInTime

LEMMA ClockInit == Init => ClockInv
<1> SUFFICES ASSUME Init PROVE ClockInv
  OBVIOUS
<1>1. 0 \in Times /\ DOMAIN buf = {}
  BY WordBounds DEF Init, Laps, Times
<1> QED
  BY <1>1 DEF Init, ClockInv, TypeOK, CheckInTime

\* What a flush at time t does to the segments.
LEMMA FlushSegments ==
    ASSUME \A s \in DOMAIN buf : SegOK(buf[s]), rxRto \in MinRto..MaxRto,
           NEW t \in Times, NEW new, new \cap DOMAIN buf = {}, Flush(t, new)
    PROVE  /\ DOMAIN buf' = DOMAIN buf \cup new /\ queued' = {} /\ acks' = FALSE
           /\ \A s \in DOMAIN buf' :
                /\ SegOK(buf'[s])
                /\ \/ s \in DOMAIN buf /\ buf'[s] = buf[s]
                   \/ buf'[s].resendts = (t + buf'[s].rto) % Word
<1> PICK fast \in SUBSET DOMAIN buf :
      buf' = [s \in DOMAIN buf \cup new |->
                 IF s \in new THEN Timer(t, rxRto, TRUE) ELSE Sent(s, t, fast)]
  BY DEF Flush
<1>1. ASSUME NEW r, RtoOK(r), NEW o \in BOOLEAN
      PROVE  /\ SegOK(Timer(t, r, o))
             /\ Timer(t, r, o).resendts = (t + Timer(t, r, o).rto) % Word
  <2>1. (t + r) % Word \in Times
    <3>1. t + r \in Int
      BY <1>1, WordBounds DEF RtoOK, Times
    <3> QED
      BY <3>1, ModTimes
  <2> QED
    BY <1>1, <2>1 DEF Timer, SegOK, RtoOK
<1>2. RtoOK(rxRto)
  BY WordBounds DEF RtoOK, Times
<1>3. ASSUME NEW s \in DOMAIN buf'
      PROVE  /\ SegOK(buf'[s])
             /\ \/ s \in DOMAIN buf /\ buf'[s] = buf[s]
                \/ buf'[s].resendts = (t + buf'[s].rto) % Word
  <2>1. CASE s \in new
    <3>1. buf'[s] = Timer(t, rxRto, TRUE)
      BY <2>1
    <3> QED
      BY <1>1, <1>2, <3>1
  <2>2. CASE s \notin new
    <3>1. s \in DOMAIN buf /\ buf'[s] = Sent(s, t, fast)
      BY <2>2
    <3>2. SegOK(buf[s]) /\ RtoOK(buf[s].rto) /\ RtoOK(Backoff(buf[s].rto))
      BY <3>1, BackoffRto DEF SegOK
    <3>3. PICK o \in BOOLEAN : o = buf[s].odd
      BY <3>2 DEF SegOK
    <3>7. (~o) \in BOOLEAN
      OBVIOUS
    <3>4. CASE Due(s, t)
      <4>1. buf'[s] = Timer(t, Backoff(buf[s].rto), ~o)
        BY <3>1, <3>3, <3>4 DEF Sent
      <4> QED
        BY <1>1, <3>2, <3>7, <4>1
    <3>5. CASE ~Due(s, t) /\ s \in fast
      <4>1. buf'[s] = Timer(t, buf[s].rto, ~o)
        BY <3>1, <3>3, <3>5 DEF Sent
      <4> QED
        BY <1>1, <3>2, <3>7, <4>1
    <3>6. CASE ~Due(s, t) /\ s \notin fast
      <4>1. buf'[s] = buf[s]
        BY <3>1, <3>6 DEF Sent
      <4> QED
        BY <3>1, <3>2, <4>1
    <3> QED
      BY <3>4, <3>5, <3>6
  <2> QED
    BY <2>1, <2>2
<1> QED
  BY <1>3 DEF Flush

\* The flush timer after an update, whether it was due, late or far off.
LEMMA RearmedAhead ==
    ASSUME ClockInv, NEW t, t = clock % Word
    PROVE  /\ t \in Times
           /\ Diff(t, FlushFrom(t)) >= 0 =>
                Rearmed(t) \in Times /\ Diff(Rearmed(t), t) \in 1..Interval
           /\ ~(Diff(t, FlushFrom(t)) >= 0) =>
                FlushFrom(t) \in Times /\ Diff(FlushFrom(t), t) \in 1..Interval
<1>1. clock \in Int /\ 0 <= clock /\ clock < 2 * Word /\ tsFlush \in Times /\ current \in Times
  BY WordBounds DEF ClockInv, TypeOK, Laps
<1>2. t \in Times /\ t \in Laps /\ t % Word = t
  <2>1. t \in Times
    BY <1>1, ModTimes
  <2>2. t \in Int /\ 0 <= t /\ t < Word
    BY <2>1, WordBounds DEF Times
  <2>3. t % Word = t
    BY <2>2, ModCases, WordBounds
  <2> QED
    BY <2>1, <2>2, <2>3, WordBounds DEF Laps
<1>3. /\ (t + Interval) % Word \in Times
      /\ Diff((t + Interval) % Word, t) = Interval
  BY <1>2, DiffAhead, WordBounds
<1>4. CASE FlushFrom(t) = t
  <2>1. Diff(t, t) = 0
    BY <1>2, DiffIs, WordBounds DEF Times
  <2>2. Rearmed(t) = (t + Interval) % Word
    BY <1>4 DEF Rearmed
  <2> QED
    BY <1>2, <1>3, <1>4, <2>1, <2>2, WordBounds
<1>5. CASE FlushFrom(t) # t
  <2>1. updated /\ FlushFrom(t) = tsFlush
    BY <1>5 DEF FlushFrom
  <2> DEFINE e == Diff(tsFlush, current)
             l == (clock - current) % Word
             d == Diff(t, tsFlush)
  <2>2. e \in 1..Interval /\ l \in 0..MaxLag
    <3>1. clock - current \in Int
      BY <1>1 DEF Times
    <3> QED
      BY <2>1, <3>1, ModTimes DEF ClockInv, Times
  <2>3. /\ tsFlush - current = e \/ tsFlush - current = e + Word
                                 \/ tsFlush - current = e - Word
        /\ t - current = l \/ t - current = l - Word
    <3>1. t = IF clock < Word THEN clock ELSE clock - Word
      BY <1>1, ModCases, WordBounds
    <3>2. /\ clock - current \in Int /\ -2 * Word <= clock - current
          /\ clock - current < 2 * Word
      BY <1>1, WordBounds DEF Times
    <3>3. l = IF clock - current < -Word THEN clock - current + 2 * Word
              ELSE IF clock - current < 0 THEN clock - current + Word
              ELSE IF clock - current < Word THEN clock - current
              ELSE clock - current - Word
      BY <3>2, ModCases
    <3> HIDE DEF l
    <3>4. t - current = l \/ t - current = l - Word
      BY <1>1, <1>2, <3>1, <3>3, WordBounds DEF Times
    <3> QED
      BY <1>1, <3>4, DiffCases
  <2> HIDE DEF e, l
  <2>7. /\ t - tsFlush = l - e \/ t - tsFlush = l - e + Word \/ t - tsFlush = l - e - Word
        /\ tsFlush - t = e - l \/ tsFlush - t = e - l + Word \/ tsFlush - t = e - l - Word
    BY <1>1, <1>2, <2>2, <2>3, WordBounds DEF Times
  <2>4. d = l - e /\ Diff(tsFlush, t) = e - l
    <3>2. /\ l - e \in Int /\ -(Word \div 2) <= l - e /\ l - e < Word \div 2
          /\ e - l \in Int /\ -(Word \div 2) <= e - l /\ e - l < Word \div 2
      BY <2>2, WordBounds
    <3>3. tsFlush \in Laps
      BY <1>1, WordBounds DEF Times, Laps
    <3>4. Diff(t, tsFlush) = l - e
      BY <1>2, <2>7, <3>2, <3>3, DiffIs
    <3>5. Diff(tsFlush, t) = e - l
      BY <1>1, <1>2, <2>7, <3>2, DiffIs
    <3> QED
      BY <3>4, <3>5
  <2>5. CASE d >= 0
    <3> DEFINE next == (tsFlush + Interval) % Word
               n == Interval - (l - e)
    <3>1. next \in Times /\ next = IF tsFlush + Interval < Word THEN tsFlush + Interval
                                   ELSE (tsFlush + Interval) - Word
      BY <1>1, AddWrap, WordBounds
    <3> HIDE DEF next
    <3>8. n \in Int /\ n <= Interval /\ -(Word \div 2) < n /\ n < Word \div 2
      BY <2>2, <2>4, <2>5, WordBounds
    <3>9. t \in Int /\ 0 <= t /\ t < Word /\ tsFlush \in Int /\ next \in Int
          /\ 0 <= next /\ next < Word /\ l \in Int /\ e \in Int
      BY <1>1, <1>2, <2>2, <3>1, WordBounds DEF Times
    <3>7. next - t = n \/ next - t = n + Word \/ next - t = n - Word
      BY <2>7, <3>1, <3>8, <3>9, WordBounds
    <3> HIDE DEF n
    <3>2. /\ next - t = n \/ next - t = n + Word \/ next - t = n - Word
          /\ t - next = -n \/ t - next = -n + Word \/ t - next = -n - Word
          /\ n \in Int /\ n <= Interval /\ -(Word \div 2) <= n /\ n < Word \div 2
      BY <3>7, <3>8, <3>9, WordBounds
    <3>3. next \in Laps
      BY <3>1, WordBounds DEF Times, Laps
    <3>4. Diff(next, t) = n
      BY <1>2, <3>1, <3>2, DiffIs
    <3>5. Diff(t, next) = -n
      <4>1. -n \in Int /\ -(Word \div 2) <= -n /\ -n < Word \div 2
        BY <3>8, WordBounds
      <4> QED
        BY <1>2, <3>2, <3>3, <4>1, DiffIs
    <3>6. Rearmed(t) = IF -n >= 0 THEN (t + Interval) % Word ELSE next
      BY <2>1, <3>5 DEF Rearmed, next
    <3> QED
      BY <1>2, <1>3, <2>1, <2>5, <3>1, <3>2, <3>4, <3>6, WordBounds
  <2>6. CASE ~(d >= 0)
    <3>1. e - l \in 1..Interval
      BY <2>2, <2>4, <2>6, WordBounds
    <3> QED
      BY <1>1, <1>2, <2>1, <2>4, <2>6, <3>1
  <2> QED
    BY <2>5, <2>6
<1> QED
  BY <1>4, <1>5

LEMMA ClockUpdate ==
    ASSUME ClockInv, Update
    PROVE  ClockInv'
<1> DEFINE t == clock % Word
<1>1. /\ t \in Times
      /\ Diff(t, FlushFrom(t)) >= 0 =>
           Rearmed(t) \in Times /\ Diff(Rearmed(t), t) \in 1..Interval
      /\ ~(Diff(t, FlushFrom(t)) >= 0) =>
           FlushFrom(t) \in Times /\ Diff(FlushFrom(t), t) \in 1..Interval
  BY RearmedAhead
<1>2. /\ current' = t /\ updated' = TRUE /\ now' = t /\ pc' = "check"
      /\ UNCHANGED <<clock, rxRto, ts>>
      /\ IF Diff(t, FlushFrom(t)) >= 0
         THEN tsFlush' = Rearmed(t) /\ Flush(t, queued)
         ELSE tsFlush' = FlushFrom(t) /\ UNCHANGED segVars
  BY DEF Update
<1>3. tsFlush' \in Times /\ Diff(tsFlush', t) \in 1..Interval
  BY <1>1, <1>2
<1>4. (clock - t) % Word <= MaxLag
  <2>1. clock \in Int /\ 0 <= clock /\ clock < 2 * Word
    BY WordBounds DEF ClockInv, TypeOK, Laps
  <2>2. t = IF clock < Word THEN clock ELSE clock - Word
    BY <2>1, ModCases, WordBounds
  <2> HIDE DEF t
  <2>3. PICK x \in {0, Word} : x = clock - t
    BY <2>1, <2>2, WordBounds
  <2>4. x % Word = 0
    BY ModCases, WordBounds
  <2> QED
    BY <2>3, <2>4, WordBounds
<1>5. /\ DOMAIN buf' \subseteq Segs \ queued' /\ queued' \subseteq Segs /\ acks' \in BOOLEAN
      /\ \A s \in DOMAIN buf' : SegOK(buf'[s])
  <2>1. CASE Diff(t, FlushFrom(t)) >= 0
    <3>1. Flush(t, queued) /\ queued \cap DOMAIN buf = {} /\ rxRto \in MinRto..MaxRto
      BY <1>2, <2>1 DEF ClockInv, TypeOK
    <3>2. /\ DOMAIN buf' = DOMAIN buf \cup queued /\ queued' = {} /\ acks' = FALSE
          /\ \A s \in DOMAIN buf' : SegOK(buf'[s])
      BY <1>1, <3>1, FlushSegments DEF ClockInv
    <3> QED
      BY <3>2 DEF ClockInv, TypeOK
  <2>2. CASE ~(Diff(t, FlushFrom(t)) >= 0)
    BY <1>2, <2>2 DEF ClockInv, TypeOK, segVars
  <2> QED
    BY <2>1, <2>2
<1> HIDE DEF t
<1>6. now' = current'
  BY <1>2
<1> QED
  BY <1>1, <1>2, <1>3, <1>4, <1>5, <1>6
     DEF ClockInv, TypeOK, CheckInTime, SegOK

\* ikcp_check finds the first of the deadlines.
LEMMA ClockCheck ==
    ASSUME ClockInv, Check
    PROVE  ClockInv'
<1>1. /\ UNCHANGED <<clock, current, updated, tsFlush, rxRto, queued, buf, acks, now>>
      /\ pc' = "sleep" /\ ts' = CheckAt(current)
  BY DEF Check, kcpVars, segVars, ClockInv
<1>2. updated /\ now = current /\ tsFlush \in Times /\ current \in Times
  BY DEF Check, ClockInv, TypeOK
<1> DEFINE ahead == {Diff(d, current) : d \in Deadlines(current)} \cup {Interval}
           least == CHOOSE d \in ahead : \A e \in ahead : d <= e
<1>3. /\ ahead \subseteq Int /\ ahead # {}
      /\ \A d \in ahead : -(Word \div 2) <= d
  <2>1. Deadlines(current) \subseteq Times
    BY <1>2 DEF Deadlines, ClockInv, TypeOK
  <2> QED
    BY <1>2, <2>1, DiffCases, WordBounds
<1>4. /\ Interval \in ahead
      /\ Diff(tsFlush, current) \in ahead \/ Diff(current, current) \in ahead
      /\ \A s \in DOMAIN buf : Diff(buf[s].resendts, current) \in ahead
  BY DEF Deadlines
<1>5. CheckAt(current) = IF least <= 0 THEN current ELSE (current + least) % Word
  BY <1>2 DEF CheckAt
<1> HIDE DEF ahead
<1>6. least \in ahead /\ \A e \in ahead : least <= e
  <2>1. \E d \in ahead : \A e \in ahead : d <= e
    <3>1. -(Word \div 2) \in Int
      BY WordBounds
    <3> QED
      BY <1>3, <3>1, LeastExists
  <2> QED
    BY <2>1
<1> HIDE DEF least
<1>7. least \in Int /\ least <= Interval
  BY <1>3, <1>4, <1>6
<1>8. current \in Laps /\ current % Word = current /\ Diff(current, current) = 0
  <2>1. current \in Int /\ 0 <= current /\ current < Word
    BY <1>2, WordBounds DEF Times
  <2>2. current % Word = current
    BY <2>1, ModCases, WordBounds
  <2>3. current \in Laps
    BY <2>1, WordBounds DEF Laps
  <2>4. Diff(current, current) = 0
    BY <1>2, <2>1, <2>3, DiffIs, WordBounds
  <2> QED
    BY <2>2, <2>3, <2>4
<1>9. /\ ts' \in Times /\ Diff(ts', current) \in 0..Interval
      /\ Diff(ts', current) > 0 => Diff(ts', current) = least
  <2>1. CASE least <= 0
    BY <1>1, <1>2, <1>5, <1>8, <2>1, WordBounds
  <2>2. CASE least > 0
    <3>1. least \in Nat /\ 2 * least < Word
      BY <1>7, <2>2, WordBounds
    <3>2. /\ (current + least) % Word \in Times
          /\ Diff((current + least) % Word, current) = least
      BY <1>2, <1>8, <3>1, DiffAhead
    <3>3. ts' = (current + least) % Word
      BY <1>1, <1>5, <1>7, <2>2
    <3> QED
      BY <1>7, <2>2, <3>1, <3>2, <3>3, WordBounds
  <2> QED
    BY <1>7, <2>1, <2>2
<1>10. ASSUME Diff(ts', current) > 0
       PROVE  /\ Diff(ts', current) <= Diff(tsFlush, current)
              /\ \A s \in DOMAIN buf : Diff(ts', current) <= Diff(buf[s].resendts, current)
  <2>1. Diff(ts', current) = least /\ least > 0
    BY <1>9, <1>10
  <2>2. Diff(tsFlush, current) \in ahead
    BY <1>4, <1>6, <1>7, <1>8, <2>1
  <2> QED
    BY <1>4, <1>6, <2>1, <2>2
<1>11. CheckInTime'
  <2>1. UNCHANGED <<current, tsFlush, buf>>
    BY <1>1
  <2> QED
    BY <1>9, <1>10, <2>1 DEF CheckInTime
<1>12. TypeOK'
  BY <1>1, <1>9 DEF ClockInv, TypeOK
<1> QED
  BY <1>1, <1>2, <1>11, <1>12 DEF ClockInv, SegOK

LEMMA ClockSend ==
    ASSUME ClockInv, NEW s \in Segs, Send(s)
    PROVE  ClockInv'
<1>1. /\ UNCHANGED <<clock, current, updated, tsFlush, rxRto, pc, now, ts>>
      /\ s \notin queued /\ s \notin DOMAIN buf
  BY DEF Send, kcpVars, bgVars
<1>2. CASE ~updated
  <2>1. queued' = queued \cup {s} /\ UNCHANGED <<buf, acks>>
    BY <1>2 DEF Send
  <2> QED
    BY <1>1, <1>2, <2>1 DEF ClockInv, TypeOK, CheckInTime, SegOK
<1>3. CASE updated
  <2>1. /\ Flush(current, queued \cup {s}) /\ (queued \cup {s}) \cap DOMAIN buf = {}
        /\ current \in Times /\ rxRto \in MinRto..MaxRto
        /\ \A r \in DOMAIN buf : SegOK(buf[r])
    BY <1>1, <1>3 DEF Send, ClockInv, TypeOK
  <2>2. /\ DOMAIN buf' = DOMAIN buf \cup queued \cup {s} /\ queued' = {} /\ acks' = FALSE
        /\ \A r \in DOMAIN buf' :
             /\ SegOK(buf'[r])
             /\ \/ r \in DOMAIN buf /\ buf'[r] = buf[r]
                \/ buf'[r].resendts = (current + buf'[r].rto) % Word
    <3> DEFINE new == queued \cup {s}
    <3>1. Flush(current, new) /\ new \cap DOMAIN buf = {}
      BY <2>1
    <3>2. DOMAIN buf \cup queued \cup {s} = DOMAIN buf \cup new
      OBVIOUS
    <3> HIDE DEF new
    <3> QED
      BY <2>1, <3>1, <3>2, FlushSegments
  <2>3. ASSUME pc = "sleep", Diff(ts, current) > 0, NEW r \in DOMAIN buf', 2 * buf'[r].rto < Word
        PROVE  Diff(ts, current) <= Diff(buf'[r].resendts, current)
    <3>1. CASE r \in DOMAIN buf /\ buf'[r] = buf[r]
      BY <2>3, <3>1 DEF ClockInv, CheckInTime
    <3>2. CASE buf'[r].resendts = (current + buf'[r].rto) % Word
      <4>1. buf'[r].rto \in Nat /\ Interval <= buf'[r].rto
        BY <2>2, <2>3, WordBounds DEF SegOK, RtoOK, Times
      <4>2. Diff(ts, current) \in 0..Interval
        BY <2>3 DEF ClockInv, CheckInTime
      <4>3. current \in Laps /\ current % Word = current
        <5>1. current \in Int /\ 0 <= current /\ current < Word
          BY <2>1, WordBounds DEF Times
        <5> QED
          BY <5>1, ModCases, WordBounds DEF Laps
      <4>4. Diff(buf'[r].resendts, current) = buf'[r].rto
        BY <2>1, <2>3, <3>2, <4>1, <4>3, DiffAhead
      <4> QED
        BY <4>1, <4>2, <4>4, WordBounds
    <3> QED
      BY <2>2, <3>1, <3>2
  <2>4. DOMAIN buf' \subseteq Segs
    BY <2>2 DEF ClockInv, TypeOK
  <2> QED
    BY <1>1, <2>2, <2>3, <2>4 DEF ClockInv, TypeOK, CheckInTime, SegOK
<1> QED
  BY <1>2, <1>3

LEMMA ClockAdvance ==
    ASSUME ClockInv, Advance
    PROVE  ClockInv'
<1>1. UNCHANGED <<current, updated, tsFlush, rxRto, queued, buf, acks, pc, now, ts>>
  BY DEF Advance, kcpVars, segVars, bgVars
<1>2. clock \in Int /\ 0 <= clock /\ clock < 2 * Word
  BY WordBounds DEF ClockInv, TypeOK, Laps
<1>3. clock' = IF clock + 1 < 2 * Word THEN clock + 1 ELSE Word
  BY <1>2, WordBounds DEF Advance, Laps
<1>4. clock' \in Laps
  BY <1>2, <1>3, WordBounds DEF Laps
<1>5. updated => (clock' - current) % Word <= MaxLag
  <2> SUFFICES ASSUME updated PROVE (clock' - current) % Word <= MaxLag
    OBVIOUS
  <2>1. (clock - current) % Word < MaxLag /\ current \in Int /\ 0 <= current /\ current < Word
    BY WordBounds DEF Advance, ClockInv, TypeOK, Times
  <2>2. PICK x \in Int : x = clock - current
    BY <1>2, <2>1
  <2>3. PICK y \in Int : y = clock' - current
    BY <1>2, <1>3, <2>1, WordBounds
  <2>4. -Word < x /\ x < 2 * Word /\ -Word < y /\ y < 2 * Word /\ (y = x + 1 \/ y = x + 1 - Word)
    BY <1>2, <1>3, <2>1, <2>2, <2>3, WordBounds
  <2>5. x % Word = IF x < 0 THEN x + Word ELSE IF x < Word THEN x ELSE x - Word
    BY <2>4, ModCases, WordBounds
  <2>6. y % Word = IF y < 0 THEN y + Word ELSE IF y < Word THEN y ELSE y - Word
    BY <2>4, ModCases, WordBounds
  <2>7. x % Word < MaxLag
    BY <2>1, <2>2
  <2>8. y % Word <= MaxLag
    BY <2>4, <2>5, <2>6, <2>7, WordBounds
  <2> QED
    BY <2>3, <2>8
<1> QED
  BY <1>1, <1>4, <1>5 DEF ClockInv, TypeOK, CheckInTime, SegOK

LEMMA ClockStep == ClockInv /\ [Next]_vars => ClockInv'
<1> SUFFICES ASSUME ClockInv, [Next]_vars PROVE ClockInv'
  OBVIOUS
<1>1. CASE Wake
  <2>1. 0 \in Times
    BY WordBounds DEF Times
  <2> QED
    BY <1>1, <2>1 DEF Wake, ClockInv, TypeOK, CheckInTime, kcpVars, segVars, SegOK
<1>2. CASE DataInput
  BY <1>2 DEF DataInput, ClockInv, TypeOK, CheckInTime, kcpVars, bgVars, SegOK
<1>3. ASSUME NEW s \in Segs, AckInput(s)
      PROVE  ClockInv'
  <2>1. /\ DOMAIN buf' = DOMAIN buf \ {s}
        /\ \A r \in DOMAIN buf' : r \in DOMAIN buf /\ buf'[r] = buf[r]
    BY <1>3 DEF AckInput
  <2> QED
    BY <1>3, <2>1 DEF AckInput, ClockInv, TypeOK, CheckInTime, bgVars, SegOK
<1>4. CASE UNCHANGED vars
  BY <1>4 DEF vars, ClockInv, TypeOK, CheckInTime, kcpVars, segVars, bgVars, SegOK
<1> QED
  BY <1>1, <1>2, <1>3, <1>4, ClockUpdate, ClockCheck, ClockSend, ClockAdvance DEF Next

LEMMA ClockCorrect == Spec => []ClockInv
BY ClockInit, ClockStep, PTL DEF Spec

\* Whatever the width of a word, through any number of laps of clock() and with
\* updates that come late or see the clock jump, ikcp_update leaves the next
\* flush set for a time to come, at most one interval away.
THEOREM FlushTimerArmed == Spec => []FlushArmed
<1>1. ClockInv => FlushArmed
  BY DEF ClockInv, FlushArmed
<1> QED
  BY <1>1, ClockCorrect, PTL

\* The time ikcp_check returns is past neither the next flush nor the time a
\* segment is to be resent, and stays so whatever Kcp::Send and ikcp_input do
\* until Background calls ikcp_update again.
THEOREM CheckNeverLate == Spec => []CheckInTime
<1>1. ClockInv => CheckInTime
  BY DEF ClockInv
<1> QED
  BY <1>1, ClockCorrect, PTL

===============================================================================
