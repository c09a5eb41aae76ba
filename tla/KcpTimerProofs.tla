---------------------------- MODULE KcpTimerProofs ----------------------------
(***************************************************************************)
(* KcpTimer for every size of the clock, every start, every step of        *)
(* Update and every setting of the clock: what kcp does it does in time,   *)
(* and what it measures is true.                                           *)
(*                                                                         *)
(* The clock is a remainder.  The lemmas about Diff turn what the code     *)
(* computes from clock values into statements about true times; the        *)
(* invariant then speaks of true times only.  A value taken before the     *)
(* clock was set says nothing any more, so each conjunct about one is      *)
(* guarded by the history variable jumps.                                  *)
(***************************************************************************)
EXTENDS KcpTimer, TLAPS

-----------------------------------------------------------------------------
(* Remainders *)

\* a % n is in range, and a less a multiple of n.
LEMMA Remainder ==
  ASSUME NEW n \in Nat \ {0}, NEW a \in Int
  PROVE  /\ a % n \in 0 .. n - 1
         /\ \E k \in Int : a = k * n + (a % n)
<1>1. a % n \in 0 .. n - 1
  OBVIOUS
<1>2. a % n = a - (a \div n) * n
  OBVIOUS
<1>3. PICK k \in Int : k = a \div n
  OBVIOUS
<1>4. PICK m \in Int : m = k * n
  OBVIOUS
<1>5. a = m + (a % n)
  BY <1>2, <1>3, <1>4
<1> QED  BY <1>1, <1>4, <1>5

\* A number has only one such form.
LEMMA OneMultiple ==
  ASSUME NEW n \in Nat \ {0}, NEW k \in Int, NEW l \in Int,
         NEW r \in 0 .. n - 1, NEW s \in 0 .. n - 1,
         k * n + r = l * n + s
  PROVE  r = s
<1>1. (k - l) * n = s - r
  OBVIOUS
<1>2. PICK d \in Int : d = k - l
  OBVIOUS
<1>3. d * n = s - r
  BY <1>1, <1>2
<1>4. d >= 1 => d * n >= n
  OBVIOUS
<1>5. d <= -1 => d * n <= -n
  OBVIOUS
<1> QED  BY <1>3, <1>4, <1>5

\* The remainder of a is the r it has the form k * n + r with.
LEMMA RemainderIs ==
  ASSUME NEW n \in Nat \ {0}, NEW a \in Int, NEW k \in Int,
         NEW r \in 0 .. n - 1, a = k * n + r
  PROVE  a % n = r
<1>1. PICK l \in Int : a = l * n + (a % n)
  BY Remainder
<1>2. a % n \in 0 .. n - 1
  BY Remainder
<1> QED  BY <1>1, <1>2, OneMultiple

\* Adding a multiple of n does not change it.
LEMMA SameRemainder ==
  ASSUME NEW n \in Nat \ {0}, NEW a \in Int, NEW k \in Int
  PROVE  (a + k * n) % n = a % n
<1>1. PICK i \in Int : a = i * n + (a % n)
  BY Remainder
<1>2. a % n \in 0 .. n - 1
  BY Remainder
<1>3. (i + k) * n = i * n + k * n
  OBVIOUS
<1>4. PICK x \in Int, y \in Int, z \in Int : x = i * n /\ y = k * n /\ z = (i + k) * n
  OBVIOUS
<1>5. PICK r \in 0 .. n - 1 : r = a % n
  BY <1>2
<1>6. a + y = z + r
  BY <1>1, <1>3, <1>4, <1>5
<1>7. a + k * n \in Int /\ i + k \in Int /\ a + k * n = (i + k) * n + r
  BY <1>4, <1>6
<1> QED  BY <1>5, <1>7, RemainderIs

\* A sum or a difference may be cut before or after.
LEMMA RemainderOfSum ==
  ASSUME NEW n \in Nat \ {0}, NEW a \in Int, NEW b \in Int
  PROVE  ((a % n) + b) % n = (a + b) % n
<1>1. PICK k \in Int : a = k * n + (a % n)
  BY Remainder
<1>2. PICK r \in Int : r = a % n
  BY Remainder
<1>3. PICK m \in Int : m = k * n
  OBVIOUS
<1>4. a + b = (r + b) + k * n
  <2>1. a = m + r
    BY <1>1, <1>2, <1>3
  <2> QED  BY <2>1, <1>3
<1>5. r + b \in Int
  OBVIOUS
<1>6. ((r + b) + k * n) % n = (r + b) % n
  BY <1>5, SameRemainder, Zenon
<1> QED  BY <1>2, <1>4, <1>6

LEMMA RemainderOfDifference ==
  ASSUME NEW n \in Nat \ {0}, NEW a \in Int, NEW b \in Int
  PROVE  ((a % n) - (b % n)) % n = (a - b) % n
<1>1. PICK k \in Int : b = k * n + (b % n)
  BY Remainder
<1>2. PICK r \in Int : r = a % n
  BY Remainder
<1>3. PICK s \in Int : s = b % n
  BY Remainder
<1>4. PICK m \in Int : m = k * n
  OBVIOUS
<1>5. a - s = (a - b) + k * n
  <2>1. b = m + s
    BY <1>1, <1>3, <1>4
  <2> QED  BY <2>1, <1>4
<1>6. a - b \in Int /\ -s \in Int
  OBVIOUS
<1>7. ((a - b) + k * n) % n = (a - b) % n
  BY <1>6, SameRemainder, Zenon
<1>8. ((a % n) + (-s)) % n = (a + (-s)) % n
  BY <1>6, RemainderOfSum, Zenon
<1>9. a + (-s) = a - s /\ (a % n) + (-s) = (a % n) - s
  BY <1>2
<1> QED  BY <1>3, <1>5, <1>7, <1>8, <1>9

\* Between -n and n the remainder needs no division.
LEMMA SmallRemainder ==
  ASSUME NEW n \in Nat \ {0}, NEW a \in Int, -n <= a, a < n
  PROVE  a % n = IF a >= 0 THEN a ELSE a + n
<1>1. CASE a >= 0
  BY <1>1, RemainderIs, a \in 0 .. n - 1, a = 0 * n + a
<1>2. CASE a < 0
  <2>1. a + n \in 0 .. n - 1 /\ a = (-1) * n + (a + n)
    BY <1>2
  <2> QED  BY <1>2, <2>1, RemainderIs
<1> QED  BY <1>1, <1>2

-----------------------------------------------------------------------------
(* The clock *)

\* What TimerAssumption says, in the form the provers need it.
LEMMA Sizes ==
  /\ ClockSize \in Nat \ {0} /\ ClockSize \div 2 \in Nat
  /\ 2 * (ClockSize \div 2) = ClockSize
  /\ Interval \in Nat /\ Interval >= 1 /\ Slack \in Nat /\ Slack >= 1
  /\ MaxNow \in Nat /\ MaxRto \in Nat /\ MaxJumps \in Nat
  /\ Interval + Slack < ClockSize \div 2
  /\ \A ms \in Steps : ms \in Nat /\ ms + Interval + Slack < ClockSize \div 2
  /\ MinRto \in Nat /\ MinRto >= 1 /\ FirstRto \in Nat
  /\ MinRto <= FirstRto /\ FirstRto <= MaxRto
BY TimerAssumption

\* What the clock shows is a clock value.
LEMMA ClockType ==
  ASSUME zero \in Clocks, NEW t \in Int
  PROVE  Clock(t) \in Clocks
BY Sizes, Remainder DEF Clock, Clocks

\* ms after the clock shows t it shows t + ms.
LEMMA LaterIs ==
  ASSUME zero \in Clocks, NEW t \in Int, NEW ms \in Int
  PROVE  Later(Clock(t), ms) = Clock(t + ms)
<1>1. zero + t \in Int /\ zero \in Int
  BY Sizes DEF Clocks
<1>2. (((zero + t) % ClockSize) + ms) % ClockSize = ((zero + t) + ms) % ClockSize
  BY <1>1, Sizes, RemainderOfSum, Zenon
<1>3. (zero + t) + ms = zero + (t + ms)
  BY <1>1
<1> QED  BY <1>2, <1>3 DEF Later, Clock

\* The difference of two clock values is the number of the least size that is
\* the difference of their times, up to a multiple of ClockSize.
LEMMA DiffIs ==
  ASSUME NEW c \in Int, NEW d \in Int, NEW x \in Int,
         (c - d) % ClockSize = x % ClockSize,
         -(ClockSize \div 2) <= x, x < ClockSize \div 2
  PROVE  Diff(c, d) = x
<1>1. -ClockSize <= x /\ x < ClockSize
  BY Sizes
<1>2. x % ClockSize = IF x >= 0 THEN x ELSE x + ClockSize
  BY <1>1, Sizes, SmallRemainder
<1> QED  BY <1>2, Sizes DEF Diff, Signed

\* The difference of two clock values is that of their times, cut to the width.
LEMMA ClockDifference ==
  ASSUME zero \in Clocks, NEW t \in Int, NEW u \in Int
  PROVE  (Clock(t) - Clock(u)) % ClockSize = (t - u) % ClockSize
<1>1. zero + t \in Int /\ zero + u \in Int /\ zero \in Int
  BY Sizes DEF Clocks
<1>2. (((zero + t) % ClockSize) - ((zero + u) % ClockSize)) % ClockSize
        = ((zero + t) - (zero + u)) % ClockSize
  BY <1>1, Sizes, RemainderOfDifference, Zenon
<1>3. (zero + t) - (zero + u) = t - u
  BY <1>1
<1> QED  BY <1>2, <1>3 DEF Clock

\* _itimediff of two times less than half a ClockSize apart is their distance,
\* on whichever side of the wrap they are.
LEMMA DiffOfClocks ==
  ASSUME zero \in Clocks, NEW t \in Int, NEW u \in Int,
         -(ClockSize \div 2) <= t - u, t - u < ClockSize \div 2
  PROVE  Diff(Clock(t), Clock(u)) = t - u
<1>1. Clock(t) \in Int /\ Clock(u) \in Int
  BY ClockType, Sizes DEF Clocks
<1>2. (Clock(t) - Clock(u)) % ClockSize = (t - u) % ClockSize
  BY ClockDifference
<1>3. t - u \in Int
  OBVIOUS
<1> QED  BY <1>1, <1>2, <1>3, DiffIs

\* _itimediff is a signed number of the width of the clock.
LEMMA DiffRange ==
  ASSUME NEW c \in Int, NEW d \in Int
  PROVE  /\ Diff(c, d) \in Int
         /\ -(ClockSize \div 2) <= Diff(c, d) /\ Diff(c, d) < ClockSize \div 2
<1>1. PICK x \in 0 .. ClockSize - 1 : x = (c - d) % ClockSize
  BY Sizes, Remainder, c - d \in Int
<1> QED  BY <1>1, Sizes DEF Diff, Signed

\* Any clock value is that of a time as far from t as it differs from Clock(t).
LEMMA DiffMoves ==
  ASSUME zero \in Clocks, NEW t \in Int, NEW c \in Clocks
  PROVE  c = Clock(t - Diff(Clock(t), c))
<1>1. zero \in Int /\ zero + t \in Int /\ c \in 0 .. ClockSize - 1
  BY Sizes DEF Clocks
<1>2. Clock(t) \in Int
  BY ClockType, Sizes DEF Clocks
<1>3. PICK k \in Int : zero + t = k * ClockSize + Clock(t)
  BY <1>1, Sizes, Remainder DEF Clock
<1>4. PICK l \in Int : Clock(t) - c = l * ClockSize + ((Clock(t) - c) % ClockSize)
  BY <1>1, <1>2, Sizes, Remainder, Clock(t) - c \in Int
<1>5. PICK x \in 0 .. ClockSize - 1 : x = (Clock(t) - c) % ClockSize
  BY <1>1, <1>2, Sizes, Remainder, Clock(t) - c \in Int
<1>6. PICK m \in Int : Clock(t) - c = m * ClockSize + Diff(Clock(t), c)
  <2>1. CASE x < ClockSize \div 2
    BY <2>1, <1>4, <1>5 DEF Diff, Signed
  <2>2. CASE x >= ClockSize \div 2
    <3>1. (l + 1) * ClockSize = l * ClockSize + ClockSize
      BY Sizes
    <3>2. PICK p \in Int : p = l * ClockSize
      BY Sizes
    <3>3. Clock(t) - c = (l + 1) * ClockSize + Diff(Clock(t), c)
      BY <2>2, <1>2, <1>4, <1>5, <3>1, <3>2, Sizes DEF Diff, Signed
    <3> QED  BY <3>3
  <2> QED  BY <2>1, <2>2, Sizes
<1> DEFINE d == Diff(Clock(t), c)
<1>7. d \in Int
  BY <1>1, <1>2, DiffRange
<1> HIDE DEF d
<1>8. (k + m) * ClockSize = k * ClockSize + m * ClockSize
  BY Sizes
<1>9. PICK p \in Int, q \in Int : p = k * ClockSize /\ q = m * ClockSize
  BY Sizes
<1>10. zero + (t - d) = (k + m) * ClockSize + c
  <2>1. Clock(t) - c = q + d
    BY <1>6, <1>9 DEF d
  <2>2. zero + t = p + Clock(t)
    BY <1>3, <1>9
  <2>3. (k + m) * ClockSize = p + q
    BY <1>8, <1>9
  <2>4. PICK e \in Int : e = Clock(t)
    BY <1>2
  <2>5. zero + (t - d) = p + q + c
    BY <1>1, <1>7, <2>1, <2>2, <2>4
  <2> QED  BY <2>3, <2>5
<1>11. zero + (t - d) \in Int /\ k + m \in Int
  BY <1>1, <1>7
<1>12. (zero + (t - d)) % ClockSize = c
  BY <1>1, <1>10, <1>11, Sizes, RemainderIs
<1> QED  BY <1>12 DEF d, Clock

-----------------------------------------------------------------------------
(* When kcp flushes *)

\* A flush at the time t sets ts_flush to a time within the next interval,
\* whatever ts_flush was.
LEMMA FlushMoves ==
  ASSUME zero \in Clocks, NEW t \in Int, NEW k, k.ts_flush \in Clocks,
         Slap(k, Clock(t)) >= 0
  PROVE  \E F \in Int : /\ NextFlush(FlushDue(k, Clock(t)), Clock(t)) = Clock(F)
                        /\ t < F /\ F <= t + Interval
<1> DEFINE slap == Diff(Clock(t), k.ts_flush)
           late == IF slap >= Slack \/ slap < -Slack THEN 0 ELSE slap
           next == t - late + Interval
<1>1. Clock(t) \in Int /\ k.ts_flush \in Int
  BY ClockType, Sizes DEF Clocks
<1>2. slap \in Int
  BY <1>1, DiffRange
<1>3. k.ts_flush = Clock(t - slap)
  BY DiffMoves
<1> HIDE DEF slap
<1>4. late \in Int /\ 0 <= late /\ late <= Slack
  BY <1>2, Sizes DEF Slap, slap
<1>5. FlushDue(k, Clock(t)) = Clock(t - late)
  <2>1. CASE slap >= Slack \/ slap < -Slack
    BY <2>1, t - 0 = t DEF FlushDue, slap
  <2>2. CASE ~(slap >= Slack \/ slap < -Slack)
    BY <2>2, <1>3 DEF FlushDue, slap
  <2> QED  BY <2>1, <2>2
<1> HIDE DEF late
<1>6. Later(Clock(t - late), Interval) = Clock(next)
  BY <1>4, Sizes, LaterIs, t - late \in Int
<1>7. Later(Clock(t), Interval) = Clock(t + Interval)
  BY Sizes, LaterIs
<1>8. next \in Int /\ t - next = late - Interval
  BY <1>4, Sizes
<1>9. Diff(Clock(t), Clock(next)) = t - next
  BY <1>4, <1>8, Sizes, DiffOfClocks
<1>10. CASE t - next >= 0
  <2>1. NextFlush(FlushDue(k, Clock(t)), Clock(t)) = Clock(t + Interval)
    BY <1>5, <1>6, <1>7, <1>9, <1>10 DEF NextFlush
  <2>2. t + Interval \in Int /\ t < t + Interval /\ t + Interval <= t + Interval
    BY Sizes
  <2> QED  BY <2>1, <2>2
<1>11. CASE t - next < 0
  <2>1. NextFlush(FlushDue(k, Clock(t)), Clock(t)) = Clock(next)
    BY <1>5, <1>6, <1>7, <1>8, <1>9, <1>11 DEF NextFlush
  <2>2. next \in Int /\ t < next /\ next <= t + Interval
    BY <1>4, <1>8, <1>11, Sizes
  <2> QED  BY <2>1, <2>2
<1> QED  BY <1>8, <1>10, <1>11

\* If kcp does not flush at t, ts_flush is a time yet to come, within Slack.
LEMMA WaitMoves ==
  ASSUME zero \in Clocks, NEW t \in Int, NEW k, k.ts_flush \in Clocks,
         Slap(k, Clock(t)) < 0
  PROVE  \E F \in Int : k.ts_flush = Clock(F) /\ t < F /\ F <= t + Slack
<1> DEFINE slap == Diff(Clock(t), k.ts_flush)
<1>1. Clock(t) \in Int /\ k.ts_flush \in Int
  BY ClockType, Sizes DEF Clocks
<1>2. slap \in Int
  BY <1>1, DiffRange
<1>3. k.ts_flush = Clock(t - slap)
  BY DiffMoves
<1>4. slap < 0 /\ slap >= -Slack
  BY <1>2, Sizes DEF Slap
<1> HIDE DEF slap
<1>5. t - slap \in Int /\ t < t - slap /\ t - slap <= t + Slack
  BY <1>2, <1>4, Sizes
<1> QED  BY <1>3, <1>5

\* If ts_flush is a known time near t, kcp waits only when it is yet to come.
LEMMA WaitKnown ==
  ASSUME zero \in Clocks, NEW t \in Int, NEW F \in Int, NEW k, k.ts_flush = Clock(F),
         -(ClockSize \div 2) <= t - F, t - F < ClockSize \div 2,
         Slap(k, Clock(t)) < 0
  PROVE  t < F
<1>1. Diff(Clock(t), k.ts_flush) = t - F
  BY DiffOfClocks
<1>2. t - F \in Int
  OBVIOUS
<1> QED  BY <1>1, <1>2, Sizes DEF Slap

\* A segment that is not due at t was tried less than its rto ago, if it was
\* tried less than half the clock ago.
LEMMA NotDue ==
  ASSUME zero \in Clocks, NEW t \in Nat, NEW s, NEW u \in Nat, s.rto \in Nat,
         u <= t, t - u < ClockSize \div 2,
         s.resendts = Clock(u + s.rto), ~Due(s, Clock(t))
  PROVE  t - u < s.rto
<1>1. SUFFICES ASSUME s.rto <= ClockSize \div 2 PROVE t - u < s.rto
  BY Sizes
<1>2. /\ t - (u + s.rto) \in Int /\ u + s.rto \in Int /\ t \in Int
      /\ -(ClockSize \div 2) <= t - (u + s.rto) /\ t - (u + s.rto) < ClockSize \div 2
  BY <1>1, Sizes
<1>3. Diff(Clock(t), s.resendts) = t - (u + s.rto)
  BY <1>2, DiffOfClocks
<1>4. t - (u + s.rto) < 0
  BY <1>2, <1>3 DEF Due
<1> QED  BY <1>4, Sizes

-----------------------------------------------------------------------------
(* The inductive invariant *)

\* Since the last flush ts_flush has been a time yet to come: at most Interval
\* after that flush; or, if the clock was set once since, at most Slack after
\* the first Update that followed.
FlushInv ==
  kcp.updated =>
    /\ Steps # {}
    /\ flushed \in Moment /\ flushed.at <= now /\ flushed.jumps <= jumps
    /\ flushed.jumps = jumps =>
         \E F \in Int : /\ kcp.ts_flush = Clock(F)
                        /\ now < F /\ F <= flushed.at + Interval
    /\ flushed.jumps + 1 = jumps =>
         \/ now - flushed.at < Interval
         \/ \E ms \in Steps, F \in Int :
              /\ kcp.ts_flush = Clock(F)
              /\ now < F /\ F <= now + Slack
              /\ F < flushed.at + Interval + Slack + ms

\* resendts is rto after the last try.  If the last flush came as far as the
\* segment, then that flush tried it, or found that a time of rto had not passed;
\* and a segment never sent, it tried.
SegInv ==
  seg # NoSegment =>
    /\ kcp.updated /\ seg.rto >= 1
    /\ seg.tried.at <= flushed.at /\ seg.tried.jumps <= flushed.jumps
    /\ seg.tried.jumps = jumps => seg.resendts = Clock(seg.tried.at + seg.rto)
    /\ ~seg.missed /\ seg.xmit = 0 => seg.tried = flushed
    /\ ~seg.missed /\ seg.tried.jumps = jumps
         => \/ flushed.at - seg.tried.at < seg.rto
            \/ flushed.at - seg.tried.at >= ClockSize \div 2

\* An acknowledgement carries the clock at which its segment was sent, and
\* current is the clock of the last Update.
AckInv ==
  \A a \in acks :
    /\ kcp.updated /\ a.sent.at <= now /\ a.sent.jumps <= jumps
    /\ a.sent.jumps = jumps => a.ts = Clock(a.sent.at) /\ kcp.current = Clock(now)

\* m_last_active_time is the clock at which the last packet was read.
HeardInv ==
  heard # Never =>
    /\ heard.at <= now /\ heard.jumps <= jumps
    /\ heard.jumps = jumps => m_last_active_time = Clock(heard.at)

TimerInv == TypeOK /\ FlushInv /\ SegInv /\ AckInv /\ HeardInv /\ RttHonest

LEMMA NeverIsNoMoment == Never \notin Moment
BY DEF Never, Moment

LEMMA NoSegmentIsNone == NoSegment \notin Segment
<1>1. ASSUME NoSegment \in Segment PROVE FALSE
  <2>1. NoSegment.xmit \in 0 .. 1
    BY <1>1 DEF Segment
  <2> QED  BY <2>1 DEF NoSegment
<1> QED  BY <1>1

LEMMA TimerInit == Init => TimerInv
<1> SUFFICES ASSUME Init PROVE TimerInv
  OBVIOUS
<1>1. TypeOK
  <2>1. now \in 0 .. MaxNow /\ zero \in Clocks /\ jumps \in 0 .. MaxJumps
    BY Sizes, TimerAssumption DEF Init, Clocks
  <2>2. kcp \in [updated : BOOLEAN, current : Clocks, ts_flush : Clocks]
    BY Sizes DEF Init, Clocks
  <2>3. rx \in [srtt : Nat, rttval : Nat, rto : MinRto .. MaxRto]
    BY Sizes DEF Init
  <2>4. m_last_active_time \in Clocks
    BY Sizes DEF Init, Clocks
  <2>5. sample \in [told : Nat, true : Nat, gap : Nat]
    BY DEF Init, NoSample
  <2> QED  BY <2>1, <2>2, <2>3, <2>4, <2>5 DEF TypeOK, Init
<1>2. ~kcp.updated /\ seg = NoSegment /\ acks = {} /\ heard = Never
  BY DEF Init
<1>3. RttHonest
  BY DEF Init, RttHonest, NoSample
<1> QED  BY <1>1, <1>2, <1>3 DEF TimerInv, FlushInv, SegInv, AckInv, HeardInv

\* Setting the clock makes what was measured before it void.
LEMMA SetClockStep ==
  ASSUME TimerInv, NEW ms \in Jumps, SetClock(ms)
  PROVE  TimerInv'
<1> USE DEF TimerInv
<1>1. /\ now' = now /\ kcp' = kcp /\ rx' = rx /\ seg' = seg /\ acks' = acks
      /\ m_last_active_time' = m_last_active_time /\ heard' = heard
      /\ flushed' = flushed /\ sample' = sample /\ jumps' = jumps + 1
      /\ jumps < MaxJumps
  BY DEF SetClock
<1>2. jumps \in Nat /\ jumps' \in 0 .. MaxJumps
  BY <1>1, Sizes DEF TypeOK
<1>3. zero' \in Clocks
  <2>1. zero + ms \in Int
    BY TimerAssumption, Sizes DEF TypeOK, Clocks
  <2> QED  BY <2>1, Sizes, Remainder DEF SetClock, Clocks
<1>4. TypeOK'
  BY <1>1, <1>2, <1>3 DEF TypeOK
<1>5. FlushInv'
  <2>1. SUFFICES ASSUME kcp.updated PROVE FlushInv'
    BY <1>1 DEF FlushInv
  <2>2. /\ Steps # {} /\ flushed \in Moment /\ flushed.at <= now
        /\ flushed.jumps <= jumps /\ flushed.at \in Int /\ flushed.jumps \in Int
        /\ now \in Int
    BY <2>1, Sizes DEF FlushInv, TypeOK, Moment
  <2>3. flushed.jumps <= jumps' /\ flushed.jumps # jumps'
    BY <1>1, <1>2, <2>2
  <2>4. ASSUME flushed.jumps + 1 = jumps' PROVE now - flushed.at < Interval
    <3>1. flushed.jumps = jumps
      BY <1>1, <1>2, <2>2, <2>4
    <3>2. PICK F \in Int : now < F /\ F <= flushed.at + Interval
      BY <2>1, <3>1 DEF FlushInv
    <3> QED  BY <2>2, <3>2, Sizes
  <2> QED  BY <1>1, <2>2, <2>3, <2>4 DEF FlushInv
<1>6. SegInv'
  <2>1. SUFFICES ASSUME seg # NoSegment PROVE SegInv'
    BY <1>1 DEF SegInv
  <2>2. /\ kcp.updated /\ seg.rto >= 1
        /\ seg.tried.at <= flushed.at /\ seg.tried.jumps <= flushed.jumps
        /\ ~seg.missed /\ seg.xmit = 0 => seg.tried = flushed
    BY <2>1 DEF SegInv
  <2>3. flushed.jumps <= jumps /\ flushed.jumps \in Int /\ seg.tried.jumps \in Int
    BY <2>1, <2>2 DEF FlushInv, TypeOK, Segment, Moment, Never
  <2>4. seg.tried.jumps # jumps'
    BY <1>1, <1>2, <2>2, <2>3
  <2> QED  BY <1>1, <2>2, <2>4 DEF SegInv
<1>7. AckInv'
  <2>1. SUFFICES ASSUME NEW a \in acks
                 PROVE  /\ kcp.updated /\ a.sent.at <= now /\ a.sent.jumps <= jumps'
                        /\ a.sent.jumps # jumps'
    BY <1>1 DEF AckInv
  <2>2. kcp.updated /\ a.sent.at <= now /\ a.sent.jumps <= jumps
    BY DEF AckInv
  <2>3. a.sent.jumps \in Int
    BY DEF TypeOK, Ack, Moment
  <2> QED  BY <1>1, <1>2, <2>2, <2>3
<1>8. HeardInv'
  <2>1. SUFFICES ASSUME heard # Never
                 PROVE  /\ heard.at <= now /\ heard.jumps <= jumps'
                        /\ heard.jumps # jumps'
    BY <1>1 DEF HeardInv
  <2>2. heard.at <= now /\ heard.jumps <= jumps /\ heard.jumps \in Int
    BY <2>1 DEF HeardInv, TypeOK, Moment
  <2> QED  BY <1>1, <1>2, <2>2
<1>9. RttHonest'
  BY <1>1 DEF RttHonest
<1> QED  BY <1>4, <1>5, <1>6, <1>7, <1>8, <1>9

\* What both kinds of Update do to the time of the last packet.
LEMMA HeardStep ==
  ASSUME TypeOK, HeardInv, NEW ms \in Nat, NEW reads \in BOOLEAN,
         now' = now + ms, zero' = zero, jumps' = jumps, now + ms <= MaxNow,
         IF reads
         THEN /\ m_last_active_time' = Clock(now + ms)
              /\ heard' = [at |-> now + ms, jumps |-> jumps]
         ELSE m_last_active_time' = m_last_active_time /\ heard' = heard
  PROVE  /\ HeardInv' /\ m_last_active_time' \in Clocks
         /\ heard' = Never \/ heard' \in Moment
<1> DEFINE moment == [at |-> now + ms, jumps |-> jumps]
<1>1. now \in Nat /\ now + ms \in 0 .. MaxNow /\ jumps \in 0 .. MaxJumps /\ zero \in Clocks
  BY Sizes DEF TypeOK
<1>2. \A u \in Int : Clock(u)' = Clock(u)
  BY DEF Clock
<1>3. CASE reads
  <2>1. moment \in Moment
    BY <1>1 DEF Moment
  <2>2. Clock(now + ms) \in Clocks
    BY <1>1, ClockType
  <2>3. heard' = moment /\ heard'.at = now' /\ heard'.jumps = jumps'
    BY <1>3
  <2>4. (m_last_active_time = Clock(heard.at))'
    BY <1>3, <2>3 DEF Clock
  <2>5. now' <= now' /\ jumps' <= jumps'
    BY <1>1
  <2> QED  BY <1>3, <2>1, <2>2, <2>3, <2>4, <2>5 DEF HeardInv
<1>4. CASE ~reads
  <2>1. heard # Never =>
          /\ heard.at <= now /\ heard.jumps <= jumps /\ heard.at \in Int
          /\ heard.jumps = jumps => m_last_active_time = Clock(heard.at)
    BY DEF HeardInv, TypeOK, Moment
  <2>2. heard # Never => heard.at <= now'
    BY <1>1, <2>1
  <2> QED  BY <1>2, <1>4, <2>1, <2>2 DEF HeardInv, TypeOK
<1> QED  BY <1>3, <1>4

\* Before kcp is updated there is nothing to flush and nothing in flight.
LEMMA UnreadyStep ==
  ASSUME TimerInv, NEW ms \in Steps, NEW other \in BOOLEAN, UpdateUnready(ms, other)
  PROVE  TimerInv'
<1> USE DEF TimerInv
<1>1. /\ ~kcp.updated /\ now' = now + ms /\ now + ms <= MaxNow
      /\ zero' = zero /\ jumps' = jumps /\ kcp' = kcp /\ rx' = rx /\ seg' = seg
      /\ acks' = acks /\ flushed' = flushed /\ sample' = sample
  BY DEF UpdateUnready
<1>2. ms \in Nat /\ now + ms \in 0 .. MaxNow
  BY <1>1, Sizes, TimerAssumption DEF TypeOK
<1>3. /\ HeardInv' /\ m_last_active_time' \in Clocks
      /\ heard' = Never \/ heard' \in Moment
  <2>1. IF other
        THEN /\ m_last_active_time' = Clock(now + ms)
             /\ heard' = [at |-> now + ms, jumps |-> jumps]
        ELSE m_last_active_time' = m_last_active_time /\ heard' = heard
    BY DEF UpdateUnready
  <2> QED  BY <1>1, <1>2, <2>1, HeardStep
<1>4. TypeOK'
  BY <1>1, <1>2, <1>3 DEF TypeOK
<1>5. seg = NoSegment /\ acks = {}
  BY <1>1 DEF SegInv, AckInv
<1>6. FlushInv' /\ SegInv' /\ AckInv' /\ RttHonest'
  BY <1>1, <1>5 DEF FlushInv, SegInv, AckInv, RttHonest
<1> QED  BY <1>3, <1>4, <1>6

-----------------------------------------------------------------------------
(* Update *)

Estimator == [srtt : Nat, rttval : Nat, rto : MinRto .. MaxRto]

\* Whatever round trip is measured, rx_rto stays between its bounds.
LEMMA EstimatedType ==
  ASSUME NEW est \in Estimator, NEW rtt \in Nat
  PROVE  Estimated(est, rtt) \in Estimator
<1> DEFINE srtt == IF est.srtt = 0 THEN rtt ELSE Larger(1, (7 * est.srtt + rtt) \div 8)
           rttval == IF est.srtt = 0 THEN rtt \div 2
                     ELSE (3 * est.rttval + Distance(rtt, est.srtt)) \div 4
           rto == Smaller(Larger(MinRto, srtt + Larger(1, 4 * rttval)), MaxRto)
<1>1. est.srtt \in Nat /\ est.rttval \in Nat
  BY DEF Estimator
<1>2. srtt \in Nat
  BY <1>1 DEF Larger
<1>3. Distance(rtt, est.srtt) \in Nat
  BY <1>1 DEF Distance, Larger
<1>4. rttval \in Nat
  BY <1>1, <1>3
<1> HIDE DEF srtt, rttval
<1>5. rto \in MinRto .. MaxRto
  BY <1>2, <1>4, Sizes DEF Smaller, Larger
<1>6. Estimated(est, rtt) = [srtt |-> srtt, rttval |-> rttval, rto |-> rto]
  BY DEF Estimated, srtt, rttval
<1> HIDE DEF rto
<1> QED  BY <1>2, <1>4, <1>5, <1>6 DEF Estimator

LEMMA OnAckType ==
  ASSUME TypeOK, NEW ack \in Ack
  PROVE  Measured(ack.ts) \in Int /\ OnAck(rx, ack) \in Estimator
<1>1. kcp.current \in Int /\ ack.ts \in Int
  BY Sizes DEF TypeOK, Ack, Clocks
<1>2. Measured(ack.ts) \in Int
  BY <1>1, DiffRange DEF Measured
<1>3. rx \in Estimator
  BY DEF TypeOK, Estimator
<1> QED  BY <1>2, <1>3, EstimatedType DEF OnAck

\* Update at the time t, in one piece: what it reads and then, if it is time,
\* the flush.
LEMMA UpdateFacts ==
  ASSUME TimerInv, NEW ms \in Steps, NEW echoed \in acks \cup {NoAck},
         NEW other \in BOOLEAN, NEW kept \in {seg, NoSegment},
         Update(ms, echoed, other, kept),
         NEW t, t = now + ms, NEW moment, moment = [at |-> t, jumps |-> jumps],
         NEW ready, ready = Started(kcp, Clock(t))
  PROVE  /\ now' = t /\ zero' = zero /\ jumps' = jumps
         /\ ms \in Nat /\ now \in Nat /\ t \in 0 .. MaxNow /\ jumps \in 0 .. MaxJumps
         /\ zero \in Clocks /\ Clock(t) \in Clocks
         /\ \A u \in Int : Clock(u)' = Clock(u)
         /\ moment \in Moment /\ moment.at = t /\ moment.jumps = jumps
         /\ rx' \in Estimator
         /\ ready \in [updated : BOOLEAN, current : Clocks, ts_flush : Clocks]
         /\ ready.updated /\ ready.current = Clock(t)
         /\ kcp.updated => ready.ts_flush = kcp.ts_flush
         /\ ~kcp.updated => ready.ts_flush = Clock(t)
         /\ \/ /\ Slap(ready, Clock(t)) >= 0
               /\ kcp' = [ready EXCEPT !.ts_flush =
                                         NextFlush(FlushDue(ready, Clock(t)), Clock(t))]
               /\ flushed' = moment
               /\ \E s \in Flushable(kept, rx', Clock(t)) : Flush(s, rx', Clock(t), moment)
            \/ /\ Slap(ready, Clock(t)) < 0
               /\ kcp' = ready /\ seg' = kept /\ flushed' = flushed /\ acks' = acks
<1> USE DEF TimerInv
<1>1. now' = t /\ zero' = zero /\ jumps' = jumps /\ t <= MaxNow
  BY DEF Update
<1>2. /\ ms \in Nat /\ now \in Nat /\ t \in 0 .. MaxNow /\ jumps \in 0 .. MaxJumps
      /\ zero \in Clocks
  BY <1>1, TimerAssumption, Sizes DEF TypeOK
<1>3. Clock(t) \in Clocks
  BY <1>2, ClockType
<1>4. \A u \in Int : Clock(u)' = Clock(u)
  BY <1>1 DEF Clock
<1>5. moment \in Moment /\ moment.at = t /\ moment.jumps = jumps
  BY <1>2 DEF Moment
<1>6. rx' = IF echoed = NoAck THEN rx ELSE OnAck(rx, echoed)
  BY DEF Update
<1>7. rx' \in Estimator
  <2>1. CASE echoed = NoAck
    BY <1>6, <2>1 DEF TypeOK, Estimator
  <2>2. CASE echoed # NoAck
    <3>1. echoed \in Ack
      BY <2>2 DEF TypeOK
    <3> QED  BY <1>6, <2>2, <3>1, OnAckType
  <2> QED  BY <2>1, <2>2
<1>8. /\ ready \in [updated : BOOLEAN, current : Clocks, ts_flush : Clocks]
      /\ ready.updated /\ ready.current = Clock(t)
      /\ kcp.updated => ready.ts_flush = kcp.ts_flush
      /\ ~kcp.updated => ready.ts_flush = Clock(t)
  BY <1>3 DEF Started, TypeOK
<1>9. \/ /\ Slap(ready, Clock(t)) >= 0
         /\ kcp' = [ready EXCEPT !.ts_flush =
                                   NextFlush(FlushDue(ready, Clock(t)), Clock(t))]
         /\ flushed' = moment
         /\ \E s \in Flushable(kept, rx', Clock(t)) : Flush(s, rx', Clock(t), moment)
      \/ /\ Slap(ready, Clock(t)) < 0
         /\ kcp' = ready /\ seg' = kept /\ flushed' = flushed /\ acks' = acks
  BY DEF Update
<1> QED  BY <1>1, <1>2, <1>3, <1>4, <1>5, <1>7, <1>8, <1>9

\* A segment that was just moved to snd_buf is due.
LEMMA MovedFacts ==
  ASSUME NEW est \in Estimator, NEW c \in Clocks
  PROVE  /\ Moved(est, c) \in Segment /\ Moved(est, c).rto >= 1
         /\ Moved(est, c).tried = Never
         /\ \A d : Due(Moved(est, c), d)
BY Sizes DEF Moved, Segment, Estimator, Due

\* What a flush at t leaves of s: nothing, or s as it was, because it did not
\* come to it or found it not due, or s with its times set; and the
\* acknowledgement that may come of it.
LEMMA FlushFacts ==
  ASSUME zero \in Clocks, NEW t \in 0 .. MaxNow, NEW est \in Estimator,
         NEW moment \in Moment, NEW s \in {NoSegment} \cup Segment,
         s \in Segment => s.rto >= 1, Flush(s, est, Clock(t), moment)
  PROVE  /\ \/ seg' = NoSegment
            \/ s \in Segment /\ seg' = [s EXCEPT !.missed = TRUE]
            \/ s \in Segment /\ ~Due(s, Clock(t)) /\ seg' = [s EXCEPT !.missed = FALSE]
            \/ /\ seg' \in Segment /\ seg'.rto >= 1 /\ ~seg'.missed
               /\ seg'.tried = moment /\ seg'.resendts = Clock(t + seg'.rto)
         /\ acks' \in {acks, {[ts |-> Clock(t), sent |-> moment]}}
<1>1. t \in Int
  BY Sizes
<1>2. ASSUME s # NoSegment,
             NEW timed \in IF Due(s, Clock(t)) THEN {Timed(s, est, Clock(t), moment)}
                           ELSE {Overtaken(s, Clock(t), moment)},
             \/ seg' = timed /\ acks' = acks
             \/ /\ seg' = [timed EXCEPT !.xmit = 1]
                /\ acks' \in {acks, {[ts |-> Clock(t), sent |-> moment]}}
      PROVE  /\ seg' \in Segment /\ seg'.rto >= 1 /\ ~seg'.missed
             /\ seg'.tried = moment /\ seg'.resendts = Clock(t + seg'.rto)
  <2>1. s \in Segment /\ s.rto \in Nat /\ s.rto >= 1 /\ s.xmit \in 0 .. 1
    BY <1>2 DEF Segment
  <2>2. /\ timed \in Segment /\ timed.rto >= 1 /\ ~timed.missed
        /\ timed.tried = moment /\ timed.resendts = Clock(t + timed.rto)
    <3>1. CASE Due(s, Clock(t))
      <4> DEFINE rto == IF s.xmit = 0 THEN est.rto ELSE s.rto + est.rto \div 2
      <4>1. est.rto \in Nat /\ est.rto >= 1
        BY Sizes DEF Estimator
      <4>2. rto \in Nat /\ rto >= 1
        BY <2>1, <4>1
      <4> HIDE DEF rto
      <4>3. timed = [resendts |-> Later(Clock(t), rto), rto |-> rto, xmit |-> s.xmit,
                     tried |-> moment, missed |-> FALSE]
        BY <3>1, <1>2 DEF Timed, rto
      <4>4. rto \in Int /\ t + rto \in Int
        BY <1>1, <4>2
      <4>5. Later(Clock(t), rto) = Clock(t + rto) /\ Clock(t + rto) \in Clocks
        BY <1>1, <4>4, LaterIs, ClockType, Zenon
      <4> QED  BY <2>1, <4>2, <4>3, <4>5 DEF Segment
    <3>2. CASE ~Due(s, Clock(t))
      <4>1. timed = [s EXCEPT !.resendts = Later(Clock(t), s.rto), !.tried = moment,
                              !.missed = FALSE]
        BY <3>2, <1>2 DEF Overtaken
      <4>2. s.rto \in Int /\ t + s.rto \in Int
        BY <1>1, <2>1
      <4>3. /\ Later(Clock(t), s.rto) = Clock(t + s.rto)
            /\ Clock(t + s.rto) \in Clocks
        BY <1>1, <4>2, LaterIs, ClockType, Zenon
      <4> QED  BY <2>1, <4>1, <4>3 DEF Segment
    <3> QED  BY <3>1, <3>2
  <2>3. CASE seg' = timed
    BY <2>2, <2>3
  <2>4. CASE seg' = [timed EXCEPT !.xmit = 1]
    <3>1. /\ seg' \in Segment /\ seg'.rto = timed.rto /\ seg'.tried = timed.tried
          /\ seg'.resendts = timed.resendts /\ seg'.missed = timed.missed
      BY <2>2, <2>4 DEF Segment
    <3> QED  BY <2>2, <3>1
  <2> QED  BY <1>2, <2>3, <2>4
<1>3. \/ s = NoSegment /\ seg' = s /\ acks' = acks
      \/ s # NoSegment /\ seg' = [s EXCEPT !.missed = TRUE] /\ acks' = acks
      \/ /\ s # NoSegment /\ ~Due(s, Clock(t))
         /\ seg' = [s EXCEPT !.missed = FALSE] /\ acks' = acks
      \/ /\ s # NoSegment
         /\ \E timed \in IF Due(s, Clock(t)) THEN {Timed(s, est, Clock(t), moment)}
                          ELSE {Overtaken(s, Clock(t), moment)} :
              \/ seg' = timed /\ acks' = acks
              \/ /\ seg' = [timed EXCEPT !.xmit = 1]
                 /\ acks' \in {acks, {[ts |-> Clock(t), sent |-> moment]}}
  BY DEF Flush
<1>4. acks' \in {acks, {[ts |-> Clock(t), sent |-> moment]}}
  BY <1>3
<1> QED  BY <1>2, <1>3, <1>4

\* Update, one step for each variable and then one for each conjunct.
LEMMA UpdateStep ==
  ASSUME TimerInv, NEW ms \in Steps, NEW echoed \in acks \cup {NoAck},
         NEW other \in BOOLEAN, NEW kept \in {seg, NoSegment},
         Update(ms, echoed, other, kept)
  PROVE  TimerInv'
<1> DEFINE t == now + ms
           moment == [at |-> t, jumps |-> jumps]
           ready == Started(kcp, Clock(t))
           Flushes == /\ Slap(ready, Clock(t)) >= 0
                      /\ kcp' = [ready EXCEPT !.ts_flush =
                                   NextFlush(FlushDue(ready, Clock(t)), Clock(t))]
                      /\ flushed' = moment
                      /\ \E s \in Flushable(kept, rx', Clock(t)) :
                           Flush(s, rx', Clock(t), moment)
           Waits == /\ Slap(ready, Clock(t)) < 0
                    /\ kcp' = ready /\ seg' = kept /\ flushed' = flushed /\ acks' = acks
<1>1. /\ now' = t /\ zero' = zero /\ jumps' = jumps
      /\ ms \in Nat /\ now \in Nat /\ t \in 0 .. MaxNow /\ jumps \in 0 .. MaxJumps
      /\ zero \in Clocks /\ Clock(t) \in Clocks
      /\ \A u \in Int : Clock(u)' = Clock(u)
      /\ moment \in Moment /\ moment.at = t /\ moment.jumps = jumps
      /\ rx' \in Estimator
      /\ ready \in [updated : BOOLEAN, current : Clocks, ts_flush : Clocks]
      /\ ready.updated /\ ready.current = Clock(t)
      /\ kcp.updated => ready.ts_flush = kcp.ts_flush
      /\ ~kcp.updated => ready.ts_flush = Clock(t)
      /\ Flushes \/ Waits
  BY UpdateFacts
<1>2. t \in Int /\ t = now + ms
  BY <1>1, Sizes
<1> HIDE DEF t, moment, ready
\* kcp after it: the time of the next flush.
<1>3. ASSUME Flushes
      PROVE  \E F \in Int : kcp'.ts_flush = Clock(F) /\ t < F /\ F <= t + Interval
  <2>1. \E F \in Int : /\ NextFlush(FlushDue(ready, Clock(t)), Clock(t)) = Clock(F)
                       /\ t < F /\ F <= t + Interval
    BY <1>1, <1>2, <1>3, FlushMoves
  <2> QED  BY <1>1, <1>3, <2>1
<1>4. /\ kcp' \in [updated : BOOLEAN, current : Clocks, ts_flush : Clocks]
      /\ kcp'.updated /\ kcp'.current = Clock(t)
  <2>1. CASE Flushes
    <3>1. PICK F \in Int : NextFlush(FlushDue(ready, Clock(t)), Clock(t)) = Clock(F)
      BY <1>1, <1>2, <2>1, FlushMoves
    <3>2. Clock(F) \in Clocks
      BY <1>1, ClockType
    <3> QED  BY <1>1, <2>1, <3>1, <3>2
  <2>2. CASE Waits
    BY <1>1, <2>2
  <2> QED  BY <1>1, <2>1, <2>2
\* It flushes in the first Update, for nothing can be late then.
<1>5. ASSUME Waits PROVE kcp.updated
  <2>1. SUFFICES ASSUME ~kcp.updated PROVE FALSE
    OBVIOUS
  <2>2. Diff(Clock(t), Clock(t)) = 0
    <3>1. -(ClockSize \div 2) <= t - t /\ t - t < ClockSize \div 2 /\ t - t = 0
      BY <1>2, Sizes
    <3> QED  BY <1>1, <1>2, <3>1, DiffOfClocks, Zenon
  <2> QED  BY <1>1, <1>5, <2>1, <2>2, Sizes DEF Slap
\* seg and acks after it.
<1> DEFINE SameSegment == /\ seg \in Segment /\ seg' \in Segment /\ seg'.rto = seg.rto
                          /\ seg'.tried = seg.tried /\ seg'.xmit = seg.xmit
                          /\ seg'.resendts = seg.resendts
           NewSegment == /\ seg' \in Segment /\ seg'.rto >= 1 /\ seg'.missed
                         /\ seg'.tried = Never
           TriedSegment == /\ seg' \in Segment /\ seg'.rto >= 1 /\ ~seg'.missed
                           /\ seg'.tried = moment /\ seg'.resendts = Clock(t + seg'.rto)
<1>6. /\ \/ seg' = NoSegment
         \/ Flushes /\ SameSegment /\ seg'.missed
         \/ Flushes /\ SameSegment /\ ~seg'.missed /\ ~Due(seg, Clock(t))
         \/ Flushes /\ NewSegment
         \/ Flushes /\ TriedSegment
         \/ Waits /\ SameSegment /\ seg'.missed = seg.missed
      /\ acks' \in {acks, {[ts |-> Clock(t), sent |-> moment]}}
  <2>1. CASE Flushes
    <3> DEFINE new == Moved(rx', Clock(t))
    <3>1. PICK s \in Flushable(kept, rx', Clock(t)) : Flush(s, rx', Clock(t), moment)
      BY <2>1
    <3>2. /\ new \in Segment /\ new.rto >= 1 /\ new.tried = Never
          /\ Due(new, Clock(t))
      BY <1>1, MovedFacts
    <3>3. s \in {seg, NoSegment, new} /\ (seg = NoSegment \/ seg \in Segment)
      BY <3>1 DEF Flushable, TimerInv, TypeOK
    <3> HIDE DEF new
    <3>4. seg # NoSegment => seg.rto >= 1
      BY DEF TimerInv, SegInv
    <3>5. s \in {NoSegment} \cup Segment /\ (s \in Segment => s.rto >= 1)
      BY <3>2, <3>3, <3>4, NoSegmentIsNone
    <3>6. /\ \/ seg' = NoSegment
             \/ s \in Segment /\ seg' = [s EXCEPT !.missed = TRUE]
             \/ /\ s \in Segment /\ ~Due(s, Clock(t))
                /\ seg' = [s EXCEPT !.missed = FALSE]
             \/ TriedSegment
          /\ acks' \in {acks, {[ts |-> Clock(t), sent |-> moment]}}
      BY <1>1, <3>1, <3>5, FlushFacts
    <3>7. CASE s \in Segment /\ seg' = [s EXCEPT !.missed = TRUE]
      <4>1. /\ seg' \in Segment /\ seg'.missed /\ seg'.rto = s.rto
            /\ seg'.tried = s.tried /\ seg'.xmit = s.xmit /\ seg'.resendts = s.resendts
        BY <3>7 DEF Segment
      <4>2. s = seg \/ s = new
        BY <3>3, <3>7, NoSegmentIsNone
      <4> QED  BY <2>1, <3>2, <3>6, <3>7, <4>1, <4>2
    <3>8. CASE /\ s \in Segment /\ ~Due(s, Clock(t))
               /\ seg' = [s EXCEPT !.missed = FALSE]
      <4>1. /\ seg' \in Segment /\ ~seg'.missed /\ seg'.rto = s.rto
            /\ seg'.tried = s.tried /\ seg'.xmit = s.xmit /\ seg'.resendts = s.resendts
        BY <3>8 DEF Segment
      <4>2. s = seg
        BY <3>2, <3>3, <3>8, NoSegmentIsNone
      <4> QED  BY <2>1, <3>6, <3>8, <4>1, <4>2
    <3> QED  BY <2>1, <3>6, <3>7, <3>8
  <2>2. CASE Waits
    <3>1. seg = NoSegment \/ seg \in Segment
      BY DEF TimerInv, TypeOK
    <3> QED  BY <2>2, <3>1
  <2> QED  BY <1>1, <2>1, <2>2
<1> HIDE DEF SameSegment, NewSegment, TriedSegment
\* The last packet, and the round trip, measured against the last Update.
<1>7. /\ HeardInv' /\ m_last_active_time' \in Clocks
      /\ heard' = Never \/ heard' \in Moment
  <2> DEFINE reads == echoed # NoAck \/ other
  <2>1. IF reads
        THEN /\ m_last_active_time' = Clock(now + ms)
             /\ heard' = [at |-> now + ms, jumps |-> jumps]
        ELSE m_last_active_time' = m_last_active_time /\ heard' = heard
    BY DEF Update
  <2>2. now' = now + ms /\ now + ms <= MaxNow /\ reads \in BOOLEAN
    BY <1>1, <1>2, Sizes
  <2> HIDE DEF reads
  <2>3. TypeOK /\ HeardInv
    BY DEF TimerInv
  <2> QED  BY <1>1, <2>1, <2>2, <2>3, HeardStep
<1>8. /\ sample' \in [told : Nat, true : Nat, gap : Nat]
      /\ RttHonest'
  <2> DEFINE counts == /\ echoed # NoAck /\ echoed.sent.jumps = jumps
                       /\ Measured(echoed.ts) >= 0
  <2>1. CASE counts
    <3>1. /\ echoed \in Ack /\ echoed.sent.at \in Int /\ echoed.sent.at >= 0
          /\ echoed.sent.at <= now
          /\ echoed.ts = Clock(echoed.sent.at) /\ kcp.current = Clock(now)
      BY <2>1 DEF TimerInv, AckInv, TypeOK, Ack, Moment
    <3>2. PICK u \in Nat : u = echoed.sent.at /\ u <= now
      BY <3>1
    <3>3. PICK told \in Nat : told = Measured(echoed.ts)
      BY <2>1, <3>1, OnAckType DEF TimerInv
    <3>4. now - u < ClockSize \div 2 => told = now - u
      <4>1. SUFFICES ASSUME now - u < ClockSize \div 2 PROVE told = now - u
        OBVIOUS
      <4>2. now \in Int /\ u \in Int /\ -(ClockSize \div 2) <= now - u
        BY <1>1, <3>2, Sizes
      <4> QED  BY <1>1, <3>1, <3>2, <3>3, <4>1, <4>2, DiffOfClocks DEF Measured
    <3>5. sample' = [told |-> told, true |-> now + ms - u, gap |-> ms]
      BY <2>1, <3>2, <3>3 DEF Update
    <3>6. /\ now + ms - u \in Nat
          /\ now + ms - u < ClockSize \div 2
               => told <= now + ms - u /\ now + ms - u <= told + ms
      BY <1>1, <3>2, <3>4, Sizes
    <3> QED  BY <1>1, <3>5, <3>6 DEF RttHonest
  <2>2. CASE ~counts
    <3>1. sample' = NoSample
      BY <2>2 DEF Update
    <3> QED  BY <3>1 DEF NoSample, RttHonest
  <2> QED  BY <2>1, <2>2
<1>9. TypeOK'
  <2>1. seg' = NoSegment \/ seg' \in Segment
    BY <1>6 DEF SameSegment, NewSegment, TriedSegment
  <2>2. \A a \in acks' : a \in Ack
    <3>1. [ts |-> Clock(t), sent |-> moment] \in Ack
      BY <1>1 DEF Ack
    <3> QED  BY <1>6, <3>1 DEF TimerInv, TypeOK
  <2>3. flushed' = Never \/ flushed' \in Moment
    BY <1>1 DEF TimerInv, TypeOK
  <2> QED  BY <1>1, <1>4, <1>7, <1>8, <2>1, <2>2, <2>3 DEF TypeOK, Estimator
<1>10. FlushInv'
  <2>1. CASE Flushes
    <3>1. PICK F \in Int : kcp'.ts_flush = Clock(F) /\ t < F /\ F <= t + Interval
      BY <1>3, <2>1
    <3>2. flushed' = moment
      BY <2>1
    <3>3. Steps # {} /\ t <= t /\ jumps <= jumps /\ jumps + 1 # jumps
      BY <1>1, <1>2
    <3>4. kcp'.ts_flush = Clock(F)'
      BY <1>1, <3>1
    <3> QED  BY <1>1, <3>1, <3>2, <3>3, <3>4 DEF FlushInv
  <2>2. CASE Waits
    <3>1. /\ flushed \in Moment /\ flushed.at <= now /\ flushed.jumps <= jumps
          /\ flushed.at \in Int /\ flushed.jumps \in Int
      BY <1>5, <2>2 DEF TimerInv, FlushInv, Moment
    <3>2. /\ kcp'.ts_flush = kcp.ts_flush /\ flushed' = flushed
          /\ ready.ts_flush = kcp.ts_flush /\ kcp.ts_flush \in Clocks
      BY <1>1, <1>5, <2>2
    <3>3. flushed.at <= t
      BY <1>1, <1>2, <3>1
    <3>4. ASSUME flushed.jumps = jumps
          PROVE  \E F \in Int : /\ kcp.ts_flush = Clock(F)
                                /\ t < F /\ F <= flushed.at + Interval
      <4>1. PICK F \in Int : /\ kcp.ts_flush = Clock(F)
                             /\ now < F /\ F <= flushed.at + Interval
        BY <1>5, <2>2, <3>4 DEF TimerInv, FlushInv
      <4>2. -(ClockSize \div 2) <= t - F /\ t - F < ClockSize \div 2
        BY <1>1, <1>2, <3>1, <4>1, Sizes
      <4>3. t < F
        BY <1>1, <1>2, <2>2, <3>2, <4>1, <4>2, WaitKnown
      <4> QED  BY <4>1, <4>3
    <3>5. ASSUME flushed.jumps + 1 = jumps
          PROVE  \E sm \in Steps, F \in Int :
                   /\ kcp.ts_flush = Clock(F) /\ t < F /\ F <= t + Slack
                   /\ F < flushed.at + Interval + Slack + sm
      <4>1. \/ now - flushed.at < Interval
            \/ \E sm \in Steps, F \in Int :
                 /\ kcp.ts_flush = Clock(F)
                 /\ now < F /\ F <= now + Slack
                 /\ F < flushed.at + Interval + Slack + sm
        BY <1>5, <2>2, <3>5 DEF TimerInv, FlushInv
      <4>2. CASE now - flushed.at < Interval
        <5>1. PICK F \in Int : kcp.ts_flush = Clock(F) /\ t < F /\ F <= t + Slack
          BY <1>1, <1>2, <2>2, <3>2, WaitMoves
        <5>2. F < flushed.at + Interval + Slack + ms
          BY <1>1, <1>2, <3>1, <4>2, <5>1, Sizes
        <5> QED  BY <5>1, <5>2
      <4>3. ASSUME NEW sm \in Steps, NEW F \in Int,
                   kcp.ts_flush = Clock(F), now < F, F <= now + Slack,
                   F < flushed.at + Interval + Slack + sm
            PROVE  t < F /\ F <= t + Slack
        <5>1. -(ClockSize \div 2) <= t - F /\ t - F < ClockSize \div 2
          BY <1>1, <1>2, <4>3, Sizes
        <5>2. t < F
          BY <1>1, <1>2, <2>2, <3>2, <4>3, <5>1, WaitKnown
        <5> QED  BY <1>1, <1>2, <4>3, <5>2, Sizes
      <4> QED  BY <4>1, <4>2, <4>3
    <3>6. \A u \in Int : (kcp.ts_flush = Clock(u)) => (kcp.ts_flush = Clock(u))'
      BY <1>1, <3>2
    <3> QED  BY <1>1, <3>1, <3>2, <3>3, <3>4, <3>5, <3>6 DEF FlushInv
  <2> QED  BY <1>1, <2>1, <2>2
<1>11. SegInv'
  <2>1. SUFFICES ASSUME seg' # NoSegment PROVE SegInv'
    BY DEF SegInv
  <2>2. CASE Flushes /\ TriedSegment
    <3>1. flushed'.at = t /\ flushed'.jumps = jumps /\ seg'.tried = flushed'
      BY <1>1, <2>2 DEF TriedSegment
    <3>2. seg'.rto \in Int /\ seg'.rto >= 1
      BY <2>2 DEF TriedSegment, Segment
    <3>3. t <= t /\ jumps <= jumps /\ t - t < seg'.rto
      BY <1>1, <1>2, <3>2
    <3>4. (seg.resendts = Clock(seg.tried.at + seg.rto))'
      BY <1>1, <2>2, <3>1 DEF TriedSegment, Clock
    <3> QED  BY <1>4, <3>1, <3>2, <3>3, <3>4 DEF SegInv
  <2>3. CASE Flushes /\ NewSegment
    <3>1. seg'.tried.at = -1 /\ seg'.tried.jumps = -1 /\ seg'.missed /\ seg'.rto >= 1
      BY <2>3 DEF NewSegment, Never
    <3>2. flushed'.at = t /\ flushed'.jumps = jumps
      BY <1>1, <2>3
    <3>3. -1 <= t /\ -1 <= jumps /\ -1 # jumps
      BY <1>1, <1>2
    <3> QED  BY <1>1, <1>4, <3>1, <3>2, <3>3 DEF SegInv
  <2>4. CASE \/ Flushes /\ SameSegment /\ seg'.missed
             \/ Flushes /\ SameSegment /\ ~seg'.missed /\ ~Due(seg, Clock(t))
             \/ Waits /\ SameSegment /\ seg'.missed = seg.missed
    <3>1. /\ kcp.updated /\ seg.rto >= 1
          /\ seg.tried.at <= flushed.at /\ seg.tried.jumps <= flushed.jumps
          /\ seg.tried.jumps = jumps => seg.resendts = Clock(seg.tried.at + seg.rto)
      BY <2>4, NoSegmentIsNone DEF SameSegment, TimerInv, SegInv
    <3>2. /\ flushed.at \in Int /\ flushed.jumps \in Int
          /\ flushed.at <= now /\ flushed.jumps <= jumps
      BY <3>1 DEF TimerInv, FlushInv, Moment
    <3>3. /\ seg.tried.at \in Int /\ seg.tried.jumps \in Int /\ seg.rto \in Nat
          /\ seg.tried.jumps = jumps => seg.tried.at \in Nat
      BY <1>1, <2>4, Sizes DEF SameSegment, Segment, Moment, Never
    <3>4. ASSUME seg.tried.jumps = jumps
          PROVE  (seg.resendts = Clock(seg.tried.at + seg.rto))'
      BY <1>1, <2>4, <3>1, <3>3, <3>4 DEF SameSegment, Clock
    <3>5. seg.tried.at <= t /\ seg.tried.jumps <= jumps
      BY <1>1, <1>2, <3>1, <3>2, <3>3
    <3>6. /\ seg'.rto = seg.rto /\ seg'.tried = seg.tried /\ seg'.xmit = seg.xmit
      BY <2>4 DEF SameSegment
    <3>7. CASE Flushes /\ seg'.missed
      <4>1. flushed'.at = t /\ flushed'.jumps = jumps
        BY <1>1, <3>7
      <4> QED  BY <1>1, <1>4, <3>1, <3>4, <3>5, <3>6, <3>7, <4>1 DEF SegInv
    <3>8. CASE Flushes /\ ~seg'.missed /\ ~Due(seg, Clock(t))
      <4>1. flushed'.at = t /\ flushed'.jumps = jumps
        BY <1>1, <3>8
      <4>2. seg'.xmit # 0
        BY <3>6, <3>8 DEF Due
      <4>3. ASSUME seg.tried.jumps = jumps, t - seg.tried.at < ClockSize \div 2
            PROVE  t - seg.tried.at < seg.rto
        <5>1. t \in Nat /\ seg.tried.at \in Nat
          BY <1>1, <3>3, <4>3
        <5> QED  BY <1>1, <3>1, <3>3, <3>5, <3>8, <4>3, <5>1, NotDue
      <4>4. ASSUME seg.tried.jumps = jumps
            PROVE  \/ t - seg.tried.at < seg.rto
                   \/ t - seg.tried.at >= ClockSize \div 2
        BY <1>2, <3>3, <4>3, <4>4, Sizes
      <4> QED  BY <1>1, <1>4, <3>1, <3>4, <3>5, <3>6, <4>1, <4>2, <4>4 DEF SegInv
    <3>9. CASE Waits /\ seg'.missed = seg.missed
      <4>1. flushed' = flushed /\ seg # NoSegment
        BY <2>4, <3>9, NoSegmentIsNone DEF SameSegment
      <4>2. /\ ~seg.missed /\ seg.xmit = 0 => seg.tried = flushed
            /\ ~seg.missed /\ seg.tried.jumps = jumps
                 => \/ flushed.at - seg.tried.at < seg.rto
                    \/ flushed.at - seg.tried.at >= ClockSize \div 2
        BY <4>1 DEF TimerInv, SegInv
      <4> QED  BY <1>1, <1>4, <3>1, <3>4, <3>6, <3>9, <4>1, <4>2 DEF SegInv
    <3> QED  BY <2>4, <3>7, <3>8, <3>9
  <2> QED  BY <1>6, <2>1, <2>2, <2>3, <2>4
<1>12. AckInv'
  <2>1. SUFFICES ASSUME NEW a \in acks'
                 PROVE  /\ a.sent.at <= t /\ a.sent.jumps <= jumps
                        /\ a.sent.jumps = jumps => a.ts = Clock(a.sent.at)
    <3>1. \A u \in Int : Clock(u)' = Clock(u)
      BY <1>1
    <3>2. \A a \in acks' : a.sent.at \in Int
      BY <1>9 DEF TypeOK, Ack, Moment
    <3>3. (kcp.current = Clock(now))'
      BY <1>1, <1>4 DEF Clock
    <3> QED  BY <1>1, <1>4, <2>1, <3>1, <3>2, <3>3 DEF AckInv
  <2>2. CASE a \in acks
    <3>1. /\ a.sent.at <= now /\ a.sent.jumps <= jumps /\ a.sent.at \in Int
          /\ a.sent.jumps = jumps => a.ts = Clock(a.sent.at)
      BY <2>2 DEF TimerInv, AckInv, TypeOK, Ack, Moment
    <3> QED  BY <1>1, <1>2, <3>1
  <2>3. CASE a = [ts |-> Clock(t), sent |-> moment]
    <3>1. a.ts = Clock(t) /\ a.sent.at = t /\ a.sent.jumps = jumps
      BY <1>1, <2>3
    <3> QED  BY <1>1, <1>2, <3>1
  <2> QED  BY <1>6, <2>2, <2>3
<1> QED  BY <1>7, <1>8, <1>9, <1>10, <1>11, <1>12 DEF TimerInv

LEMMA TimerStep == TimerInv /\ [Next]_vars => TimerInv'
<1> SUFFICES ASSUME TimerInv, [Next]_vars PROVE TimerInv'
  OBVIOUS
<1>1. CASE \E ms \in Jumps : SetClock(ms)
  BY <1>1, SetClockStep
<1>2. CASE \E ms \in Steps, other \in BOOLEAN : UpdateUnready(ms, other)
  BY <1>2, UnreadyStep
<1>3. CASE \E ms \in Steps, echoed \in acks \cup {NoAck}, other \in BOOLEAN :
             \E kept \in {seg, NoSegment} : Update(ms, echoed, other, kept)
  BY <1>3, UpdateStep
<1>4. CASE UNCHANGED vars
  BY <1>4 DEF vars, TimerInv, TypeOK, FlushInv, SegInv, AckInv, HeardInv, RttHonest, Clock
<1> QED  BY <1>1, <1>2, <1>3, <1>4 DEF Next

-----------------------------------------------------------------------------
(* What follows from it *)

\* DistanceLastReceive is the true distance, less one if the clock wrapped.
LEMMA DistanceIs ==
  ASSUME zero \in Clocks, NEW t \in Nat, NEW u \in Nat, u <= t,
         t - u < ClockSize \div 2, m_last_active_time = Clock(u)
  PROVE  \/ DistanceLastReceive(t) = t - u
         \/ Clock(t) < Clock(u) /\ DistanceLastReceive(t) = t - u - 1
<1>1. PICK c \in 0 .. ClockSize - 1 : c = Clock(t)
  BY Sizes, ClockType, t \in Int DEF Clocks
<1>2. PICK d \in 0 .. ClockSize - 1 : d = Clock(u)
  BY Sizes, ClockType, u \in Int DEF Clocks
<1>3. (c - d) % ClockSize = (t - u) % ClockSize
  BY <1>1, <1>2, ClockDifference, t \in Int, u \in Int
<1>4. (t - u) % ClockSize = t - u
  <2>1. t - u \in Int /\ t - u >= 0 /\ -ClockSize <= t - u /\ t - u < ClockSize
    BY Sizes
  <2> QED  BY <2>1, Sizes, SmallRemainder
<1>5. (c - d) % ClockSize = IF c - d >= 0 THEN c - d ELSE c - d + ClockSize
  <2>1. c - d \in Int /\ -ClockSize <= c - d /\ c - d < ClockSize
    BY Sizes
  <2> QED  BY <2>1, Sizes, SmallRemainder
<1>6. DistanceLastReceive(t) = Signed(IF c >= d THEN c - d ELSE ClockSize - 1 - d + c)
  BY <1>1, <1>2 DEF DistanceLastReceive
<1>7. CASE c >= d
  <2>1. c - d = t - u
    BY <1>3, <1>4, <1>5, <1>7
  <2> QED  BY <1>6, <1>7, <2>1, Sizes DEF Signed
<1>8. CASE c < d
  <2>1. ClockSize - 1 - d + c = t - u - 1
    BY <1>3, <1>4, <1>5, <1>8, Sizes
  <2>2. DistanceLastReceive(t) = Signed(t - u - 1)
    BY <1>6, <1>8, <2>1
  <2>3. t - u - 1 < ClockSize \div 2
    BY Sizes
  <2> QED  BY <1>1, <1>2, <1>8, <2>2, <2>3 DEF Signed
<1> QED  BY <1>7, <1>8

\* The properties of the runs, from the invariant.
LEMMA TimerConsequences ==
  ASSUME TimerInv
  PROVE  FlushesInTime /\ NeverOverdue /\ DistanceTrue
<1> USE DEF TimerInv
<1>1. FlushesInTime
  <2>1. SUFFICES ASSUME kcp.updated PROVE FlushesInTime
    BY DEF FlushesInTime
  <2>2. /\ Steps # {} /\ now \in Nat /\ flushed.at \in Int
    BY <2>1, Sizes DEF FlushInv, TypeOK, Moment
  <2>3. ASSUME flushed.jumps = jumps PROVE now - flushed.at < Interval
    <3>1. PICK F \in Int : now < F /\ F <= flushed.at + Interval
      BY <2>1, <2>3 DEF FlushInv
    <3> QED  BY <2>2, <3>1, Sizes
  <2>4. ASSUME flushed.jumps + 1 = jumps
        PROVE  \E ms \in Steps : now - flushed.at < Interval + Slack + ms
    <3>1. CASE now - flushed.at < Interval
      <4>1. PICK ms \in Steps : ms \in Nat
        BY <2>2, TimerAssumption
      <4> QED  BY <2>2, <3>1, <4>1, Sizes
    <3>2. ASSUME NEW ms \in Steps, NEW F \in Int,
                 now < F, F < flushed.at + Interval + Slack + ms
          PROVE  now - flushed.at < Interval + Slack + ms
      <4>1. ms \in Nat
        BY TimerAssumption
      <4> QED  BY <2>2, <3>2, <4>1, Sizes
    <3> QED  BY <2>1, <2>4, <3>1, <3>2 DEF FlushInv
  <2> QED  BY <2>3, <2>4 DEF FlushesInTime
<1>2. NeverOverdue
  <2>1. SUFFICES ASSUME seg # NoSegment, ~seg.missed PROVE NeverOverdue
    BY DEF NeverOverdue
  <2>2. kcp.updated /\ seg.tried.jumps <= flushed.jumps /\ seg.tried.at <= flushed.at
    BY <2>1 DEF SegInv
  <2>3. seg.xmit = 0 => seg.tried = flushed
    BY <2>1 DEF SegInv
  <2>4. ASSUME seg.tried.jumps = jumps, now - seg.tried.at < ClockSize \div 2
        PROVE  now - seg.tried.at < seg.rto + Interval
    <3>1. /\ flushed.jumps <= jumps /\ flushed.jumps \in Int /\ jumps \in Int
          /\ flushed.at \in Int /\ flushed.at <= now /\ now \in Int
          /\ seg.tried.at \in Int /\ seg.rto \in Int
      BY <2>1, <2>2, Sizes DEF FlushInv, TypeOK, Segment, Moment, Never
    <3>2. flushed.jumps = jumps
      BY <2>2, <2>4, <3>1
    <3>3. PICK F \in Int : now < F /\ F <= flushed.at + Interval
      BY <2>2, <3>2 DEF FlushInv
    <3>4. \/ flushed.at - seg.tried.at < seg.rto
          \/ flushed.at - seg.tried.at >= ClockSize \div 2
      BY <2>1, <2>4 DEF SegInv
    <3> QED  BY <2>4, <3>1, <3>3, <3>4, Sizes
  <2> QED  BY <2>3, <2>4 DEF NeverOverdue
<1>3. DistanceTrue
  <2>1. SUFFICES ASSUME heard # Never, heard.jumps = jumps, now - heard.at < ClockSize \div 2
                 PROVE  DistanceTrue
    BY DEF DistanceTrue
  <2>2. /\ heard.at \in Nat /\ heard.at <= now /\ now \in Nat
        /\ m_last_active_time = Clock(heard.at)
    BY <2>1, Sizes DEF HeardInv, TypeOK, Moment
  <2> QED  BY <2>1, <2>2, DistanceIs DEF DistanceTrue, TypeOK
<1> QED  BY <1>1, <1>2, <1>3

-----------------------------------------------------------------------------
(* Theorems *)

\* The invariant of the clock, ts_flush, resendts, current and
\* m_last_active_time, whatever Update reads and however the clock is set.
THEOREM TimerInvariant == Spec => []TimerInv
BY TimerInit, TimerStep, PTL DEF Spec

\* ikcp_update_ack keeps rx_rto between rx_minrto and IKCP_RTO_MAX, whatever
\* round trip is measured, and every time kcp stores fits the clock.
THEOREM TypeCorrect == Spec => []TypeOK
<1>1. TimerInv => TypeOK
  BY DEF TimerInv
<1> QED  BY <1>1, TimerInvariant, PTL

\* ikcp_update flushes at least once in an interval, and one Slack and one
\* Update later at most if the clock is set once in between, by any amount.
THEOREM FlushedInTime == Spec => []FlushesInTime
<1>1. TimerInv => FlushesInTime
  BY TimerConsequences
<1> QED  BY <1>1, TimerInvariant, PTL

\* If the last flush came as far as a segment of snd_buf, Update leaves it neither
\* untried when it was never sent, nor with a rto that has passed by an interval,
\* across the wrap of the clock, as long as nobody sets the clock; whatever flushes
\* ended before it until then.
THEOREM NothingOverdue == Spec => []NeverOverdue
<1>1. TimerInv => NeverOverdue
  BY TimerConsequences
<1> QED  BY <1>1, TimerInvariant, PTL

\* ikcp_input measures a round trip as the true one, but for the time since the
\* last ikcp_update, whose clock it uses.
THEOREM RoundTripsHonest == Spec => []RttHonest
<1>1. TimerInv => RttHonest
  BY DEF TimerInv
<1> QED  BY <1>1, TimerInvariant, PTL

\* GetDistanceLastReceiveTime tells the true time since the last packet, one
\* less if the clock wrapped, as long as nobody sets the clock, up to half the
\* clock, where its int32_t turns negative.
THEOREM DistancesTrue == Spec => []DistanceTrue
<1>1. TimerInv => DistanceTrue
  BY TimerConsequences
<1> QED  BY <1>1, TimerInvariant, PTL
=============================================================================
