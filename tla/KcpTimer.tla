------------------------------- MODULE KcpTimer -------------------------------
(***************************************************************************)
(* Time in kcp (src/ikcp.c: ikcp_update, ikcp_update_ack and the timers of *)
(* ikcp_flush) and in ConnectionManager (_iClock, Update,                  *)
(* GetDistanceLastReceiveTime).                                            *)
(*                                                                         *)
(* The clock is gettimeofday in milliseconds, cut to 32 bits: it wraps     *)
(* round, and someone may set it.  kcp->current is the clock of the last   *)
(* ikcp_update, not of the packet being read, because Update reads what    *)
(* has arrived before it calls ikcp_update.                                *)
(*                                                                         *)
(* One segment is followed at a time; what the others do to it (fast       *)
(* retransmission, a refusal that ends the flush before it) and what       *)
(* KcpCanOutput answers are inputs.  One acknowledgement of it is in       *)
(* flight at a time, which may be read again and again, but once in one    *)
(* Update.                                                                 *)
(***************************************************************************)
EXTENDS Integers

CONSTANTS
  ClockSize,           \* 2^32: the values of the clock
  Interval,            \* interval, 10 ms
  Slack,               \* the 10000 ms of ikcp_update
  MinRto, MaxRto,      \* rx_minrto 30, IKCP_RTO_MAX 4000
  FirstRto,            \* IKCP_RTO_DEF 200
  Starts,              \* clock values the run may start at
  Steps,               \* ms between two calls of Update
  Jumps,               \* ms by which someone may set the clock
  MaxNow, MaxJumps     \* bounds: ms of a run, times the clock is set

ASSUME TimerAssumption ==
  /\ ClockSize \in Nat \ {0} /\ ClockSize % 2 = 0
  /\ Interval \in Nat \ {0} /\ Slack \in Nat \ {0}
  /\ MinRto \in Nat \ {0} /\ MaxRto \in Nat /\ FirstRto \in MinRto .. MaxRto
  /\ Interval + Slack < ClockSize \div 2
  /\ Starts \subseteq 0 .. ClockSize - 1 /\ Steps \subseteq Nat /\ Jumps \subseteq Int
  /\ \A ms \in Steps : ms + Interval + Slack < ClockSize \div 2
  /\ MaxNow \in Nat /\ MaxJumps \in Nat

VARIABLES
  now,                 \* history: ms since the run began
  zero,                \* what the clock would have shown then, as it is set now
  jumps,               \* history: how often the clock was set
  kcp,                 \* [updated, current, ts_flush], fields of the kcp
  rx,                  \* [srtt, rttval, rto], the estimator
  seg,                 \* the segment in snd_buf, or NoSegment
  acks,                \* the acknowledgement in flight: the ts it carries
  m_last_active_time,
  heard,               \* history: when the last packet was read
  flushed,             \* history: when kcp last flushed
  sample               \* history: the last round trip measured, and the true one

vars == <<now, zero, jumps, kcp, rx, seg, acks, m_last_active_time, heard, flushed, sample>>

\* A moment: the true time and how often the clock had been set.
Moment == [at : 0 .. MaxNow, jumps : 0 .. MaxJumps]
Never  == [at |-> -1, jumps |-> -1]

Clocks    == 0 .. ClockSize - 1
NoSegment == [xmit |-> -1]
NoSample  == [told |-> 0, true |-> 0, gap |-> 0]

\* resendts, rto, xmit: fields of the segment, but xmit 1 stands for all
\* greater; tried: history, when resendts was last set by a transmission;
\* missed: history, whether the last flush ended before it came to the segment.
Segment == [resendts : Clocks, rto : Nat, xmit : 0 .. 1,
            tried : Moment \cup {Never}, missed : BOOLEAN]
Ack     == [ts : Clocks, sent : Moment]
NoAck   == [ts |-> -1, sent |-> Never]

Init ==
  /\ now = 0 /\ zero \in Starts /\ jumps = 0
  /\ kcp = [updated |-> FALSE, current |-> 0, ts_flush |-> Interval]
  /\ rx = [srtt |-> 0, rttval |-> 0, rto |-> FirstRto]
  /\ seg = NoSegment /\ acks = {}
  /\ m_last_active_time = 0
  /\ heard = Never /\ flushed = Never /\ sample = NoSample

-----------------------------------------------------------------------------
(* The clock *)

\* _iClock
Clock(t) == (zero + t) % ClockSize

Later(c, ms) == (c + ms) % ClockSize

\* The value of a uint32_t as an int32_t.
Signed(d) == IF d < ClockSize \div 2 THEN d ELSE d - ClockSize

\* _itimediff: the difference of two clock values as a signed number.
Diff(later, earlier) == Signed((later - earlier) % ClockSize)

SetClock(ms) ==
  /\ jumps < MaxJumps
  /\ jumps' = jumps + 1
  /\ zero' = (zero + ms) % ClockSize
  /\ UNCHANGED <<now, kcp, rx, seg, acks, m_last_active_time, heard, flushed, sample>>

-----------------------------------------------------------------------------
(* ReceiveData *)

Larger(x, y)  == IF x >= y THEN x ELSE y
Smaller(x, y) == IF x <= y THEN x ELSE y
Distance(x, y) == Larger(x - y, y - x)

\* Mutant of Estimated: the upper bound is missing.
EstimatedUnbounded(est, rtt) ==
  LET srtt == IF est.srtt = 0 THEN rtt ELSE Larger(1, (7 * est.srtt + rtt) \div 8)
      rttval == IF est.srtt = 0 THEN rtt \div 2
                ELSE (3 * est.rttval + Distance(rtt, est.srtt)) \div 4
  IN  [srtt |-> srtt, rttval |-> rttval,
       rto |-> Larger(MinRto, srtt + Larger(1, 4 * rttval))]

\* ikcp_update_ack: a first sample, or srtt = 0, starts the estimator afresh.
\* (Its sums are int32_t and overflow from a rx_srtt of 2^28 ms on, three days;
\* here they do not.)
Estimated(est, rtt) ==
  LET srtt == IF est.srtt = 0 THEN rtt ELSE Larger(1, (7 * est.srtt + rtt) \div 8)
      rttval == IF est.srtt = 0 THEN rtt \div 2
                ELSE (3 * est.rttval + Distance(rtt, est.srtt)) \div 4
  IN  [srtt |-> srtt, rttval |-> rttval,
       rto |-> Smaller(Larger(MinRto, srtt + Larger(1, 4 * rttval)), MaxRto)]

\* Mutant of Measured: up to the next flush.
MeasuredToFlush(ts) == Diff(kcp.ts_flush, ts)

\* The round trip ikcp_input measures when ts is echoed.
Measured(ts) == Diff(kcp.current, ts)

\* ikcp_input on an acknowledgement: no sample if ts is later than current.
OnAck(est, ack) ==
  IF Measured(ack.ts) >= 0 THEN Estimated(est, Measured(ack.ts)) ELSE est

-----------------------------------------------------------------------------
(* ikcp_update and ikcp_flush *)

\* Mutant of Slap: a clock that was set back far is waited for.
SlapPatient(k, current) ==
  LET slap == Diff(current, k.ts_flush) IN IF slap >= Slack THEN 0 ELSE slap

\* How late ikcp_update is to flush; it starts afresh when it is off by Slack.
Slap(k, current) ==
  LET slap == Diff(current, k.ts_flush)
  IN  IF slap >= Slack \/ slap < -Slack THEN 0 ELSE slap

\* The time of the flush that Slap speaks of.
FlushDue(k, current) ==
  LET slap == Diff(current, k.ts_flush)
  IN  IF slap >= Slack \/ slap < -Slack THEN current ELSE k.ts_flush

\* ts_flush after a flush: one interval on, or one interval from now if that
\* has passed.
NextFlush(due, current) ==
  IF Diff(current, Later(due, Interval)) >= 0 THEN Later(current, Interval)
  ELSE Later(due, Interval)

\* ikcp_update up to the call of ikcp_flush.
Started(k, current) ==
  IF k.updated THEN [k EXCEPT !.current = current]
  ELSE [updated |-> TRUE, current |-> current, ts_flush |-> current]

\* The segment as ikcp_flush resends it when resendts has come (rto grows by
\* half of rx_rto: nodelay is 1) or sends it first.
Timed(s, est, current, moment) ==
  LET rto == IF s.xmit = 0 THEN est.rto ELSE s.rto + est.rto \div 2
  IN  [resendts |-> Later(current, rto), rto |-> rto, xmit |-> s.xmit,
       tried |-> moment, missed |-> FALSE]

\* The segment as ikcp_flush resends it because later ones were acknowledged.
Overtaken(s, current, moment) ==
  [s EXCEPT !.resendts = Later(current, s.rto), !.tried = moment, !.missed = FALSE]

\* Mutant of Due: the values of the clock are compared as they are.
DueUnwrapped(s, current) == s.xmit = 0 \/ current >= s.resendts

\* A segment never sent, or one whose time has come.
Due(s, current) == s.xmit = 0 \/ Diff(current, s.resendts) >= 0

\* ikcp_flush with the segment s.  KcpCanOutput may refuse an acknowledgement,
\* the answer to a probe, a probe or an earlier segment: then the flush ends
\* before it comes to s.  Or it comes to s and finds it not due.  Or it tries it:
\* later segments may have been acknowledged.  Then KcpCanOutput refuses s, so
\* that it is not sent, but its times are already set; or it is sent, and the
\* answer comes or not.
Flush(s, est, current, moment) ==
  \/ /\ s = NoSegment
     /\ seg' = s /\ UNCHANGED acks
  \/ /\ s # NoSegment
     /\ seg' = [s EXCEPT !.missed = TRUE] /\ UNCHANGED acks
  \/ /\ s # NoSegment /\ ~Due(s, current)
     /\ seg' = [s EXCEPT !.missed = FALSE] /\ UNCHANGED acks
  \/ /\ s # NoSegment
     /\ \E timed \in IF Due(s, current) THEN {Timed(s, est, current, moment)}
                      ELSE {Overtaken(s, current, moment)} :
          \/ seg' = timed /\ UNCHANGED acks
          \/ /\ seg' = [timed EXCEPT !.xmit = 1]
             /\ acks' \in {acks, {[ts |-> current, sent |-> moment]}}

\* The next segment as it is moved from snd_queue to snd_buf.
Moved(est, current) ==
  [resendts |-> current, rto |-> est.rto, xmit |-> 0, tried |-> Never, missed |-> FALSE]

\* What there is to flush: the segment in snd_buf, or the next one, if there is
\* one, the window has room and nothing was refused before it is moved.
Flushable(s, est, current) ==
  IF s = NoSegment THEN {NoSegment, Moved(est, current)} ELSE {s}

\* Update before the server has given a conv: it reads, but does not call
\* ikcp_update.
UpdateUnready(ms, other) ==
  /\ ~kcp.updated
  /\ now + ms <= MaxNow
  /\ now' = now + ms
  /\ IF other
     THEN /\ m_last_active_time' = Clock(now + ms)
          /\ heard' = [at |-> now + ms, jumps |-> jumps]
     ELSE UNCHANGED <<m_last_active_time, heard>>
  /\ UNCHANGED <<zero, jumps, kcp, rx, seg, acks, flushed, sample>>

\* Update, ms after the last call: echoed is the acknowledgement it reads, or
\* NoAck; kept is the segment unless it is among what that or another packet
\* (other) acknowledges.
Update(ms, echoed, other, kept) ==
  LET moment  == [at |-> now + ms, jumps |-> jumps]
      current == Clock(now + ms)
      est     == IF echoed = NoAck THEN rx ELSE OnAck(rx, echoed)
      ready   == Started(kcp, current)
      reads   == echoed # NoAck \/ other
  IN  /\ now + ms <= MaxNow
      /\ now' = now + ms
      /\ kept = seg \/ (reads /\ kept = NoSegment)
      /\ rx' = est
      /\ IF reads
         THEN m_last_active_time' = current /\ heard' = moment
         ELSE UNCHANGED <<m_last_active_time, heard>>
      /\ sample' = IF echoed # NoAck /\ echoed.sent.jumps = jumps
                      /\ Measured(echoed.ts) >= 0
                   THEN [told |-> Measured(echoed.ts),
                         true |-> now + ms - echoed.sent.at, gap |-> ms]
                   ELSE NoSample
      /\ \/ /\ Slap(ready, current) >= 0
            /\ kcp' = [ready EXCEPT !.ts_flush = NextFlush(FlushDue(ready, current), current)]
            /\ flushed' = moment
            /\ \E s \in Flushable(kept, est, current) : Flush(s, est, current, moment)
         \/ /\ Slap(ready, current) < 0
            /\ kcp' = ready
            /\ seg' = kept
            /\ UNCHANGED <<flushed, acks>>
      /\ UNCHANGED <<zero, jumps>>

Next ==
  \/ \E ms \in Jumps : SetClock(ms)
  \/ \E ms \in Steps, other \in BOOLEAN : UpdateUnready(ms, other)
  \/ \E ms \in Steps, echoed \in acks \cup {NoAck}, other \in BOOLEAN :
       \E kept \in {seg, NoSegment} : Update(ms, echoed, other, kept)

Spec == Init /\ [][Next]_vars

-----------------------------------------------------------------------------
(* GetDistanceLastReceiveTime *)

\* Mutant of DistanceLastReceive: the two are swapped across the wrap.
DistanceLastReceiveSwapped(t) ==
  Signed(IF Clock(t) >= m_last_active_time THEN Clock(t) - m_last_active_time
         ELSE ClockSize - 1 - Clock(t) + m_last_active_time)

DistanceLastReceive(t) ==
  Signed(IF Clock(t) >= m_last_active_time THEN Clock(t) - m_last_active_time
         ELSE ClockSize - 1 - m_last_active_time + Clock(t))

-----------------------------------------------------------------------------
(* Properties *)

\* Type invariant; whatever is measured, rx_rto stays between its bounds.
TypeOK ==
  /\ now \in 0 .. MaxNow /\ zero \in Clocks /\ jumps \in 0 .. MaxJumps
  /\ kcp \in [updated : BOOLEAN, current : Clocks, ts_flush : Clocks]
  /\ rx \in [srtt : Nat, rttval : Nat, rto : MinRto .. MaxRto]
  /\ seg = NoSegment \/ seg \in Segment
  /\ \A a \in acks : a \in Ack
  /\ m_last_active_time \in Clocks
  /\ heard = Never \/ heard \in Moment
  /\ flushed = Never \/ flushed \in Moment
  /\ sample \in [told : Nat, true : Nat, gap : Nat]

\* kcp flushes at least once in an interval, however the calls of Update fall
\* and across the wrap of the clock; and if the clock is set once, forwards or
\* back, by any amount, within Slack more and one step of Update.
FlushesInTime ==
  kcp.updated =>
    /\ flushed.jumps = jumps => now - flushed.at < Interval
    /\ flushed.jumps + 1 = jumps =>
         \E ms \in Steps : now - flushed.at < Interval + Slack + ms

\* No transmission is overdue where the last flush came as far as the segment,
\* however many before it ended too early: a first transmission that KcpCanOutput
\* refused is tried again at once, and no segment is left behind that was tried
\* longer than its rto and an interval ago, as long as the clock is not set.  (A
\* time of half the clock, 24 days, cannot be told from one to come.)
NeverOverdue ==
  seg # NoSegment /\ ~seg.missed =>
    /\ seg.xmit = 0 => seg.tried = flushed
    /\ seg.tried.jumps = jumps /\ now - seg.tried.at < ClockSize \div 2
         => now - seg.tried.at < seg.rto + Interval

\* The round trip that is measured is never longer than the true one, and
\* shorter by no more than the time since the last Update, if the true one is
\* less than half the clock.
RttHonest ==
  sample.true < ClockSize \div 2
    => sample.told <= sample.true /\ sample.true <= sample.told + sample.gap

\* GetDistanceLastReceiveTime tells how long ago the last packet was read, or one
\* less if the clock wrapped in between, if the clock has not been set and the
\* packet was read less than half the clock ago: its result is an int32_t.
DistanceTrue ==
  heard # Never /\ heard.jumps = jumps /\ now - heard.at < ClockSize \div 2 =>
    \/ DistanceLastReceive(now) = now - heard.at
    \/ /\ Clock(now) < Clock(heard.at)
       /\ DistanceLastReceive(now) = now - heard.at - 1
=============================================================================
