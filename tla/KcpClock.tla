------------------------------- MODULE KcpClock -------------------------------
(***************************************************************************)
(* The clocks of ikcp.c, which Kcp leaves to chance: when ikcp_update      *)
(* flushes, when a segment is resent and a window probed, what ikcp_check  *)
(* answers, and how the retransmission time follows the acknowledgements.  *)
(*                                                                         *)
(* Timestamps are milliseconds modulo 2^32, ClockModulus here, taken from  *)
(* gettimeofday, which may be set.  elapsed is the time that really passed,*)
(* and each timer carries in "due" the real time it was set to.  One       *)
(* segment at a time is in snd_buf, it is acknowledged once, with one of   *)
(* its timestamps, and fast resend and nodelay are off, as KcpOpt has them.*)
(***************************************************************************)
EXTENDS Integers

CONSTANTS ClockModulus,    \* 2^32
          Slack,           \* 10000: a difference that is taken for a clock that was set
          RTO_MIN, RTO_DEF, RTO_MAX, PROBE_INIT, PROBE_LIMIT,
          MinInterval, MaxInterval,      \* 10 and 5000
          IKCP_INTERVAL,   \* 100
          Intervals,       \* what is passed to ikcp_nodelay
          StartClocks,     \* what the clock may show at first
          Gaps,            \* between two calls of ikcp_update
          ClockSteps,      \* how far the clock may be set, once
          MaxElapsed, MaxXmit            \* bounds

VARIABLES elapsed, clock,  \* the real time, and what gettimeofday says
          clockSet,        \* the clock has been set
          updated, current, ts_flush, interval,
          rx,              \* rx_srtt, rx_rttval and rx_rto
          seg,             \* the segment in snd_buf
          rmt_wnd0,        \* rmt_wnd = 0
          probe,           \* probe_wait and ts_probe
          calledAt         \* the real time of the last ikcp_update

vars == <<elapsed, clock, clockSet, updated, current, ts_flush, interval, rx, seg,
          rmt_wnd0, probe, calledAt>>

\* Mutant of itimediff: times are compared as they are.
itimediffPlain(later, earlier) == later - earlier

\* The difference as a signed number of the same width.
itimediff(later, earlier) ==
  LET d == (later - earlier) % ClockModulus
  IN  IF d < ClockModulus \div 2 THEN d ELSE d - ClockModulus

Plus(t, n) == (t + n) % ClockModulus
Larger(a, b) == IF a > b THEN a ELSE b
Smaller(a, b) == IF a < b THEN a ELSE b
Abs(n) == IF n < 0 THEN -n ELSE n

NoSegment == [xmit |-> 0, rto |-> 0, resendts |-> 0, ts |-> 0, first |-> 0, due |-> 0]
NoProbe == [wait |-> 0, ts |-> 0, due |-> 0]

\* What ikcp_nodelay and ikcp_interval make of their argument.
Clamped(i) == Smaller(Larger(i, MinInterval), MaxInterval)

\* ikcp_create, and ikcp_nodelay as KcpSession calls it
Init ==
  /\ elapsed = 0 /\ clock \in StartClocks /\ clockSet = FALSE
  /\ updated = FALSE /\ current = 0
  /\ \E i \in Intervals : interval = Clamped(i)
  /\ ts_flush = IKCP_INTERVAL
  /\ rx = [srtt |-> 0, rttval |-> 0, rto |-> RTO_DEF]
  /\ seg = NoSegment /\ rmt_wnd0 = FALSE /\ probe = NoProbe
  /\ calledAt = 0

-----------------------------------------------------------------------------
(* ikcp_update at the time the clock shows, real time now *)

\* The part of ikcp_flush on window probes.
FlushProbe(time, now) ==
  IF ~rmt_wnd0 THEN NoProbe
  ELSE IF probe.wait = 0
         THEN [wait |-> PROBE_INIT, ts |-> Plus(time, PROBE_INIT), due |-> now + PROBE_INIT]
  ELSE IF itimediff(time, probe.ts) >= 0
         THEN LET base == Larger(probe.wait, PROBE_INIT)
                  wait == Smaller(base + base \div 2, PROBE_LIMIT)
              IN  [wait |-> wait, ts |-> Plus(time, wait), due |-> now + wait]
  ELSE probe

\* The part of ikcp_flush on the segments of snd_buf, with nodelay = 0; a new one may
\* have come from snd_queue.
FlushSegment(s, time, now) ==
  IF s.xmit = 0
    THEN LET wait == rx.rto + rx.rto \div 8
         IN  [xmit |-> 1, rto |-> rx.rto, resendts |-> Plus(time, wait), ts |-> time,
              first |-> time, due |-> now + wait]
  ELSE IF itimediff(time, s.resendts) >= 0
    THEN LET rto == s.rto + Larger(s.rto, rx.rto)
         IN  [xmit |-> s.xmit + 1, rto |-> rto, resendts |-> Plus(time, rto), ts |-> time,
              first |-> s.first, due |-> now + rto]
  ELSE s

\* Mutant of NextFlush: a flush that comes late is not made up for.
NextFlushLate(flush, time) == Plus(flush, interval)

\* ts_flush when ikcp_update flushes.
NextFlush(flush, time) ==
  IF itimediff(time, Plus(flush, interval)) >= 0 THEN Plus(time, interval)
                                                 ELSE Plus(flush, interval)

\* ts_flush as ikcp_update and ikcp_check find it.
Corrected(flush, time) ==
  IF itimediff(time, flush) >= Slack \/ itimediff(time, flush) < -Slack THEN time ELSE flush

ikcp_update(gap) ==
  LET now   == elapsed + gap
      time  == Plus(clock, gap)
      flush == Corrected(IF updated THEN ts_flush ELSE time, time)
  IN  /\ now <= MaxElapsed
      /\ elapsed' = now /\ clock' = time /\ calledAt' = now
      /\ current' = time /\ updated' = TRUE
      /\ IF itimediff(time, flush) >= 0
           THEN /\ ts_flush' = NextFlush(flush, time)
                /\ probe' = FlushProbe(time, now)
                /\ \/ seg.xmit = 0 /\ UNCHANGED seg           \* nothing to send
                   \/ seg' = FlushSegment(seg, time, now)
                /\ seg'.xmit <= MaxXmit
           ELSE ts_flush' = flush /\ UNCHANGED <<probe, seg>>
      /\ UNCHANGED <<clockSet, interval, rx, rmt_wnd0>>

-----------------------------------------------------------------------------
(* ikcp_input *)

\* ikcp_update_ack
ikcp_update_ack(r, rtt) ==
  LET first  == r.srtt = 0
      rttval == IF first THEN rtt \div 2 ELSE (3 * r.rttval + Abs(rtt - r.srtt)) \div 4
      srtt   == IF first THEN rtt ELSE Larger((7 * r.srtt + rtt) \div 8, 1)
      rto    == srtt + Larger(interval, 4 * rttval)
  IN  [srtt |-> srtt, rttval |-> rttval, rto |-> Smaller(Larger(RTO_MIN, rto), RTO_MAX)]

\* An acknowledgement carries the timestamp of the transmission it answers, the first
\* or the last here.
Ack ==
  /\ seg.xmit > 0
  /\ \E ts \in {seg.first, seg.ts} :
       rx' = IF itimediff(current, ts) >= 0
               THEN ikcp_update_ack(rx, itimediff(current, ts)) ELSE rx
  /\ seg' = NoSegment
  /\ UNCHANGED <<elapsed, clock, clockSet, updated, current, ts_flush, interval,
                 rmt_wnd0, probe, calledAt>>

\* The peer's window closes or opens.
Window ==
  /\ rmt_wnd0' = ~rmt_wnd0
  /\ UNCHANGED <<elapsed, clock, clockSet, updated, current, ts_flush, interval, rx,
                 seg, probe, calledAt>>

SetClock(step) ==
  /\ ~clockSet /\ updated
  /\ clockSet' = TRUE
  /\ clock' = Plus(clock, step)
  /\ UNCHANGED <<elapsed, updated, current, ts_flush, interval, rx, seg, rmt_wnd0,
                 probe, calledAt>>

Next ==
  \/ \E gap \in Gaps : ikcp_update(gap)
  \/ Ack \/ Window
  \/ \E step \in ClockSteps : SetClock(step)

-----------------------------------------------------------------------------
(* ikcp_check *)

ikcp_check(time) ==
  LET flush     == Corrected(ts_flush, time)
      tm_packet == itimediff(seg.resendts, time)
      minimal   == IF seg.xmit > 0 THEN Smaller(tm_packet, itimediff(flush, time))
                                   ELSE itimediff(flush, time)
  IN  IF ~updated \/ itimediff(time, flush) >= 0 \/ (seg.xmit > 0 /\ tm_packet <= 0) THEN time
      ELSE Plus(time, Smaller(minimal, interval))

-----------------------------------------------------------------------------
(* Properties *)

(***************************************************************************)
(* Comparing 32-bit timestamps by their signed difference is exact also    *)
(* where they wrap: as long as nobody sets the clock, a retransmission or  *)
(* a probe is due for ikcp_flush exactly when its time has really passed,  *)
(* and no round-trip time is taken to be longer than what really passed.   *)
(***************************************************************************)
TimersTrue ==
  ~clockSet =>
    /\ seg.xmit > 0 => (itimediff(current, seg.resendts) >= 0 <=> calledAt >= seg.due)
    /\ probe.wait > 0 => (itimediff(current, probe.ts) >= 0 <=> calledAt >= probe.due)
    /\ rx.srtt <= elapsed

(***************************************************************************)
(* However late ikcp_update is called and however the clock is set, the    *)
(* next flush is never due at once after an ikcp_update nor further off    *)
(* than the interval or 10 s; and ikcp_check never lets the caller sleep   *)
(* beyond the flush, a retransmission or the interval.                     *)
(***************************************************************************)
FlushInTime ==
  updated =>
    /\ itimediff(ts_flush, current) \in 1..Larger(interval, Slack)
    /\ LET wake == itimediff(ikcp_check(clock), clock) IN
       /\ wake \in 0..interval
       /\ wake > 0 => /\ wake <= itimediff(ts_flush, clock)
                      /\ seg.xmit > 0 => wake <= itimediff(seg.resendts, clock)
=============================================================================
