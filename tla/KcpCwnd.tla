------------------------------ MODULE KcpCwnd ------------------------------
(***************************************************************************)
(* KCP's congestion window (ikcp.c): the three fields of the control block *)
(* that ikcp_input grows when new data is acknowledged and that ikcp_flush *)
(* shrinks when it retransmits.  cwnd counts segments, incr counts bytes.  *)
(***************************************************************************)
EXTENDS Integers

CONSTANTS MSS,             \* kcp->mss, bytes of data in a segment
          IKCP_THRESH_INIT,
          IKCP_THRESH_MIN

\* ikcp_setmtu refuses an mtu below 50, so mss = mtu - 24 is at least 26.
ASSUME MSSAssumption == MSS \in Nat \ {0}
ASSUME ThreshAssumption == /\ IKCP_THRESH_INIT \in Nat
                           /\ IKCP_THRESH_MIN \in Nat \ {0}

imin(a, b) == IF a <= b THEN a ELSE b
imax(a, b) == IF a >= b THEN a ELSE b

Congestion == [cwnd : Nat, ssthresh : Nat, incr : Nat]

\* ikcp_create
CongestionInit == [cwnd |-> 0, ssthresh |-> IKCP_THRESH_INIT, incr |-> 0]

(***************************************************************************)
(* The tail of ikcp_input, run when snd_una advanced.  Below ssthresh the  *)
(* window grows by a segment (slow start); above it, incr grows by a part  *)
(* of a segment and cwnd follows once incr covers one more.  The advertised*)
(* window rmt_wnd caps the result.                                         *)
(***************************************************************************)
CapToRemote(c, rmt_wnd) ==
  IF c.cwnd > rmt_wnd
    THEN [cwnd |-> rmt_wnd, ssthresh |-> c.ssthresh, incr |-> rmt_wnd * MSS]
    ELSE c

SlowStart(c) ==
  [cwnd |-> c.cwnd + 1, ssthresh |-> c.ssthresh, incr |-> c.incr + MSS]

CongestionAvoidance(c) ==
  LET base == imax(c.incr, MSS)
      incr == base + (MSS * MSS) \div base + MSS \div 16
  IN  [cwnd |-> IF (c.cwnd + 1) * MSS <= incr
                  THEN (incr + MSS - 1) \div MSS ELSE c.cwnd,
       ssthresh |-> c.ssthresh,
       incr |-> incr]

CwndOnAck(c, rmt_wnd) ==
  IF c.cwnd >= rmt_wnd THEN c
  ELSE CapToRemote(IF c.cwnd < c.ssthresh THEN SlowStart(c)
                                          ELSE CongestionAvoidance(c),
                   rmt_wnd)

(***************************************************************************)
(* The tail of ikcp_flush.  change: a segment was resent because later     *)
(* ones were acknowledged (resent is the fast-resend threshold); lost: a   *)
(* segment was resent because its timer ran out (window is the window this *)
(* flush sent with).  Both may happen in one flush, in this order.         *)
(***************************************************************************)
OnChange(c, inflight, resent) ==
  LET thresh == imax(inflight \div 2, IKCP_THRESH_MIN)
  IN  [cwnd |-> thresh + resent, ssthresh |-> thresh,
       incr |-> (thresh + resent) * MSS]

OnLost(window) ==
  [cwnd |-> 1, ssthresh |-> imax(window \div 2, IKCP_THRESH_MIN), incr |-> MSS]

AtLeastOne(c) ==
  IF c.cwnd < 1 THEN [cwnd |-> 1, ssthresh |-> c.ssthresh, incr |-> MSS] ELSE c

\* Mutant of CwndOnFlush: the window is not brought back to a segment.
CwndOnFlushNoFloor(c, change, inflight, resent, lost, window) ==
  LET afterChange == IF change THEN OnChange(c, inflight, resent) ELSE c
  IN  IF lost THEN OnLost(window) ELSE afterChange

CwndOnFlush(c, change, inflight, resent, lost, window) ==
  LET afterChange == IF change THEN OnChange(c, inflight, resent) ELSE c
  IN  AtLeastOne(IF lost THEN OnLost(window) ELSE afterChange)
=============================================================================
