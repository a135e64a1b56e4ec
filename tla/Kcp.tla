-------------------------------- MODULE Kcp --------------------------------
(***************************************************************************)
(* The KCP automatic-repeat-request protocol (ikcp.c) between two control  *)
(* blocks joined by a network that may lose, duplicate and reorder         *)
(* datagrams.  Every variable is a function of the peer, and each function *)
(* of ikcp.c that changes a control block is an action.                    *)
(*                                                                         *)
(* Abstractions.  A payload is the identity of its fragment.  Sequence     *)
(* numbers are naturals: fewer than 2^31 segments are sent, which is what  *)
(* _itimediff needs to order them.  The sorted lists snd_buf and rcv_buf   *)
(* are functions of the sequence number.  Clocks are left out: which       *)
(* retransmission timers have run out when ikcp_flush looks at them is     *)
(* chosen nondeterministically, so every timing is covered.                *)
(***************************************************************************)
EXTENDS KcpPeers, KcpCwnd, FiniteSets, SequencesExt

CONSTANTS SndWnd,          \* kcp->snd_wnd
          RcvWnd,          \* kcp->rcv_wnd
          FastResend,      \* kcp->fastresend, 0 when switched off
          FastLimit,       \* kcp->fastlimit
          DeadLink,        \* kcp->dead_link
          NoCwnd,          \* kcp->nocwnd: TRUE switches congestion control off
          MtuSegs,         \* segments that fit in one datagram
          NetCap,          \* bound: datagrams queued for a peer, the rest are dropped
          AckCap,          \* bound: a peer with more acknowledgements pending flushes before it reads
          MaxFaults        \* bound: datagrams lost, duplicated or reordered in transit

ASSUME WndAssumption == /\ SndWnd \in Nat \ {0}
                        /\ RcvWnd \in Nat
                        /\ RcvWnd >= IKCP_WND_RCV      \* ikcp_wndsize
ASSUME ResendAssumption == /\ FastResend \in Nat
                           /\ FastLimit \in Nat
                           /\ DeadLink \in Nat
                           /\ NoCwnd \in BOOLEAN
ASSUME NetAssumption == /\ MtuSegs \in Nat \ {0}
                        /\ NetCap \in Nat
                        /\ AckCap \in Nat
                        /\ MaxFaults \in Nat

VARIABLES sent, delivered,                      \* what the users passed and got
          snd_queue, snd_buf, snd_nxt, snd_una, \* sending half
          rcv_queue, rcv_buf, rcv_nxt, acklist, \* receiving half
          rmt_wnd, probe, probe_wait,           \* flow control
          cc, state, updated,
          in_call, in_segs, prev_una, maxack,   \* the ikcp_input call in progress
          net, faults

sndVars == <<snd_queue, snd_buf, snd_nxt, snd_una>>
rcvVars == <<rcv_queue, rcv_buf, rcv_nxt, acklist>>
wndVars == <<rmt_wnd, probe, probe_wait>>
inVars  == <<in_call, in_segs, prev_una, maxack>>
vars == <<sent, delivered, sndVars, rcvVars, wndVars, cc, state, updated,
          inVars, net, faults>>

NoFrag == [msg |-> 0, frg |-> 0]                \* an ACK, WASK or WINS has no data
Cmd == {"PUSH", "ACK", "WASK", "WINS"}
Segment == [cmd : Cmd, sn : Nat, frag : Fragment, una : Nat, wnd : Nat]
Pending == [frag : Fragment, xmit : Nat, fastack : Nat]

-----------------------------------------------------------------------------
(* ikcp_create and the configuration calls that follow it *)

Init ==
  /\ sent = [p \in Peer |-> <<>>]
  /\ delivered = [p \in Peer |-> <<>>]
  /\ snd_queue = [p \in Peer |-> <<>>]
  /\ snd_buf = [p \in Peer |-> <<>>]
  /\ snd_nxt = [p \in Peer |-> 0]
  /\ snd_una = [p \in Peer |-> 0]
  /\ rcv_queue = [p \in Peer |-> <<>>]
  /\ rcv_buf = [p \in Peer |-> <<>>]
  /\ rcv_nxt = [p \in Peer |-> 0]
  /\ acklist = [p \in Peer |-> <<>>]
  /\ rmt_wnd = [p \in Peer |-> IKCP_WND_RCV]
  /\ probe = [p \in Peer |-> {}]
  /\ probe_wait = [p \in Peer |-> FALSE]
  /\ cc = [p \in Peer |-> CongestionInit]
  /\ state = [p \in Peer |-> 0]
  /\ updated = [p \in Peer |-> FALSE]
  /\ in_call = "none" /\ in_segs = <<>> /\ prev_una = 0 /\ maxack = -1
  /\ net = [p \in Peer |-> <<>>]
  /\ faults = 0

\* A call of ikcp_input works on one control block only, and the session holds
\* its lock meanwhile, so it is run to its end before anything else happens.
Idle == in_call = "none"

-----------------------------------------------------------------------------
(* ikcp_send *)

Send(p) ==
  \E count \in 1..(IKCP_WND_RCV - 1) :
     /\ Idle
     /\ Len(sent[p]) + count <= SendLimit[p]
     /\ sent' = [sent EXCEPT ![p] = @ \o Fragments(Len(sent[p]), count)]
     /\ snd_queue' = [snd_queue EXCEPT ![p] = @ \o Fragments(Len(sent[p]), count)]
     /\ UNCHANGED <<delivered, snd_buf, snd_nxt, snd_una, rcvVars, wndVars, cc,
                    state, updated, inVars, net, faults>>

-----------------------------------------------------------------------------
(* ikcp_recv *)

\* The loop that moves in-order data from rcv_buf to rcv_queue stops after k
\* segments: when the queue holds RcvWnd of them or the next one is missing.
Moves(buf, nxt, room, k) ==
  /\ k <= room
  /\ nxt..(nxt + k - 1) \subseteq DOMAIN buf
  /\ k = room \/ nxt + k \notin DOMAIN buf

\* The same loop's effect on p, from a buffer buf and a queue of segments.
MoveToQueue(p, buf, queue) ==
  \E k \in 0..(RcvWnd - Len(queue)) :
     /\ Moves(buf, rcv_nxt[p], RcvWnd - Len(queue), k)
     /\ rcv_queue' = [rcv_queue EXCEPT
                        ![p] = queue \o [i \in 1..k |-> buf[rcv_nxt[p] + i - 1]]]
     /\ rcv_buf' = [rcv_buf EXCEPT
                      ![p] = Restrict(buf, DOMAIN buf \ rcv_nxt[p]..(rcv_nxt[p] + k - 1))]
     /\ rcv_nxt' = [rcv_nxt EXCEPT ![p] = @ + k]

\* Mutant of MessageReady: the fragments still missing are not counted.
MessageReadyAtOnce(queue) == queue # <<>>

\* ikcp_peeksize finds a complete message at the head of the queue.
MessageReady(queue) ==
  /\ queue # <<>>
  /\ Len(queue) >= Head(queue).frg + 1

\* The merge loop takes n segments: up to the first with frg = 0.
Takes(queue, n) ==
  /\ n = Len(queue) \/ queue[n].frg = 0
  /\ \A i \in 1..(n - 1) : queue[i].frg # 0

Recv(p) ==
  LET queue == rcv_queue[p] IN
  /\ Idle
  /\ MessageReady(queue)
  /\ \E n \in 1..Len(queue) :
        /\ Takes(queue, n)
        /\ delivered' = [delivered EXCEPT ![p] = @ \o SubSeq(queue, 1, n)]
        /\ MoveToQueue(p, rcv_buf[p], SubSeq(queue, n + 1, Len(queue)))
  /\ probe' = [probe EXCEPT ![p] =
                 IF Len(queue) >= RcvWnd /\ Len(rcv_queue'[p]) < RcvWnd
                   THEN @ \cup {"ASK_TELL"} ELSE @]
  /\ UNCHANGED <<sent, sndVars, acklist, rmt_wnd, probe_wait, cc, state, updated,
                 inVars, net, faults>>

-----------------------------------------------------------------------------
(* ikcp_update, when its flush timer is due, and ikcp_flush *)

WndUnused(p) == IF Len(rcv_queue[p]) < RcvWnd THEN RcvWnd - Len(rcv_queue[p]) ELSE 0

\* The header has 16 bits for the window.
Seg(p, cmd, sn, frag) ==
  [cmd |-> cmd, sn |-> sn, frag |-> frag, una |-> rcv_nxt[p], wnd |-> WndUnused(p) % 65536]

\* Mutant of AckSegs: acknowledges the segment before the one received.
AckSegsPrevious(p) ==
  [i \in 1..Len(acklist[p]) |-> Seg(p, "ACK", acklist[p][i] - 1, NoFrag)]

AckSegs(p) ==
  [i \in 1..Len(acklist[p]) |-> Seg(p, "ACK", acklist[p][i], NoFrag)]

\* Mutant of ProbesToSend: the probe timer is never looked at.
ProbesNever(p, timeout) == probe[p]

\* A zero remote window arms the probe timer; once it is armed, the flush that
\* finds it run out (timeout) asks.
ProbesToSend(p, timeout) ==
  IF rmt_wnd[p] = 0 /\ probe_wait[p] /\ timeout
    THEN probe[p] \cup {"ASK_SEND"} ELSE probe[p]

ProbeSegs(p, probes) ==
  (IF "ASK_SEND" \in probes THEN <<Seg(p, "WASK", 0, NoFrag)>> ELSE <<>>) \o
  (IF "ASK_TELL" \in probes THEN <<Seg(p, "WINS", 0, NoFrag)>> ELSE <<>>)

\* The window this flush may send in.
FlushWindow(p) ==
  LET wnd == imin(SndWnd, rmt_wnd[p])
  IN  IF NoCwnd THEN wnd ELSE imin(cc[p].cwnd, wnd)

\* Mutant of FreshCount: the loop runs while snd_nxt <= snd_una + window.
FreshCountInclusive(p) ==
  imin(Len(snd_queue[p]), imax(0, snd_una[p] + FlushWindow(p) + 1 - snd_nxt[p]))

\* How many segments the loop moves from snd_queue to snd_buf.
FreshCount(p) ==
  imin(Len(snd_queue[p]), imax(0, snd_una[p] + FlushWindow(p) - snd_nxt[p]))

Fresh(p) == snd_nxt[p]..(snd_nxt[p] + FreshCount(p) - 1)

\* Segments resent because FastResend later ones were acknowledged; those whose
\* timer ran out are in due and go first.
FastDue(p, due) ==
  {sn \in DOMAIN snd_buf[p] \ due :
     /\ FastResend > 0
     /\ snd_buf[p][sn].fastack >= FastResend
     /\ snd_buf[p][sn].xmit <= FastLimit \/ FastLimit = 0}

\* xmit and fastack are only compared with limits, so they stop growing there.
XmitCap == imax(DeadLink, FastLimit + 1)
BumpXmit(x) == imin(x + 1, XmitCap)

Resent(s, fastack) ==
  [frag |-> s.frag, xmit |-> BumpXmit(s.xmit), fastack |-> fastack]

\* snd_buf after the flush: a resend on timeout keeps the fastack count.
FlushedBuf(p, due, fast) ==
  [sn \in DOMAIN snd_buf[p] \cup Fresh(p) |->
     IF sn \in Fresh(p) THEN [frag |-> snd_queue[p][sn - snd_nxt[p] + 1],
                              xmit |-> BumpXmit(0), fastack |-> 0]
     ELSE IF sn \in due THEN Resent(snd_buf[p][sn], snd_buf[p][sn].fastack)
     ELSE IF sn \in fast THEN Resent(snd_buf[p][sn], 0)
     ELSE snd_buf[p][sn]]

\* The order of the walk over snd_buf.
Ascending(S) ==
  {s \in [1..Cardinality(S) -> S] :
     \A i, j \in 1..Cardinality(S) : i < j => s[i] < s[j]}

PushSegs(p, buf, order) ==
  [i \in 1..Len(order) |-> Seg(p, "PUSH", order[i], buf[order[i]].frag)]

\* Segments are packed in the order they are written; a full datagram is output.
Datagrams(segs) ==
  [i \in 1..((Len(segs) + MtuSegs - 1) \div MtuSegs) |->
     SubSeq(segs, (i - 1) * MtuSegs + 1, imin(i * MtuSegs, Len(segs)))]

\* A receiver's socket buffer holds NetCap datagrams and drops what comes after.
Deliverable(queue) == SubSeq(queue, 1, imin(Len(queue), NetCap))

\* One flush, with the timers in due and, if timeout, the probe timer run out.
FlushWith(p, due, timeout) ==
  LET fast == FastDue(p, due)
      buf  == FlushedBuf(p, due, fast)
      out  == due \cup fast \cup Fresh(p)
      probes == ProbesToSend(p, timeout)
  IN \E order \in Ascending(out) :
     /\ Idle
     /\ net' = [net EXCEPT ![Other(p)] =
                  Deliverable(@ \o Datagrams(AckSegs(p) \o ProbeSegs(p, probes)
                                             \o PushSegs(p, buf, order)))]
     /\ acklist' = [acklist EXCEPT ![p] = <<>>]
     /\ probe' = [probe EXCEPT ![p] = {}]
     /\ probe_wait' = [probe_wait EXCEPT ![p] = (rmt_wnd[p] = 0)]
     /\ snd_buf' = [snd_buf EXCEPT ![p] = buf]
     /\ snd_queue' = [snd_queue EXCEPT
                        ![p] = SubSeq(@, FreshCount(p) + 1, Len(@))]
     /\ snd_nxt' = [snd_nxt EXCEPT ![p] = @ + FreshCount(p)]
     /\ state' = [state EXCEPT
                    ![p] = IF \E sn \in out : buf[sn].xmit >= DeadLink THEN -1 ELSE @]
     /\ cc' = [cc EXCEPT
                 ![p] = CwndOnFlush(@, fast # {}, snd_nxt'[p] - snd_una[p],
                                    FastResend, due # {}, FlushWindow(p))]
     /\ updated' = [updated EXCEPT ![p] = TRUE]
     /\ UNCHANGED <<sent, delivered, snd_una, rcv_queue, rcv_buf, rcv_nxt,
                    rmt_wnd, inVars, faults>>

Update(p) ==
  \E due \in SUBSET DOMAIN snd_buf[p], timeout \in BOOLEAN : FlushWith(p, due, timeout)

-----------------------------------------------------------------------------
(* ikcp_input: one step to take a datagram, one for each of its segments and *)
(* one for what follows the loop                                             *)

InputBegin(p) ==
  /\ Idle
  /\ net[p] # <<>>
  /\ Len(acklist[p]) <= AckCap
  /\ in_call' = p
  /\ in_segs' = Head(net[p])
  /\ prev_una' = snd_una[p]
  /\ maxack' = -1
  /\ net' = [net EXCEPT ![p] = Tail(@)]
  /\ UNCHANGED <<sent, delivered, sndVars, rcvVars, wndVars, cc, state, updated, faults>>

Parsing(p, cmd) == in_call = p /\ in_segs # <<>> /\ Head(in_segs).cmd = cmd

\* Mutant of ParseUna: frees the segment the peer waits for too.
ParseUnaInclusive(p) ==
  Restrict(snd_buf[p], {sn \in DOMAIN snd_buf[p] : sn > Head(in_segs).una})

\* ikcp_parse_una
ParseUna(p) ==
  Restrict(snd_buf[p], {sn \in DOMAIN snd_buf[p] : sn >= Head(in_segs).una})

\* ikcp_parse_ack, on what ikcp_parse_una left
ParseAck(buf, una, nxt, sn) ==
  IF sn < una \/ sn >= nxt THEN buf ELSE Restrict(buf, DOMAIN buf \ {sn})

\* ikcp_shrink_buf
IsOldest(una, buf, nxt) ==
  \/ DOMAIN buf # {} /\ una \in DOMAIN buf /\ \A sn \in DOMAIN buf : una <= sn
  \/ DOMAIN buf = {} /\ una = nxt

\* Mutant of ShrinkBuf: an empty snd_buf leaves snd_una where it was.
ShrinkBufNonEmpty(p, buf) ==
  \E una \in DOMAIN buf \cup {snd_una[p]} :
     /\ IsOldest(una, buf, snd_una[p])
     /\ snd_una' = [snd_una EXCEPT ![p] = una]

ShrinkBuf(p, buf) ==
  \E una \in DOMAIN buf \cup {snd_nxt[p]} :
     /\ IsOldest(una, buf, snd_nxt[p])
     /\ snd_una' = [snd_una EXCEPT ![p] = una]

\* What every segment does before its command is looked at, and the end of the
\* loop body; buf is what the whole segment leaves in snd_buf.
ParseHeader(p, buf) ==
  /\ rmt_wnd' = [rmt_wnd EXCEPT ![p] = Head(in_segs).wnd]
  /\ snd_buf' = [snd_buf EXCEPT ![p] = buf]
  /\ ShrinkBuf(p, buf)
  /\ in_segs' = Tail(in_segs)
  /\ UNCHANGED <<sent, delivered, snd_queue, snd_nxt, probe_wait, cc, state, updated,
                 in_call, prev_una, net, faults>>

InputAck(p) ==
  /\ Parsing(p, "ACK")
  /\ LET sn == Head(in_segs).sn
         buf == ParseUna(p)
     IN \E una \in DOMAIN buf \cup {snd_nxt[p]} :
          /\ IsOldest(una, buf, snd_nxt[p])
          /\ ParseHeader(p, ParseAck(buf, una, snd_nxt[p], sn))
          /\ maxack' = imax(maxack, sn)
  /\ UNCHANGED <<rcvVars, probe>>

\* ikcp_parse_data, when sn is in the receive window; a repeat leaves the buffer.
ParseData(p, sn, frag) ==
  MoveToQueue(p,
              [s \in DOMAIN rcv_buf[p] \cup {sn} |->
                 IF s \in DOMAIN rcv_buf[p] THEN rcv_buf[p][s] ELSE frag],
              rcv_queue[p])

\* Mutant of InputPush: a segment already taken is not acknowledged again.
InputPushOnce(p) ==
  /\ Parsing(p, "PUSH")
  /\ ParseHeader(p, ParseUna(p))
  /\ LET sn == Head(in_segs).sn
     IN \/ /\ sn >= rcv_nxt[p] + RcvWnd \/ sn < rcv_nxt[p]
           /\ UNCHANGED rcvVars
        \/ /\ sn < rcv_nxt[p] + RcvWnd /\ sn >= rcv_nxt[p]
           /\ acklist' = [acklist EXCEPT ![p] = Append(@, sn)]
           /\ ParseData(p, sn, Head(in_segs).frag)
  /\ UNCHANGED <<probe, maxack>>

InputPush(p) ==
  /\ Parsing(p, "PUSH")
  /\ ParseHeader(p, ParseUna(p))
  /\ LET sn == Head(in_segs).sn
     IN \/ /\ sn >= rcv_nxt[p] + RcvWnd
           /\ UNCHANGED rcvVars
        \/ /\ sn < rcv_nxt[p] + RcvWnd
           /\ acklist' = [acklist EXCEPT ![p] = Append(@, sn)]
           /\ \/ sn < rcv_nxt[p] /\ UNCHANGED <<rcv_queue, rcv_buf, rcv_nxt>>
              \/ sn >= rcv_nxt[p] /\ ParseData(p, sn, Head(in_segs).frag)
  /\ UNCHANGED <<probe, maxack>>

InputWask(p) ==
  /\ Parsing(p, "WASK")
  /\ ParseHeader(p, ParseUna(p))
  /\ probe' = [probe EXCEPT ![p] = @ \cup {"ASK_TELL"}]
  /\ UNCHANGED <<rcvVars, maxack>>

InputWins(p) ==
  /\ Parsing(p, "WINS")
  /\ ParseHeader(p, ParseUna(p))
  /\ UNCHANGED <<rcvVars, probe, maxack>>

\* ikcp_parse_fastack, with the largest sn acknowledged by this datagram
ParseFastack(p) ==
  IF maxack < snd_una[p] \/ maxack >= snd_nxt[p] THEN snd_buf[p]
  ELSE [sn \in DOMAIN snd_buf[p] |->
          IF sn < maxack
            THEN [frag |-> snd_buf[p][sn].frag, xmit |-> snd_buf[p][sn].xmit,
                  fastack |-> imin(snd_buf[p][sn].fastack + 1, FastResend)]
            ELSE snd_buf[p][sn]]

InputEnd(p) ==
  /\ in_call = p /\ in_segs = <<>>
  /\ snd_buf' = [snd_buf EXCEPT ![p] = ParseFastack(p)]
  /\ cc' = [cc EXCEPT
              ![p] = IF snd_una[p] > prev_una THEN CwndOnAck(@, rmt_wnd[p]) ELSE @]
  /\ in_call' = "none" /\ prev_una' = 0 /\ maxack' = -1
  /\ UNCHANGED <<sent, delivered, snd_queue, snd_nxt, snd_una, rcvVars, wndVars,
                 state, updated, in_segs, net, faults>>

InputStep(p) ==
  InputAck(p) \/ InputPush(p) \/ InputWask(p) \/ InputWins(p) \/ InputEnd(p)

-----------------------------------------------------------------------------
(* The network between the two UDP sockets *)

Fault(queue, p) ==
  /\ Idle /\ faults < MaxFaults
  /\ faults' = faults + 1
  /\ net' = [net EXCEPT ![p] = queue]
  /\ UNCHANGED <<sent, delivered, sndVars, rcvVars, wndVars, cc, state, updated, inVars>>

Lose(p) == \E i \in 1..Len(net[p]) : Fault(RemoveAt(net[p], i), p)

Duplicate(p) ==
  /\ Len(net[p]) < NetCap
  /\ \E i \in 1..Len(net[p]) : Fault(Append(net[p], net[p][i]), p)

Delay(p) ==
  \E i \in 1..(Len(net[p]) - 1) : Fault(Append(RemoveAt(net[p], i), net[p][i]), p)

-----------------------------------------------------------------------------
Next ==
  \E p \in Peer :
     \/ Send(p) \/ Recv(p) \/ Update(p)
     \/ InputBegin(p) \/ InputStep(p)
     \/ Lose(p) \/ Duplicate(p) \/ Delay(p)

Spec == Init /\ [][Next]_vars

(***************************************************************************)
(* Fairness.  The update thread calls ikcp_update for ever and the clock   *)
(* advances, so infinitely often a flush finds every timer run out; strong *)
(* fairness says that some of those flushes meet an empty socket buffer    *)
(* (the link is not congested for good).  The receive thread hands over    *)
(* every datagram that arrives and reads every complete message; these are *)
(* strong because the other peer's ikcp_input, which the model runs to its *)
(* end first, would otherwise disable them now and then.  Nothing obliges  *)
(* the user to send, and the network's faults are never obliged.           *)
(***************************************************************************)
FlushAll(p) == /\ net[Other(p)] = <<>>
               /\ FlushWith(p, DOMAIN snd_buf[p], TRUE)

FairSpec ==
  /\ Spec
  /\ \A p \in Peer : /\ SF_vars(FlushAll(p))
                     /\ SF_vars(InputBegin(p))
                     /\ WF_vars(InputStep(p))
                     /\ SF_vars(Recv(p))

-----------------------------------------------------------------------------
(* Properties *)

TypeOK ==
  /\ sent \in [Peer -> Seq(Fragment)] /\ delivered \in [Peer -> Seq(Fragment)]
  /\ snd_queue \in [Peer -> Seq(Fragment)] /\ rcv_queue \in [Peer -> Seq(Fragment)]
  /\ snd_nxt \in [Peer -> Nat] /\ snd_una \in [Peer -> Nat] /\ rcv_nxt \in [Peer -> Nat]
  /\ DOMAIN snd_buf = Peer /\ DOMAIN rcv_buf = Peer
  /\ \A p \in Peer :
       /\ DOMAIN snd_buf[p] \subseteq Nat /\ IsFiniteSet(DOMAIN snd_buf[p])
       /\ \A sn \in DOMAIN snd_buf[p] : snd_buf[p][sn] \in Pending
       /\ DOMAIN rcv_buf[p] \subseteq Nat
       /\ \A sn \in DOMAIN rcv_buf[p] : rcv_buf[p][sn] \in Fragment
  /\ acklist \in [Peer -> Seq(Nat)]
  /\ net \in [Peer -> Seq(Seq(Segment))]
  /\ rmt_wnd \in [Peer -> Nat] /\ cc \in [Peer -> Congestion]
  /\ probe \in [Peer -> SUBSET {"ASK_SEND", "ASK_TELL"}]
  /\ probe_wait \in [Peer -> BOOLEAN] /\ updated \in [Peer -> BOOLEAN]
  /\ state \in [Peer -> {0, -1}]
  /\ in_call \in Peer \cup {"none"}
  /\ in_segs \in Seq(Segment)
  /\ prev_una \in Nat /\ maxack \in Nat \cup {-1} /\ faults \in 0..MaxFaults

\* The receiver r has segment sn: delivered, queued for its user, or buffered.
Holds(r, sn) == sn < rcv_nxt[r] \/ sn \in DOMAIN rcv_buf[r]

(***************************************************************************)
(* No segment is ever forgotten: each one that was numbered is either kept *)
(* for retransmission or in the hands of the receiver.  This is what makes *)
(* it safe for ikcp_parse_ack and ikcp_parse_una to free segments on ACKs  *)
(* that are late, repeated or out of order.                                *)
(***************************************************************************)
NothingForgotten ==
  \A p \in Peer : \A sn \in 0..(snd_nxt[p] - 1) :
     sn \in DOMAIN snd_buf[p] \/ Holds(Other(p), sn)

(***************************************************************************)
(* snd_una, the base of the send window, is the oldest segment in snd_buf, *)
(* or snd_nxt when all are acknowledged, at every point where another      *)
(* function reads it.                                                      *)
(***************************************************************************)
OldestUnacked == \A p \in Peer : IsOldest(snd_una[p], snd_buf[p], snd_nxt[p])

(***************************************************************************)
(* Both windows hold whatever order acknowledgements and stale window      *)
(* advertisements arrive in: the sender never has more than snd_wnd        *)
(* segments between its oldest unacknowledged one and the next new one,    *)
(* and the receiver keeps at most rcv_wnd segments for its user and only   *)
(* segments of the current receive window beyond them.                     *)
(***************************************************************************)
WindowRespected ==
  \A p \in Peer :
     /\ snd_nxt[p] <= snd_una[p] + SndWnd
     /\ Len(rcv_queue[p]) <= RcvWnd
     /\ DOMAIN rcv_buf[p] \subseteq rcv_nxt[p]..(rcv_nxt[p] + RcvWnd - 1)

(***************************************************************************)
(* Once a control block has flushed, its congestion window is never empty  *)
(* again, whatever is lost or advertised: a window of 0 would stop the     *)
(* sender for good, as nothing but an acknowledgement makes it grow.       *)
(***************************************************************************)
CwndPositive == \A p \in Peer : updated[p] => cc[p].cwnd >= 1

(***************************************************************************)
(* KCP implements a pair of reliable ordered message channels: every       *)
(* ikcp_recv returns exactly the next message the other user sent, whole.  *)
(***************************************************************************)
Channel == INSTANCE KcpChannel WITH sent <- sent, delivered <- delivered
ImplementsChannel == Channel!Spec

(***************************************************************************)
(* Every fragment passed to ikcp_send is returned by the other side's      *)
(* ikcp_recv in the end, through losses, a closed window and a shrunken    *)
(* congestion window.                                                      *)
(***************************************************************************)
EventuallyDelivered ==
  \A p \in Peer : []<>(Len(delivered[Other(p)]) = Len(sent[p]))

(***************************************************************************)
(* The sender learns of it: ikcp_waitsnd returns to 0 again and again, so  *)
(* every retransmission timer is retired.                                  *)
(***************************************************************************)
EventuallyDrained ==
  \A p \in Peer : []<>(DOMAIN snd_buf[p] = {} /\ snd_queue[p] = <<>>)
=============================================================================
