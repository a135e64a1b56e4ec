--------------------------- MODULE KcpTypeProofs -----------------------------
(***************************************************************************)
(* Type correctness of Kcp, for any window sizes, resend settings and      *)
(* bounds, and facts about its operators that later proofs use as well.    *)
(***************************************************************************)
EXTENDS Kcp, TLAPS, SequenceTheorems, FiniteSetTheorems

-----------------------------------------------------------------------------
(* Facts about the operators *)

LEMMA OtherPeer ==
  ASSUME NEW p \in Peer
  PROVE  /\ Other(p) \in Peer /\ Other(p) # p /\ Other(Other(p)) = p
         /\ \A q \in Peer : q = p \/ q = Other(p)
         /\ p # "none"
BY DEF Peer, Other

LEMMA MinMax ==
  ASSUME NEW a \in Int, NEW b \in Int
  PROVE  /\ imin(a, b) \in Int /\ imin(a, b) <= a /\ imin(a, b) <= b
         /\ imin(a, b) = a \/ imin(a, b) = b
         /\ imax(a, b) \in Int /\ imax(a, b) >= a /\ imax(a, b) >= b
         /\ imax(a, b) = a \/ imax(a, b) = b
BY DEF imin, imax

\* The congestion window stays a record of naturals, and a flush leaves it positive.
LEMMA CwndOnAckType ==
  ASSUME NEW c \in Congestion, NEW w \in Nat
  PROVE  /\ CwndOnAck(c, w) \in Congestion
         /\ CwndOnAck(c, w).cwnd >= c.cwnd
<1>1. SlowStart(c) \in Congestion /\ SlowStart(c).cwnd >= c.cwnd
  BY MSSAssumption DEF SlowStart, Congestion
<1>2. CongestionAvoidance(c) \in Congestion /\ CongestionAvoidance(c).cwnd >= c.cwnd
  <2> DEFINE base == imax(c.incr, MSS)
             incr == base + (MSS * MSS) \div base + MSS \div 16
  <2>1. base \in Nat /\ base > 0
    BY MSSAssumption DEF imax, Congestion
  <2>2. (MSS * MSS) \div base \in Nat
    <3>1. MSS * MSS \in Nat BY MSSAssumption
    <3> QED BY <3>1, <2>1
  <2>3. MSS \div 16 \in Nat BY MSSAssumption
  <2>4. incr \in Nat BY <2>1, <2>2, <2>3
  <2>5. (incr + MSS - 1) \div MSS \in Nat
    <3> HIDE DEF incr
    <3> QED BY <2>4, MSSAssumption
  <2>6. (c.cwnd + 1) * MSS <= incr => (incr + MSS - 1) \div MSS >= c.cwnd
    <3> HIDE DEF incr
    <3> DEFINE m == (incr + MSS - 1) \div MSS
               r == (incr + MSS - 1) % MSS
    <3>1. c.cwnd \in Nat BY DEF Congestion
    <3>2. incr + MSS - 1 = MSS * m + r /\ r \in 0..(MSS - 1) /\ m \in Nat
      BY <2>4, <2>5, MSSAssumption
    <3> HIDE DEF m, r
    <3>3. (c.cwnd + 1) * MSS = MSS * c.cwnd + MSS BY <3>1, MSSAssumption
    <3>4. ASSUME (c.cwnd + 1) * MSS <= incr, m < c.cwnd PROVE FALSE
      <4>1. MSS * m <= MSS * c.cwnd BY <3>1, <3>2, <3>4, MSSAssumption
      <4>2. MSS * m \in Nat /\ MSS * c.cwnd \in Nat BY <3>1, <3>2, MSSAssumption
      <4> QED BY <4>1, <4>2, <3>1, <3>2, <3>3, <3>4, <2>4, MSSAssumption
    <3> QED BY <3>1, <3>2, <3>4 DEF m
  <2>7. CongestionAvoidance(c) =
          [cwnd |-> IF (c.cwnd + 1) * MSS <= incr
                      THEN (incr + MSS - 1) \div MSS ELSE c.cwnd,
           ssthresh |-> c.ssthresh,
           incr |-> incr]
    BY DEF CongestionAvoidance
  <2> HIDE DEF incr
  <2> QED BY <2>4, <2>5, <2>6, <2>7 DEF Congestion
<1>3. ASSUME NEW d \in Congestion, d.cwnd >= c.cwnd, c.cwnd < w
      PROVE  CapToRemote(d, w) \in Congestion /\ CapToRemote(d, w).cwnd >= c.cwnd
  <2>1. w * MSS \in Nat BY MSSAssumption
  <2> QED BY <1>3, <2>1 DEF CapToRemote, Congestion
<1>4. CASE c.cwnd >= w BY <1>4 DEF CwndOnAck, Congestion
<1>5. CASE c.cwnd < w /\ c.cwnd < c.ssthresh
  BY <1>1, <1>3, <1>5 DEF CwndOnAck, Congestion
<1>6. CASE c.cwnd < w /\ ~(c.cwnd < c.ssthresh)
  BY <1>2, <1>3, <1>6 DEF CwndOnAck, Congestion
<1> QED BY <1>4, <1>5, <1>6 DEF Congestion

LEMMA CwndOnFlushType ==
  ASSUME NEW c \in Congestion, NEW change \in BOOLEAN, NEW inflight \in Int,
         NEW resent \in Nat, NEW lost \in BOOLEAN, NEW window \in Int
  PROVE  /\ CwndOnFlush(c, change, inflight, resent, lost, window) \in Congestion
         /\ CwndOnFlush(c, change, inflight, resent, lost, window).cwnd >= 1
<1>1. \A n \in Int : imax(n \div 2, IKCP_THRESH_MIN) \in Nat
  BY ThreshAssumption DEF imax
<1>2. \A n \in Nat : n * MSS \in Nat BY MSSAssumption
<1>3. OnChange(c, inflight, resent) \in Congestion
  <2> DEFINE t == imax(inflight \div 2, IKCP_THRESH_MIN)
  <2>1. t \in Nat BY <1>1
  <2> HIDE DEF t
  <2>2. (t + resent) * MSS \in Nat BY <1>2, <2>1
  <2> QED BY <2>1, <2>2 DEF OnChange, Congestion, t
<1>4. OnLost(window) \in Congestion BY <1>1, MSSAssumption DEF OnLost, Congestion
<1>5. \A d \in Congestion : AtLeastOne(d) \in Congestion /\ AtLeastOne(d).cwnd >= 1
  BY MSSAssumption DEF AtLeastOne, Congestion
<1> QED BY <1>3, <1>4, <1>5 DEF CwndOnFlush

-----------------------------------------------------------------------------
(* Sequences of segments and datagrams over an arbitrary set S *)

LEMMA FunctionIsSeq ==
  ASSUME NEW S, NEW n \in Nat, NEW f \in [1..n -> S]
  PROVE  f \in Seq(S) /\ Len(f) = n
<1>1. f \in Seq(S) BY SeqDef
<1> QED BY <1>1, LenProperties

LEMMA DatagramsType ==
  ASSUME NEW S, NEW segs \in Seq(S)
  PROVE  Datagrams(segs) \in Seq(Seq(S))
<1> DEFINE n == (Len(segs) + MtuSegs - 1) \div MtuSegs
<1>1. Len(segs) \in Nat /\ MtuSegs \in Nat /\ MtuSegs > 0
  BY NetAssumption, LenProperties
<1>2. n \in Nat BY <1>1
<1>3. ASSUME NEW i \in 1..n
      PROVE  SubSeq(segs, (i - 1) * MtuSegs + 1, imin(i * MtuSegs, Len(segs))) \in Seq(S)
  <2>1. (i - 1) * MtuSegs \in Nat /\ i * MtuSegs \in Nat BY <1>1, <1>2
  <2>2. imin(i * MtuSegs, Len(segs)) \in Nat /\ imin(i * MtuSegs, Len(segs)) <= Len(segs)
    BY <2>1, <1>1 DEF imin
  <2> DEFINE a == (i - 1) * MtuSegs + 1
             b == imin(i * MtuSegs, Len(segs))
  <2>3. a \in Int /\ b \in Int /\ \A j \in a..b : j \in 1..Len(segs)
    BY <2>1, <2>2, <1>1
  <2>4. \A j \in 1..Len(segs) : segs[j] \in S BY ElementOfSeq
  <2> HIDE DEF a, b
  <2>5. SubSeq(segs, a, b) \in Seq(S) BY <2>3, <2>4, SubSeqProperties
  <2> QED BY <2>5 DEF a, b
<1> HIDE DEF n
<1>4. [i \in 1..n |->
         SubSeq(segs, (i - 1) * MtuSegs + 1, imin(i * MtuSegs, Len(segs)))] \in [1..n -> Seq(S)]
  BY <1>3
<1>5. Datagrams(segs) \in [1..n -> Seq(S)] BY <1>4 DEF Datagrams, n
<1> QED BY <1>2, <1>5, FunctionIsSeq

LEMMA DeliverableType ==
  ASSUME NEW S, NEW s \in Seq(S)
  PROVE  Deliverable(s) \in Seq(S)
<1>1. imin(Len(s), NetCap) \in Nat /\ imin(Len(s), NetCap) <= Len(s)
  BY NetAssumption, LenProperties DEF imin
<1> QED BY <1>1, SubSeqProperties, EmptySeq DEF Deliverable

LEMMA RemoveAtType ==
  ASSUME NEW S, NEW s \in Seq(S), NEW i \in 1..Len(s)
  PROVE  RemoveAt(s, i) \in Seq(S) /\ s[i] \in S
<1>1. SubSeq(s, 1, i - 1) \in Seq(S) /\ SubSeq(s, i + 1, Len(s)) \in Seq(S)
  BY SubSeqProperties, LenProperties
<1> QED BY <1>1, ConcatProperties, ElementOfSeq DEF RemoveAt

LEMMA AscendingType ==
  ASSUME NEW S, IsFiniteSet(S), NEW order \in Ascending(S)
  PROVE  order \in Seq(S)
<1>1. Cardinality(S) \in Nat BY FS_CardinalityType
<1> QED BY <1>1 DEF Ascending

-----------------------------------------------------------------------------
(* Type correctness *)

LEMMA FragmentsType ==
  ASSUME NEW msg \in Nat, NEW count \in Nat
  PROVE  /\ Fragments(msg, count) \in Seq(Fragment)
         /\ Len(Fragments(msg, count)) = count
         /\ \A i \in 1..count : Fragments(msg, count)[i] = [msg |-> msg, frg |-> count - i]
<1>1. Fragments(msg, count) \in [1..count -> Fragment] BY DEF Fragments, Fragment
<1>2. Fragments(msg, count) \in Seq(Fragment) /\ Len(Fragments(msg, count)) = count
  BY <1>1, FunctionIsSeq
<1> QED BY <1>2 DEF Fragments

LEMMA InitType == Init => TypeOK
<1> SUFFICES ASSUME Init PROVE TypeOK
  OBVIOUS
<1>1. CongestionInit \in Congestion BY ThreshAssumption DEF CongestionInit, Congestion
<1>2. IKCP_WND_RCV \in Nat BY WndRcvAssumption
<1>3. \A p \in Peer : DOMAIN snd_buf[p] = {} /\ DOMAIN rcv_buf[p] = {} BY DEF Init
<1> QED BY <1>1, <1>2, <1>3, EmptySeq, FS_EmptySet, NetAssumption DEF Init, TypeOK

LEMMA SendType ==
  ASSUME TypeOK, NEW p \in Peer, Send(p)
  PROVE  TypeOK'
<1>1. PICK count \in 1..(IKCP_WND_RCV - 1) :
        /\ sent' = [sent EXCEPT ![p] = @ \o Fragments(Len(sent[p]), count)]
        /\ snd_queue' = [snd_queue EXCEPT ![p] = @ \o Fragments(Len(sent[p]), count)]
  BY DEF Send
<1>2. Len(sent[p]) \in Nat /\ count \in Nat
  BY LenProperties, WndRcvAssumption DEF TypeOK
<1>3. Fragments(Len(sent[p]), count) \in Seq(Fragment) BY <1>2, FragmentsType
<1>4. sent' \in [Peer -> Seq(Fragment)] /\ snd_queue' \in [Peer -> Seq(Fragment)]
  BY <1>1, <1>3, ConcatProperties DEF TypeOK
<1> QED BY <1>4 DEF Send, TypeOK, rcvVars, wndVars, inVars

LEMMA MoveToQueueType ==
  ASSUME TypeOK, NEW p \in Peer, NEW buf, NEW queue \in Seq(Fragment),
         DOMAIN buf \subseteq Nat, \A sn \in DOMAIN buf : buf[sn] \in Fragment,
         MoveToQueue(p, buf, queue)
  PROVE  /\ rcv_queue' \in [Peer -> Seq(Fragment)]
         /\ rcv_nxt' \in [Peer -> Nat]
         /\ DOMAIN rcv_buf' = Peer
         /\ \A q \in Peer : /\ DOMAIN rcv_buf'[q] \subseteq Nat
                            /\ \A sn \in DOMAIN rcv_buf'[q] : rcv_buf'[q][sn] \in Fragment
<1>1. PICK k \in 0..(RcvWnd - Len(queue)) :
        /\ Moves(buf, rcv_nxt[p], RcvWnd - Len(queue), k)
        /\ rcv_queue' = [rcv_queue EXCEPT
                           ![p] = queue \o [i \in 1..k |-> buf[rcv_nxt[p] + i - 1]]]
        /\ rcv_buf' = [rcv_buf EXCEPT
                         ![p] = Restrict(buf, DOMAIN buf \ rcv_nxt[p]..(rcv_nxt[p] + k - 1))]
        /\ rcv_nxt' = [rcv_nxt EXCEPT ![p] = @ + k]
  BY DEF MoveToQueue
<1>2. k \in Nat /\ rcv_nxt[p] \in Nat BY DEF TypeOK
<1>3. \A i \in 1..k : buf[rcv_nxt[p] + i - 1] \in Fragment
  BY <1>1, <1>2 DEF Moves
<1>4. [i \in 1..k |-> buf[rcv_nxt[p] + i - 1]] \in Seq(Fragment)
  BY <1>2, <1>3
<1>5. rcv_queue' \in [Peer -> Seq(Fragment)]
  BY <1>1, <1>4, ConcatProperties DEF TypeOK
<1>6. rcv_nxt' \in [Peer -> Nat] BY <1>1, <1>2 DEF TypeOK
<1>7. /\ DOMAIN rcv_buf' = Peer
      /\ rcv_buf'[p] = Restrict(buf, DOMAIN buf \ rcv_nxt[p]..(rcv_nxt[p] + k - 1))
      /\ \A q \in Peer : q # p => rcv_buf'[q] = rcv_buf[q]
  BY <1>1 DEF TypeOK
<1>8. /\ DOMAIN rcv_buf'[p] \subseteq Nat
      /\ \A sn \in DOMAIN rcv_buf'[p] : rcv_buf'[p][sn] \in Fragment
  BY <1>7 DEF Restrict
<1> QED BY <1>5, <1>6, <1>7, <1>8 DEF TypeOK

LEMMA SplitQueue ==
  ASSUME NEW S, NEW queue \in Seq(S), NEW n \in 1..Len(queue)
  PROVE  /\ SubSeq(queue, 1, n) \in Seq(S) /\ Len(SubSeq(queue, 1, n)) = n
         /\ SubSeq(queue, n + 1, Len(queue)) \in Seq(S)
         /\ Len(SubSeq(queue, n + 1, Len(queue))) = Len(queue) - n
         /\ \A i \in 1..n : SubSeq(queue, 1, n)[i] = queue[i]
         /\ \A i \in 1..(Len(queue) - n) : SubSeq(queue, n + 1, Len(queue))[i] = queue[n + i]
<1>1. Len(queue) \in Nat /\ n \in Nat BY LenProperties
<1>2. \A j \in 1..Len(queue) : queue[j] \in S BY ElementOfSeq
<1>3. /\ SubSeq(queue, 1, n) \in Seq(S) /\ Len(SubSeq(queue, 1, n)) = n
      /\ \A i \in 1..n : SubSeq(queue, 1, n)[i] = queue[i]
  BY <1>1, <1>2, SubSeqProperties
<1>4. /\ SubSeq(queue, n + 1, Len(queue)) \in Seq(S)
      /\ Len(SubSeq(queue, n + 1, Len(queue))) = Len(queue) - n
      /\ \A i \in 1..(Len(queue) - n) : SubSeq(queue, n + 1, Len(queue))[i] = queue[n + 1 + i - 1]
  BY <1>1, <1>2, SubSeqProperties
<1> QED BY <1>1, <1>3, <1>4

LEMMA RecvType ==
  ASSUME TypeOK, NEW p \in Peer, Recv(p)
  PROVE  TypeOK'
<1> DEFINE queue == rcv_queue[p]
<1>1. queue \in Seq(Fragment) BY DEF TypeOK
<1>2. PICK n \in 1..Len(queue) :
        /\ delivered' = [delivered EXCEPT ![p] = @ \o SubSeq(queue, 1, n)]
        /\ MoveToQueue(p, rcv_buf[p], SubSeq(queue, n + 1, Len(queue)))
  BY DEF Recv
<1>3. /\ SubSeq(queue, 1, n) \in Seq(Fragment)
      /\ SubSeq(queue, n + 1, Len(queue)) \in Seq(Fragment)
  BY <1>1, SplitQueue
<1>4. delivered' \in [Peer -> Seq(Fragment)]
  BY <1>2, <1>3, ConcatProperties DEF TypeOK
<1>5. DOMAIN rcv_buf[p] \subseteq Nat /\ \A sn \in DOMAIN rcv_buf[p] : rcv_buf[p][sn] \in Fragment
  BY DEF TypeOK
<1>6. /\ rcv_queue' \in [Peer -> Seq(Fragment)]
      /\ rcv_nxt' \in [Peer -> Nat]
      /\ DOMAIN rcv_buf' = Peer
      /\ \A q \in Peer : /\ DOMAIN rcv_buf'[q] \subseteq Nat
                         /\ \A sn \in DOMAIN rcv_buf'[q] : rcv_buf'[q][sn] \in Fragment
  BY <1>2, <1>3, <1>5, MoveToQueueType
<1>7. probe' \in [Peer -> SUBSET {"ASK_SEND", "ASK_TELL"}]
  BY DEF Recv, TypeOK
<1> QED BY <1>4, <1>6, <1>7 DEF Recv, TypeOK, sndVars, inVars

\* Any segment set G that holds what p builds holds all a flush of p outputs.
LEMMA FlushOutput ==
  ASSUME NEW p \in Peer, NEW G, NEW probes, NEW buf, NEW S, NEW order \in Seq(S),
         acklist[p] \in Seq(Nat),
         \A i \in 1..Len(acklist[p]) : Seg(p, "ACK", acklist[p][i], NoFrag) \in G,
         Seg(p, "WASK", 0, NoFrag) \in G, Seg(p, "WINS", 0, NoFrag) \in G,
         \A sn \in S : Seg(p, "PUSH", sn, buf[sn].frag) \in G
  PROVE  Datagrams(AckSegs(p) \o ProbeSegs(p, probes) \o PushSegs(p, buf, order))
           \in Seq(Seq(G))
<1>1. AckSegs(p) \in Seq(G)
  <2>1. Len(acklist[p]) \in Nat BY LenProperties
  <2>2. AckSegs(p) \in [1..Len(acklist[p]) -> G] BY DEF AckSegs
  <2> QED BY <2>1, <2>2, FunctionIsSeq
<1>2. ProbeSegs(p, probes) \in Seq(G)
  <2>1. <<Seg(p, "WASK", 0, NoFrag)>> \in Seq(G) /\ <<Seg(p, "WINS", 0, NoFrag)>> \in Seq(G)
    OBVIOUS
  <2> QED BY <2>1, EmptySeq, ConcatProperties DEF ProbeSegs
<1>3. PushSegs(p, buf, order) \in Seq(G)
  <2>1. Len(order) \in Nat BY LenProperties
  <2>2. \A i \in 1..Len(order) : order[i] \in S BY ElementOfSeq
  <2>3. PushSegs(p, buf, order) \in [1..Len(order) -> G] BY <2>2 DEF PushSegs
  <2> QED BY <2>1, <2>3, FunctionIsSeq
<1>4. AckSegs(p) \o ProbeSegs(p, probes) \o PushSegs(p, buf, order) \in Seq(G)
  BY <1>1, <1>2, <1>3, ConcatProperties
<1> QED BY <1>4, DatagramsType

\* The numbers a flush gives out.
LEMMA FreshFacts ==
  ASSUME TypeOK, NEW p \in Peer
  PROVE  /\ FlushWindow(p) \in Nat /\ FlushWindow(p) <= SndWnd
         /\ FreshCount(p) \in Nat /\ FreshCount(p) <= Len(snd_queue[p])
         /\ FreshCount(p) > 0 => snd_nxt[p] + FreshCount(p) <= snd_una[p] + SndWnd
         /\ Fresh(p) = snd_nxt[p]..(snd_nxt[p] + FreshCount(p) - 1)
         /\ Fresh(p) \subseteq Nat /\ IsFiniteSet(Fresh(p))
<1>1. /\ snd_nxt[p] \in Nat /\ snd_una[p] \in Nat /\ rmt_wnd[p] \in Nat
      /\ cc[p].cwnd \in Nat /\ Len(snd_queue[p]) \in Nat
  BY LenProperties DEF TypeOK, Congestion
<1>2. FlushWindow(p) \in Nat /\ FlushWindow(p) <= SndWnd
  BY <1>1, WndAssumption DEF FlushWindow, imin
<1>3. /\ FreshCount(p) \in Nat /\ FreshCount(p) <= Len(snd_queue[p])
      /\ FreshCount(p) > 0 => snd_nxt[p] + FreshCount(p) <= snd_una[p] + SndWnd
  <2> DEFINE x == snd_una[p] + FlushWindow(p) - snd_nxt[p]
  <2>1. x \in Int /\ snd_nxt[p] + x <= snd_una[p] + SndWnd
    BY <1>1, <1>2, WndAssumption
  <2>2. FreshCount(p) = imin(Len(snd_queue[p]), imax(0, x)) BY DEF FreshCount
  <2> HIDE DEF x
  <2> QED BY <2>1, <2>2, <1>1, WndAssumption DEF imin, imax
<1>4. Fresh(p) \subseteq Nat BY <1>1, <1>3 DEF Fresh
<1>5. IsFiniteSet(Fresh(p))
  <2>1. snd_nxt[p] \in Int /\ snd_nxt[p] + FreshCount(p) - 1 \in Int BY <1>1, <1>3
  <2> QED BY <2>1, FS_Interval DEF Fresh
<1> QED BY <1>2, <1>3, <1>4, <1>5 DEF Fresh

\* What a flush leaves in snd_buf.
LEMMA FlushedBufFacts ==
  ASSUME TypeOK, NEW p \in Peer, NEW due \in SUBSET DOMAIN snd_buf[p]
  PROVE  LET fast == FastDue(p, due)
             buf == FlushedBuf(p, due, fast)
         IN  /\ DOMAIN buf = DOMAIN snd_buf[p] \cup Fresh(p)
             /\ DOMAIN buf \subseteq Nat /\ IsFiniteSet(DOMAIN buf)
             /\ due \cup fast \cup Fresh(p) \subseteq DOMAIN buf
             /\ \A sn \in DOMAIN buf : buf[sn] \in Pending
             /\ \A sn \in Fresh(p) : buf[sn].frag = snd_queue[p][sn - snd_nxt[p] + 1]
             /\ \A sn \in DOMAIN snd_buf[p] \ Fresh(p) : buf[sn].frag = snd_buf[p][sn].frag
<1> DEFINE fast == FastDue(p, due)
           buf == FlushedBuf(p, due, fast)
<1>1. DOMAIN buf = DOMAIN snd_buf[p] \cup Fresh(p) BY DEF FlushedBuf
<1>2. DOMAIN buf \subseteq Nat /\ IsFiniteSet(DOMAIN buf)
  <2>1. Fresh(p) \subseteq Nat /\ IsFiniteSet(Fresh(p)) BY FreshFacts
  <2>2. DOMAIN snd_buf[p] \subseteq Nat /\ IsFiniteSet(DOMAIN snd_buf[p]) BY DEF TypeOK
  <2> HIDE DEF buf
  <2> QED BY <1>1, <2>1, <2>2, FS_Union
<1>3. due \cup fast \cup Fresh(p) \subseteq DOMAIN buf BY <1>1 DEF FastDue
<1>4. \A x \in Nat : BumpXmit(x) \in Nat
  BY ResendAssumption DEF BumpXmit, XmitCap, imin, imax
<1>5. \A sn \in Fresh(p) : snd_queue[p][sn - snd_nxt[p] + 1] \in Fragment
  <2>1. snd_queue[p] \in Seq(Fragment) /\ snd_nxt[p] \in Nat /\ Len(snd_queue[p]) \in Nat
    BY LenProperties DEF TypeOK
  <2>2. \A sn \in Fresh(p) : sn - snd_nxt[p] + 1 \in 1..Len(snd_queue[p])
    BY <2>1, FreshFacts
  <2> QED BY <2>1, <2>2, ElementOfSeq
<1>6. ASSUME NEW sn \in Fresh(p)
      PROVE  buf[sn] \in Pending /\ buf[sn].frag = snd_queue[p][sn - snd_nxt[p] + 1]
  <2>1. buf[sn] = [frag |-> snd_queue[p][sn - snd_nxt[p] + 1],
                   xmit |-> BumpXmit(0), fastack |-> 0]
    BY <1>6 DEF FlushedBuf
  <2> HIDE DEF buf
  <2> QED BY <2>1, <1>4, <1>5 DEF Pending
<1>7. ASSUME NEW sn \in DOMAIN snd_buf[p] \ Fresh(p)
      PROVE  buf[sn] \in Pending /\ buf[sn].frag = snd_buf[p][sn].frag
  <2>1. snd_buf[p][sn] \in Pending BY DEF TypeOK
  <2>2. \/ buf[sn] = Resent(snd_buf[p][sn], snd_buf[p][sn].fastack)
        \/ buf[sn] = Resent(snd_buf[p][sn], 0)
        \/ buf[sn] = snd_buf[p][sn]
    BY <1>7 DEF FlushedBuf
  <2> HIDE DEF buf
  <2> QED BY <2>1, <2>2, <1>4 DEF Pending, Resent
<1> QED BY <1>1, <1>2, <1>3, <1>6, <1>7

LEMMA FlushType ==
  ASSUME TypeOK, NEW p \in Peer, NEW due \in SUBSET DOMAIN snd_buf[p],
         NEW timeout \in BOOLEAN, FlushWith(p, due, timeout)
  PROVE  TypeOK'
<1> DEFINE fast == FastDue(p, due)
           buf == FlushedBuf(p, due, fast)
           out == due \cup fast \cup Fresh(p)
           probes == ProbesToSend(p, timeout)
<1>1. PICK order \in Ascending(out) :
        net' = [net EXCEPT ![Other(p)] =
                  Deliverable(@ \o Datagrams(AckSegs(p) \o ProbeSegs(p, probes)
                                             \o PushSegs(p, buf, order)))]
  BY DEF FlushWith
<1>2. /\ DOMAIN buf \subseteq Nat /\ IsFiniteSet(DOMAIN buf)
      /\ out \subseteq DOMAIN buf /\ \A sn \in DOMAIN buf : buf[sn] \in Pending
  BY FlushedBufFacts
<1>3. /\ snd_buf' = [snd_buf EXCEPT ![p] = buf]
      /\ snd_queue' = [snd_queue EXCEPT ![p] = SubSeq(@, FreshCount(p) + 1, Len(@))]
      /\ snd_nxt' = [snd_nxt EXCEPT ![p] = @ + FreshCount(p)]
      /\ cc' = [cc EXCEPT ![p] = CwndOnFlush(@, fast # {}, snd_nxt'[p] - snd_una[p],
                                             FastResend, due # {}, FlushWindow(p))]
      /\ state' = [state EXCEPT
                     ![p] = IF \E sn \in out : buf[sn].xmit >= DeadLink THEN -1 ELSE @]
  BY DEF FlushWith
<1> HIDE DEF buf, out, fast, probes
<1>4. order \in Seq(out)
  <2>1. IsFiniteSet(out) BY <1>2, FS_Subset
  <2> QED BY <2>1, AscendingType
<1>5. \A cmd \in Cmd : \A sn \in Nat : \A f \in Fragment : Seg(p, cmd, sn, f) \in Segment
  <2>1. WndUnused(p) \in Nat
    BY WndAssumption, LenProperties DEF WndUnused, TypeOK
  <2>2. WndUnused(p) % 65536 \in Nat BY <2>1
  <2> QED BY <2>2 DEF Seg, Segment, TypeOK
<1>6. Datagrams(AckSegs(p) \o ProbeSegs(p, probes) \o PushSegs(p, buf, order))
        \in Seq(Seq(Segment))
  <2>1. NoFrag \in Fragment BY DEF NoFrag, Fragment
  <2>2. acklist[p] \in Seq(Nat) /\ \A i \in 1..Len(acklist[p]) : acklist[p][i] \in Nat
    BY ElementOfSeq DEF TypeOK
  <2>3. \A sn \in out : sn \in Nat /\ buf[sn].frag \in Fragment
    BY <1>2 DEF Pending
  <2> QED BY <1>4, <1>5, <2>1, <2>2, <2>3, FlushOutput DEF Cmd
<1>7. net' \in [Peer -> Seq(Seq(Segment))]
  <2>1. net[Other(p)] \in Seq(Seq(Segment)) BY OtherPeer DEF TypeOK
  <2>2. Deliverable(net[Other(p)] \o Datagrams(AckSegs(p) \o ProbeSegs(p, probes)
                                             \o PushSegs(p, buf, order)))
          \in Seq(Seq(Segment))
    BY <2>1, <1>6, ConcatProperties, DeliverableType
  <2> QED BY <1>1, <2>2 DEF TypeOK
<1>8. snd_queue' \in [Peer -> Seq(Fragment)]
  <2>1. snd_queue[p] \in Seq(Fragment) BY DEF TypeOK
  <2>2. \A j \in (FreshCount(p) + 1)..Len(snd_queue[p]) : snd_queue[p][j] \in Fragment
    BY <2>1, FreshFacts, ElementOfSeq
  <2>3. SubSeq(snd_queue[p], FreshCount(p) + 1, Len(snd_queue[p])) \in Seq(Fragment)
    BY <2>1, <2>2, FreshFacts, SubSeqProperties, LenProperties
  <2> QED BY <1>3, <2>3 DEF TypeOK
<1>9. snd_nxt' \in [Peer -> Nat]
  <2>1. FreshCount(p) \in Nat BY FreshFacts
  <2>2. snd_nxt \in [Peer -> Nat] BY DEF TypeOK
  <2>3. snd_nxt' = [snd_nxt EXCEPT ![p] = @ + FreshCount(p)] BY <1>3
  <2> QED BY <2>1, <2>2, <2>3
<1>10. /\ DOMAIN snd_buf' = Peer
       /\ \A q \in Peer : /\ DOMAIN snd_buf'[q] \subseteq Nat /\ IsFiniteSet(DOMAIN snd_buf'[q])
                          /\ \A sn \in DOMAIN snd_buf'[q] : snd_buf'[q][sn] \in Pending
  BY <1>2, <1>3 DEF TypeOK
<1>11. cc' \in [Peer -> Congestion]
  <2>1. snd_nxt'[p] - snd_una[p] \in Int BY <1>9 DEF TypeOK
  <2>2. cc[p] \in Congestion BY DEF TypeOK
  <2>3. FlushWindow(p) \in Int BY FreshFacts
  <2>4. CwndOnFlush(cc[p], fast # {}, snd_nxt'[p] - snd_una[p], FastResend, due # {},
                    FlushWindow(p)) \in Congestion
    BY <2>1, <2>2, <2>3, CwndOnFlushType, ResendAssumption
  <2> QED BY <1>3, <2>4 DEF TypeOK
<1>12. state' \in [Peer -> {0, -1}] BY <1>3 DEF TypeOK
<1>13. acklist' \in [Peer -> Seq(Nat)] BY EmptySeq DEF TypeOK, FlushWith
<1>14. /\ probe' \in [Peer -> SUBSET {"ASK_SEND", "ASK_TELL"}]
       /\ probe_wait' \in [Peer -> BOOLEAN] /\ updated' \in [Peer -> BOOLEAN]
  BY DEF TypeOK, FlushWith
<1>15. UNCHANGED <<sent, delivered, snd_una, rcv_queue, rcv_buf, rcv_nxt, rmt_wnd, inVars,
                   faults>>
  BY DEF FlushWith
<1> QED BY <1>7, <1>8, <1>9, <1>10, <1>11, <1>12, <1>13, <1>14, <1>15 DEF TypeOK, inVars

LEMMA InputBeginType ==
  ASSUME TypeOK, NEW p \in Peer, InputBegin(p)
  PROVE  TypeOK'
<1>1. net[p] \in Seq(Seq(Segment)) /\ net[p] # <<>> BY DEF TypeOK, InputBegin
<1>2. Head(net[p]) \in Seq(Segment) /\ Tail(net[p]) \in Seq(Seq(Segment))
  BY <1>1, HeadTailProperties
<1>3. in_segs' \in Seq(Segment) /\ net' \in [Peer -> Seq(Seq(Segment))]
  BY <1>2 DEF TypeOK, InputBegin
<1>4. in_call' \in Peer \cup {"none"} /\ prev_una' \in Nat /\ maxack' \in Nat \cup {-1}
  BY DEF TypeOK, InputBegin
<1> QED BY <1>3, <1>4 DEF TypeOK, InputBegin, sndVars, rcvVars, wndVars

\* What the common part of a segment's treatment leaves behind, for any buf
\* that keeps some of snd_buf.
LEMMA ParseHeaderType ==
  ASSUME TypeOK, NEW p \in Peer, NEW buf, in_segs # <<>>,
         DOMAIN buf \subseteq DOMAIN snd_buf[p],
         \A sn \in DOMAIN buf : buf[sn] = snd_buf[p][sn],
         ParseHeader(p, buf)
  PROVE  /\ rmt_wnd' \in [Peer -> Nat] /\ snd_una' \in [Peer -> Nat]
         /\ DOMAIN snd_buf' = Peer
         /\ \A q \in Peer : /\ DOMAIN snd_buf'[q] \subseteq Nat /\ IsFiniteSet(DOMAIN snd_buf'[q])
                            /\ \A sn \in DOMAIN snd_buf'[q] : snd_buf'[q][sn] \in Pending
         /\ in_segs' \in Seq(Segment) /\ Head(in_segs) \in Segment
<1>1. Head(in_segs) \in Segment /\ Tail(in_segs) \in Seq(Segment)
  BY HeadTailProperties DEF TypeOK
<1>2. rmt_wnd' \in [Peer -> Nat] /\ in_segs' \in Seq(Segment)
  BY <1>1 DEF TypeOK, ParseHeader, Segment
<1>3. DOMAIN buf \subseteq Nat /\ IsFiniteSet(DOMAIN buf) /\ \A sn \in DOMAIN buf : buf[sn] \in Pending
  BY FS_Subset DEF TypeOK
<1>4. snd_buf' = [snd_buf EXCEPT ![p] = buf] BY DEF ParseHeader
<1>5. snd_una' \in [Peer -> Nat]
  <2>1. PICK una \in DOMAIN buf \cup {snd_nxt[p]} : snd_una' = [snd_una EXCEPT ![p] = una]
    BY DEF ParseHeader, ShrinkBuf
  <2>2. una \in Nat BY <1>3 DEF TypeOK
  <2> QED BY <2>1, <2>2 DEF TypeOK
<1> QED BY <1>1, <1>2, <1>3, <1>4, <1>5 DEF TypeOK

LEMMA ParseUnaFacts ==
  ASSUME NEW p \in Peer
  PROVE  /\ DOMAIN ParseUna(p) = {sn \in DOMAIN snd_buf[p] : sn >= Head(in_segs).una}
         /\ \A sn \in DOMAIN ParseUna(p) : ParseUna(p)[sn] = snd_buf[p][sn]
BY DEF ParseUna, Restrict

LEMMA ParseAckFacts ==
  ASSUME NEW buf, NEW una, NEW nxt, NEW sn
  PROVE  /\ DOMAIN ParseAck(buf, una, nxt, sn) \subseteq DOMAIN buf
         /\ DOMAIN buf \subseteq DOMAIN ParseAck(buf, una, nxt, sn) \cup {sn}
         /\ \A s \in DOMAIN ParseAck(buf, una, nxt, sn) :
               ParseAck(buf, una, nxt, sn)[s] = buf[s]
BY DEF ParseAck, Restrict

LEMMA InputAckType ==
  ASSUME TypeOK, NEW p \in Peer, InputAck(p)
  PROVE  TypeOK'
<1>1. PICK una \in DOMAIN ParseUna(p) \cup {snd_nxt[p]} :
        /\ ParseHeader(p, ParseAck(ParseUna(p), una, snd_nxt[p], Head(in_segs).sn))
        /\ maxack' = imax(maxack, Head(in_segs).sn)
  BY DEF InputAck
<1> DEFINE buf == ParseAck(ParseUna(p), una, snd_nxt[p], Head(in_segs).sn)
<1>2. /\ DOMAIN buf \subseteq DOMAIN snd_buf[p]
      /\ \A sn \in DOMAIN buf : buf[sn] = snd_buf[p][sn]
  <2>1. /\ DOMAIN ParseUna(p) \subseteq DOMAIN snd_buf[p]
        /\ \A sn \in DOMAIN ParseUna(p) : ParseUna(p)[sn] = snd_buf[p][sn]
    BY ParseUnaFacts
  <2>2. /\ DOMAIN buf \subseteq DOMAIN ParseUna(p)
        /\ \A sn \in DOMAIN buf : buf[sn] = ParseUna(p)[sn]
    BY ParseAckFacts
  <2> HIDE DEF buf
  <2> QED BY <2>1, <2>2
<1>3. in_segs # <<>> BY DEF InputAck, Parsing
<1> HIDE DEF buf
<1>4. ParseHeader(p, buf) BY <1>1 DEF buf
<1>5. /\ rmt_wnd' \in [Peer -> Nat] /\ snd_una' \in [Peer -> Nat]
      /\ DOMAIN snd_buf' = Peer
      /\ \A q \in Peer : /\ DOMAIN snd_buf'[q] \subseteq Nat /\ IsFiniteSet(DOMAIN snd_buf'[q])
                         /\ \A sn \in DOMAIN snd_buf'[q] : snd_buf'[q][sn] \in Pending
      /\ in_segs' \in Seq(Segment) /\ Head(in_segs) \in Segment
  BY <1>2, <1>3, <1>4, ParseHeaderType
<1>6. maxack' \in Nat \cup {-1} BY <1>1, <1>5 DEF TypeOK, Segment, imax
<1> QED BY <1>4, <1>5, <1>6 DEF TypeOK, InputAck, ParseHeader, rcvVars

\* The other three commands leave snd_buf as ikcp_parse_una does.
LEMMA ParseHeaderUnaType ==
  ASSUME TypeOK, NEW p \in Peer, in_segs # <<>>, ParseHeader(p, ParseUna(p))
  PROVE  /\ rmt_wnd' \in [Peer -> Nat] /\ snd_una' \in [Peer -> Nat]
         /\ DOMAIN snd_buf' = Peer
         /\ \A q \in Peer : /\ DOMAIN snd_buf'[q] \subseteq Nat /\ IsFiniteSet(DOMAIN snd_buf'[q])
                            /\ \A sn \in DOMAIN snd_buf'[q] : snd_buf'[q][sn] \in Pending
         /\ in_segs' \in Seq(Segment) /\ Head(in_segs) \in Segment
BY ParseUnaFacts, ParseHeaderType

LEMMA InputPushType ==
  ASSUME TypeOK, NEW p \in Peer, InputPush(p)
  PROVE  TypeOK'
<1> DEFINE seg == Head(in_segs)
<1>1. /\ in_segs # <<>> /\ ParseHeader(p, ParseUna(p)) /\ UNCHANGED <<probe, maxack>>
  BY DEF InputPush, Parsing
<1>2. /\ rmt_wnd' \in [Peer -> Nat] /\ snd_una' \in [Peer -> Nat]
      /\ DOMAIN snd_buf' = Peer
      /\ \A q \in Peer : /\ DOMAIN snd_buf'[q] \subseteq Nat /\ IsFiniteSet(DOMAIN snd_buf'[q])
                         /\ \A sn \in DOMAIN snd_buf'[q] : snd_buf'[q][sn] \in Pending
      /\ in_segs' \in Seq(Segment) /\ seg \in Segment
  BY <1>1, ParseHeaderUnaType
<1>3. /\ acklist' \in [Peer -> Seq(Nat)] /\ rcv_queue' \in [Peer -> Seq(Fragment)]
      /\ rcv_nxt' \in [Peer -> Nat] /\ DOMAIN rcv_buf' = Peer
      /\ \A q \in Peer : /\ DOMAIN rcv_buf'[q] \subseteq Nat
                         /\ \A sn \in DOMAIN rcv_buf'[q] : rcv_buf'[q][sn] \in Fragment
  <2>1. CASE UNCHANGED rcvVars BY <2>1 DEF rcvVars, TypeOK
  <2>2. ASSUME acklist' = [acklist EXCEPT ![p] = Append(@, seg.sn)]
        PROVE  acklist' \in [Peer -> Seq(Nat)]
    <3>1. seg.sn \in Nat BY <1>2 DEF Segment
    <3> QED BY <2>2, <3>1, AppendProperties DEF TypeOK
  <2>3. CASE /\ acklist' = [acklist EXCEPT ![p] = Append(@, seg.sn)]
             /\ UNCHANGED <<rcv_queue, rcv_buf, rcv_nxt>>
    BY <2>2, <2>3 DEF TypeOK
  <2>4. CASE /\ acklist' = [acklist EXCEPT ![p] = Append(@, seg.sn)]
             /\ ParseData(p, seg.sn, seg.frag)
    <3> DEFINE buf == [s \in DOMAIN rcv_buf[p] \cup {seg.sn} |->
                         IF s \in DOMAIN rcv_buf[p] THEN rcv_buf[p][s] ELSE seg.frag]
    <3>1. DOMAIN buf \subseteq Nat /\ \A sn \in DOMAIN buf : buf[sn] \in Fragment
      BY <1>2 DEF Segment, TypeOK
    <3>2. MoveToQueue(p, buf, rcv_queue[p]) BY <2>4 DEF ParseData
    <3>3. rcv_queue[p] \in Seq(Fragment) BY DEF TypeOK
    <3> HIDE DEF buf
    <3> QED BY <3>1, <3>2, <3>3, <2>2, <2>4, MoveToQueueType
  <2> QED BY <2>1, <2>3, <2>4 DEF InputPush
<1> QED BY <1>1, <1>2, <1>3 DEF TypeOK, ParseHeader

LEMMA InputProbeType ==
  ASSUME TypeOK, NEW p \in Peer, InputWask(p) \/ InputWins(p)
  PROVE  TypeOK'
<1>1. in_segs # <<>> /\ ParseHeader(p, ParseUna(p)) /\ UNCHANGED <<rcvVars, maxack>>
  BY DEF InputWask, InputWins, Parsing
<1>2. /\ rmt_wnd' \in [Peer -> Nat] /\ snd_una' \in [Peer -> Nat]
      /\ DOMAIN snd_buf' = Peer
      /\ \A q \in Peer : /\ DOMAIN snd_buf'[q] \subseteq Nat /\ IsFiniteSet(DOMAIN snd_buf'[q])
                         /\ \A sn \in DOMAIN snd_buf'[q] : snd_buf'[q][sn] \in Pending
      /\ in_segs' \in Seq(Segment)
  BY <1>1, ParseHeaderUnaType
<1>3. probe' \in [Peer -> SUBSET {"ASK_SEND", "ASK_TELL"}]
  <2>1. probe \in [Peer -> SUBSET {"ASK_SEND", "ASK_TELL"}] BY DEF TypeOK
  <2>2. probe' = probe \/ probe' = [probe EXCEPT ![p] = @ \cup {"ASK_TELL"}]
    BY DEF InputWask, InputWins
  <2> QED BY <2>1, <2>2
<1> QED BY <1>1, <1>2, <1>3 DEF TypeOK, ParseHeader, rcvVars

LEMMA ParseFastackFacts ==
  ASSUME TypeOK, NEW p \in Peer
  PROVE  /\ DOMAIN ParseFastack(p) = DOMAIN snd_buf[p]
         /\ \A sn \in DOMAIN snd_buf[p] :
              ParseFastack(p)[sn] \in Pending /\ ParseFastack(p)[sn].frag = snd_buf[p][sn].frag
<1>1. \A n \in Nat : imin(n + 1, FastResend) \in Nat BY ResendAssumption DEF imin
<1>2. \A sn \in DOMAIN snd_buf[p] : snd_buf[p][sn] \in Pending BY DEF TypeOK
<1> QED BY <1>1, <1>2 DEF ParseFastack, Pending

LEMMA InputEndType ==
  ASSUME TypeOK, NEW p \in Peer, InputEnd(p)
  PROVE  TypeOK'
<1>1. /\ DOMAIN snd_buf' = Peer
      /\ \A q \in Peer : /\ DOMAIN snd_buf'[q] \subseteq Nat /\ IsFiniteSet(DOMAIN snd_buf'[q])
                         /\ \A sn \in DOMAIN snd_buf'[q] : snd_buf'[q][sn] \in Pending
  <2>1. snd_buf' = [snd_buf EXCEPT ![p] = ParseFastack(p)] BY DEF InputEnd
  <2>2. /\ DOMAIN ParseFastack(p) = DOMAIN snd_buf[p]
        /\ \A sn \in DOMAIN snd_buf[p] : ParseFastack(p)[sn] \in Pending
    BY ParseFastackFacts
  <2> QED BY <2>1, <2>2 DEF TypeOK
<1>2. cc' \in [Peer -> Congestion]
  <2>1. cc[p] \in Congestion /\ rmt_wnd[p] \in Nat BY DEF TypeOK
  <2>2. CwndOnAck(cc[p], rmt_wnd[p]) \in Congestion BY <2>1, CwndOnAckType
  <2> QED BY <2>2 DEF InputEnd, TypeOK
<1> QED BY <1>1, <1>2 DEF TypeOK, InputEnd, rcvVars, wndVars

LEMMA FaultType ==
  ASSUME TypeOK, NEW p \in Peer, Lose(p) \/ Duplicate(p) \/ Delay(p)
  PROVE  TypeOK'
<1>1. net[p] \in Seq(Seq(Segment)) /\ Len(net[p]) \in Nat BY LenProperties DEF TypeOK
<1>2. ASSUME NEW queue \in Seq(Seq(Segment)), Fault(queue, p) PROVE TypeOK'
  <2>1. net' \in [Peer -> Seq(Seq(Segment))] BY <1>2 DEF Fault, TypeOK
  <2>2. faults' \in 0..MaxFaults BY <1>2, NetAssumption DEF Fault, TypeOK
  <2> QED BY <1>2, <2>1, <2>2 DEF Fault, TypeOK, sndVars, rcvVars, wndVars, inVars
<1>3. \A i \in 1..Len(net[p]) :
        /\ RemoveAt(net[p], i) \in Seq(Seq(Segment))
        /\ Append(net[p], net[p][i]) \in Seq(Seq(Segment))
        /\ Append(RemoveAt(net[p], i), net[p][i]) \in Seq(Seq(Segment))
  BY <1>1, RemoveAtType, AppendProperties
<1>4. 1..(Len(net[p]) - 1) \subseteq 1..Len(net[p]) BY <1>1
<1>5. CASE Lose(p) BY <1>2, <1>3, <1>5 DEF Lose
<1>6. CASE Duplicate(p) BY <1>2, <1>3, <1>6 DEF Duplicate
<1>7. CASE Delay(p) BY <1>2, <1>3, <1>4, <1>7 DEF Delay
<1> QED BY <1>5, <1>6, <1>7

LEMMA TypeStep == TypeOK /\ [Next]_vars => TypeOK'
<1> SUFFICES ASSUME TypeOK, [Next]_vars PROVE TypeOK'
  OBVIOUS
<1>1. CASE UNCHANGED vars
  BY <1>1 DEF TypeOK, vars, sndVars, rcvVars, wndVars, inVars
<1>2. ASSUME NEW p \in Peer, Update(p) PROVE TypeOK'
  BY <1>2, FlushType DEF Update
<1>3. ASSUME NEW p \in Peer, InputStep(p) PROVE TypeOK'
  BY <1>3, InputAckType, InputPushType, InputProbeType, InputEndType DEF InputStep
<1> QED BY <1>1, <1>2, <1>3, SendType, RecvType, InputBeginType, FaultType DEF Next

(***************************************************************************)
(* Type correctness of the control blocks and the network: in particular   *)
(* no field goes negative and the congestion arithmetic of ikcp_input and  *)
(* ikcp_flush never divides by zero.                                       *)
(***************************************************************************)
THEOREM TypeCorrect == Spec => []TypeOK
BY InitType, TypeStep, PTL DEF Spec

-----------------------------------------------------------------------------
(* The congestion window *)

LEMMA CwndStep == TypeOK /\ CwndPositive /\ [Next]_vars => CwndPositive'
<1> SUFFICES ASSUME TypeOK, CwndPositive, [Next]_vars, NEW p \in Peer, updated'[p]
             PROVE  cc'[p].cwnd >= 1
  BY DEF CwndPositive
<1>1. CASE UNCHANGED <<cc, updated>> BY <1>1 DEF CwndPositive
<1>2. ASSUME NEW q \in Peer, Update(q) PROVE cc'[p].cwnd >= 1
  <2>1. PICK due \in SUBSET DOMAIN snd_buf[q], timeout \in BOOLEAN :
          FlushWith(q, due, timeout)
    BY <1>2 DEF Update
  <2> DEFINE new == CwndOnFlush(cc[q], FastDue(q, due) # {}, snd_nxt'[q] - snd_una[q],
                                FastResend, due # {}, FlushWindow(q))
  <2>2. cc' = [cc EXCEPT ![q] = new] /\ \A r \in Peer \ {q} : updated'[r] = updated[r]
    BY <2>1 DEF FlushWith, TypeOK
  <2>3. new.cwnd >= 1
    <3>1. TypeOK' BY <2>1, FlushType
    <3>2. snd_nxt'[q] \in Nat BY <3>1 DEF TypeOK
    <3>3. snd_una[q] \in Nat /\ cc[q] \in Congestion BY DEF TypeOK
    <3>4. snd_nxt'[q] - snd_una[q] \in Int BY <3>2, <3>3
    <3>5. FlushWindow(q) \in Int BY FreshFacts
    <3>6. FastResend \in Nat BY ResendAssumption
    <3>7. (FastDue(q, due) # {}) \in BOOLEAN /\ (due # {}) \in BOOLEAN OBVIOUS
    <3> QED BY <3>3, <3>4, <3>5, <3>6, <3>7, CwndOnFlushType
  <2> HIDE DEF new
  <2>4. CASE q = p BY <2>2, <2>3, <2>4 DEF TypeOK
  <2>5. CASE q # p BY <2>2, <2>5 DEF CwndPositive, TypeOK
  <2> QED BY <2>4, <2>5
<1>3. ASSUME NEW q \in Peer, InputEnd(q) PROVE cc'[p].cwnd >= 1
  <2>1. /\ cc' = [cc EXCEPT ![q] = IF snd_una[q] > prev_una
                                     THEN CwndOnAck(cc[q], rmt_wnd[q]) ELSE cc[q]]
        /\ updated' = updated
    BY <1>3 DEF InputEnd
  <2>2. cc[p] \in Congestion /\ cc[q] \in Congestion /\ rmt_wnd[q] \in Nat /\ cc[p].cwnd \in Nat
    BY DEF TypeOK, Congestion
  <2>3. cc[p].cwnd >= 1 BY <2>1 DEF CwndPositive
  <2>4. /\ CwndOnAck(cc[q], rmt_wnd[q]).cwnd >= cc[q].cwnd
        /\ CwndOnAck(cc[q], rmt_wnd[q]).cwnd \in Nat
    BY <2>2, CwndOnAckType DEF Congestion
  <2>5. cc'[p] = cc[p] \/ (q = p /\ cc'[p] = CwndOnAck(cc[q], rmt_wnd[q]))
    BY <2>1 DEF TypeOK
  <2> QED BY <2>2, <2>3, <2>4, <2>5
<1>4. CASE UNCHANGED vars BY <1>1, <1>4 DEF vars
<1>5. ASSUME NEW q \in Peer,
             Send(q) \/ Recv(q) \/ InputBegin(q) \/ InputAck(q) \/ InputPush(q)
               \/ InputWask(q) \/ InputWins(q) \/ Lose(q) \/ Duplicate(q) \/ Delay(q)
      PROVE  cc'[p].cwnd >= 1
  <2>1. UNCHANGED <<cc, updated>>
    BY <1>5 DEF Send, Recv, InputBegin, InputAck, InputPush, InputWask, InputWins,
                Lose, Duplicate, Delay, Fault, ParseHeader
  <2> QED BY <2>1, <1>1
<1> QED BY <1>2, <1>3, <1>4, <1>5 DEF Next, InputStep

(***************************************************************************)
(* Once ikcp_flush has run, the congestion window never closes again,      *)
(* whatever was lost or advertised, for every mss and threshold.           *)
(***************************************************************************)
THEOREM CwndStaysPositive == Spec => []CwndPositive
<1>1. Init => CwndPositive BY DEF Init, CwndPositive
<1> QED BY <1>1, CwndStep, TypeCorrect, PTL DEF Spec
=============================================================================
