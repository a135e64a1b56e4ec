----------------------------- MODULE KcpProofs -----------------------------
(***************************************************************************)
(* Safety of Kcp, for any window sizes, resend settings and bounds: no     *)
(* segment is forgotten, the windows hold, and every behaviour is one of   *)
(* the reliable message channel KcpChannel.                                *)
(***************************************************************************)
EXTENDS KcpTypeProofs

(***************************************************************************)
(* The inductive invariant, one part for each place a fragment can be in.  *)
(* p sends, Other(p) receives.                                             *)
(***************************************************************************)

\* q is the part of s that follows its first n elements.
Slice(q, s, n) ==
  /\ n + Len(q) <= Len(s)
  /\ \A i \in 1..Len(q) : q[i] = s[n + i]

Extends(s, t) == Len(s) <= Len(t) /\ \A i \in 1..Len(s) : t[i] = s[i]

\* A buffer with the fragments of s that belong to its numbers: from nxt on, of
\* those numbered below top, and within a window of RcvWnd.
Buffered(buf, s, nxt, top) ==
  /\ DOMAIN buf \subseteq Nat
  /\ \A sn \in DOMAIN buf :
        /\ sn >= nxt /\ sn < top /\ sn < nxt + RcvWnd
        /\ buf[sn] = s[sn + 1]

\* Every fragment is followed by the rest of its message.
Messages(s) ==
  \A i \in 1..Len(s) : i + s[i].frg <= Len(s) /\ s[i + s[i].frg].frg = 0

\* What is queued is what was sent and has no number yet.
QueueInv(p) ==
  /\ Len(sent[p]) = snd_nxt[p] + Len(snd_queue[p])
  /\ Slice(snd_queue[p], sent[p], snd_nxt[p])

\* What is kept for retransmission carries the fragment of its number.
BufInv(p) ==
  \A sn \in DOMAIN snd_buf[p] :
     sn < snd_nxt[p] /\ snd_buf[p][sn].frag = sent[p][sn + 1]

\* Everything numbered is kept, or held by the receiver.
KeptInv(p) ==
  \A sn \in 0..(snd_nxt[p] - 1) : sn \in DOMAIN snd_buf[p] \/ Holds(Other(p), sn)

\* What q has received is what the other peer sent, in place.
ReceivedInv(q) ==
  /\ rcv_nxt[q] <= snd_nxt[Other(q)]
  /\ Len(delivered[q]) + Len(rcv_queue[q]) = rcv_nxt[q]
  /\ Slice(delivered[q], sent[Other(q)], 0)
  /\ Slice(rcv_queue[q], sent[Other(q)], Len(delivered[q]))
  /\ Buffered(rcv_buf[q], sent[Other(q)], rcv_nxt[q], snd_nxt[Other(q)])

\* The windows.
WndInv(p) ==
  /\ IsOldest(snd_una[p], snd_buf[p], snd_nxt[p])
  /\ snd_nxt[p] <= snd_una[p] + SndWnd
  /\ Len(rcv_queue[p]) <= RcvWnd

\* The segments p may have put on the network: what they claim is still true.
GoodSeg(p) ==
  {s \in Segment :
     /\ s.una <= rcv_nxt[p]
     /\ s.cmd = "ACK" => Holds(p, s.sn)
     /\ s.cmd = "PUSH" => /\ s.sn < snd_nxt[p]
                          /\ s.frag = sent[p][s.sn + 1]}

Held(p) == {sn \in Nat : Holds(p, sn)}

NetInv(q) ==
  /\ acklist[q] \in Seq(Held(q))
  /\ net[q] \in Seq(Seq(GoodSeg(Other(q))))
  /\ in_call = q => in_segs \in Seq(GoodSeg(Other(q)))

MessageInv(p) == Messages(sent[p])

IInv ==
  /\ TypeOK
  /\ \A p \in Peer : /\ QueueInv(p) /\ BufInv(p) /\ KeptInv(p) /\ ReceivedInv(p)
                     /\ WndInv(p) /\ NetInv(p) /\ MessageInv(p)

-----------------------------------------------------------------------------
(* Sequences seen through their indices: a, b, c and n stand for lengths *)

LEMMA ConcatIndex ==
  ASSUME NEW a \in Nat, NEW b \in Nat, NEW s, NEW t, NEW u,
         \A i \in 1 .. a + b : u[i] = IF i <= a THEN s[i] ELSE t[i - a]
  PROVE  /\ \A i \in 1..a : u[i] = s[i]
         /\ \A i \in 1..b : u[a + i] = t[i]
<1>1. ASSUME NEW i \in 1..a PROVE u[i] = s[i]
  <2>1. i \in 1..(a + b) /\ i <= a OBVIOUS
  <2> QED BY <2>1
<1>2. ASSUME NEW i \in 1..b PROVE u[a + i] = t[i]
  <2>1. a + i \in 1..(a + b) /\ ~(a + i <= a) /\ (a + i) - a = i OBVIOUS
  <2> QED BY <2>1
<1> QED BY <1>1, <1>2

\* u is s followed by t.
IsConcat(u, s, t) ==
  /\ Len(s) \in Nat /\ Len(t) \in Nat
  /\ u \in Seq(Fragment) /\ Len(u) = Len(s) + Len(t)
  /\ \A i \in 1..Len(s) : u[i] = s[i]
  /\ \A i \in 1..Len(t) : u[Len(s) + i] = t[i]

LEMMA ConcatFacts ==
  ASSUME NEW s \in Seq(Fragment), NEW t \in Seq(Fragment)
  PROVE  IsConcat(s \o t, s, t)
<1>1. Len(s) \in Nat /\ Len(t) \in Nat BY LenProperties
<1>2. /\ s \o t \in Seq(Fragment)
      /\ Len(s \o t) = Len(s) + Len(t)
      /\ \A i \in 1 .. Len(s) + Len(t) : (s \o t)[i] =
           IF i <= Len(s) THEN s[i] ELSE t[i - Len(s)]
  BY ConcatProperties, Zenon
<1>3. /\ \A i \in 1..Len(s) : (s \o t)[i] = s[i]
      /\ \A i \in 1..Len(t) : (s \o t)[Len(s) + i] = t[i]
  <2> DEFINE a == Len(s)
             b == Len(t)
             u == s \o t
  <2>1. a \in Nat /\ b \in Nat BY <1>1
  <2>2. \A i \in 1 .. a + b : u[i] = IF i <= a THEN s[i] ELSE t[i - a] BY <1>2, Zenon
  <2> HIDE DEF a, b, u
  <2>3. /\ \A i \in 1..a : u[i] = s[i]
        /\ \A i \in 1..b : u[a + i] = t[i]
    BY <2>1, <2>2, ConcatIndex
  <2> QED BY <2>3, Zenon DEF a, b, u
<1> QED BY <1>1, <1>2, <1>3, Zenon DEF IsConcat

\* The premises that lemmas on sequences of fragments need of their lengths.
LEMMA LenNat == ASSUME NEW s \in Seq(Fragment) PROVE Len(s) \in Nat
BY LenProperties

LEMMA SliceGrow ==
  ASSUME NEW q \in Seq(Fragment), NEW s \in Seq(Fragment), NEW t \in Seq(Fragment),
         NEW n \in Nat, Slice(q, s, n), Extends(s, t)
  PROVE  Slice(q, t, n)
<1>1. Len(q) \in Nat /\ Len(s) \in Nat /\ Len(t) \in Nat BY LenNat
<1>2. n + Len(q) <= Len(s) /\ Len(s) <= Len(t) BY DEF Slice, Extends
<1>3. ASSUME NEW i \in 1..Len(q) PROVE q[i] = t[n + i]
  <2>1. q[i] = s[n + i] BY DEF Slice
  <2>2. n + i \in 1..Len(s) BY <1>1, <1>2
  <2>3. t[n + i] = s[n + i] BY <2>2 DEF Extends
  <2> QED BY <2>1, <2>3
<1> QED BY <1>1, <1>2, <1>3 DEF Slice

LEMMA SliceConcat ==
  ASSUME NEW q \in Seq(Fragment), NEW r \in Seq(Fragment), NEW s \in Seq(Fragment),
         NEW n \in Nat, Slice(q, s, n), Slice(r, s, n + Len(q))
  PROVE  Slice(q \o r, s, n) /\ Len(q \o r) = Len(q) + Len(r) /\ q \o r \in Seq(Fragment)
<1> DEFINE u == q \o r
           a == Len(q)
           b == Len(r)
<1>0. IsConcat(u, q, r) BY ConcatFacts
<1>1. /\ a \in Nat /\ b \in Nat /\ u \in Seq(Fragment) /\ Len(u) = a + b
      /\ \A i \in 1..a : u[i] = q[i]
      /\ \A i \in 1..b : u[a + i] = r[i]
  BY <1>0, Zenon DEF IsConcat
<1>2. (n + a) + b <= Len(s) /\ \A i \in 1..b : r[i] = s[(n + a) + i] BY DEF Slice
<1>3. \A i \in 1..a : q[i] = s[n + i] BY DEF Slice
<1>4. Len(s) \in Nat BY LenNat
<1> HIDE DEF u, a, b
<1>5. n + (a + b) <= Len(s) BY <1>1, <1>2, <1>4
<1>6. ASSUME NEW i \in 1..(a + b) PROVE u[i] = s[n + i]
  <2>1. CASE i <= a
    <3>1. i \in 1..a BY <2>1, <1>1
    <3> QED BY <3>1, <1>1, <1>3
  <2>2. CASE i > a
    <3>1. i - a \in 1..b /\ i = a + (i - a) /\ n + i = (n + a) + (i - a) BY <2>2, <1>1
    <3> QED BY <3>1, <1>1, <1>2
  <2> QED BY <2>1, <2>2, <1>1
<1>7. Slice(u, s, n) BY <1>1, <1>5, <1>6 DEF Slice
<1> QED BY <1>1, <1>7 DEF u, a, b

LEMMA ExtendsConcat ==
  ASSUME NEW s \in Seq(Fragment), NEW r \in Seq(Fragment)
  PROVE  Extends(s, s \o r) /\ Slice(r, s \o r, Len(s))
<1> DEFINE u == s \o r
           a == Len(s)
           b == Len(r)
<1>0. IsConcat(u, s, r) BY ConcatFacts
<1>1. /\ a \in Nat /\ b \in Nat /\ Len(u) = a + b
      /\ \A i \in 1..a : u[i] = s[i]
      /\ \A i \in 1..b : u[a + i] = r[i]
  BY <1>0, Zenon DEF IsConcat
<1> HIDE DEF u, a, b
<1>2. a <= a + b /\ a + b <= a + b BY <1>1
<1>3. a <= Len(u) /\ \A i \in 1..a : u[i] = s[i] BY <1>1, <1>2
<1>4. a + b <= Len(u) /\ \A i \in 1..b : r[i] = u[a + i] BY <1>1, <1>2
<1> QED BY <1>3, <1>4 DEF Extends, Slice, u, a, b

First(q, k) == SubSeq(q, 1, k)
Rest(q, k) == SubSeq(q, k + 1, Len(q))

LEMMA SliceSplit ==
  ASSUME NEW q \in Seq(Fragment), NEW s \in Seq(Fragment), NEW n \in Nat,
         NEW k \in 0..Len(q), Slice(q, s, n)
  PROVE  /\ First(q, k) \in Seq(Fragment) /\ Len(First(q, k)) = k
         /\ Slice(First(q, k), s, n)
         /\ Rest(q, k) \in Seq(Fragment) /\ Len(Rest(q, k)) = Len(q) - k
         /\ Slice(Rest(q, k), s, n + k)
<1> DEFINE u == SubSeq(q, 1, k)
           v == SubSeq(q, k + 1, Len(q))
           a == Len(q)
<1>1. a \in Nat /\ k \in Nat /\ k <= a /\ Len(s) \in Nat BY LenNat
<1>2. \A i \in 1..a : q[i] \in Fragment BY ElementOfSeq
<1>3. /\ u \in Seq(Fragment) /\ Len(u) = k /\ \A i \in 1..k : u[i] = q[i]
  BY <1>1, <1>2, SubSeqProperties
<1>4. /\ v \in Seq(Fragment) /\ Len(v) = a - k /\ \A i \in 1..(a - k) : v[i] = q[k + i]
  BY <1>1, <1>2, SubSeqProperties
<1>5. n + a <= Len(s) /\ \A i \in 1..a : q[i] = s[n + i] BY DEF Slice
<1> HIDE DEF u, v, a
<1>6. Slice(u, s, n)
  <2>1. n + k <= Len(s) BY <1>1, <1>5
  <2>2. ASSUME NEW i \in 1..k PROVE u[i] = s[n + i]
    <3>1. i \in 1..a BY <1>1
    <3> QED BY <3>1, <1>3, <1>5
  <2> QED BY <2>1, <2>2, <1>3 DEF Slice
<1>7. Slice(v, s, n + k)
  <2>1. (n + k) + (a - k) <= Len(s) BY <1>1, <1>5
  <2>2. ASSUME NEW i \in 1..(a - k) PROVE v[i] = s[(n + k) + i]
    <3>1. k + i \in 1..a /\ n + (k + i) = (n + k) + i BY <1>1
    <3> QED BY <3>1, <1>4, <1>5
  <2> QED BY <2>1, <2>2, <1>4 DEF Slice
<1> QED BY <1>3, <1>4, <1>6, <1>7 DEF u, v, a, First, Rest

\* Another whole message after whole messages.
LEMMA AppendMessage ==
  ASSUME NEW s \in Seq(Fragment), NEW c \in Nat, Messages(s)
  PROVE  Messages(s \o Fragments(Len(s), c))
<1> DEFINE a == Len(s)
           new == Fragments(a, c)
           s2 == s \o new
<1>1. a \in Nat BY LenNat
<1>2. new \in Seq(Fragment) /\ Len(new) = c /\ \A i \in 1..c : new[i] = [msg |-> a, frg |-> c - i]
  BY <1>1, FragmentsType
<1>3. \A i \in 1..c : new[i].frg = c - i BY <1>2
<1>4. new \in Seq(Fragment) BY <1>2
<1> HIDE DEF new
<1>0. IsConcat(s2, s, new) BY <1>4, ConcatFacts
<1>5. /\ Len(s2) = a + Len(new)
      /\ \A i \in 1..a : s2[i] = s[i]
      /\ \A i \in 1..Len(new) : s2[a + i] = new[i]
  BY <1>0, Zenon DEF IsConcat
<1>6. \A i \in 1..a : i + s[i].frg <= a /\ s[i + s[i].frg].frg = 0 BY DEF Messages
<1>7. \A i \in 1..a : s[i].frg \in Nat
  <2>1. \A i \in 1..a : s[i] \in Fragment BY ElementOfSeq
  <2> QED BY <2>1 DEF Fragment
<1> HIDE DEF a, s2
<1>8. Len(s2) = a + c /\ \A i \in 1..c : s2[a + i].frg = c - i
  BY <1>2, <1>3, <1>5
<1>9. ASSUME NEW i \in 1..(a + c)
      PROVE  i + s2[i].frg <= a + c /\ s2[i + s2[i].frg].frg = 0
  <2>1. CASE i <= a
    <3>1. i \in 1..a BY <2>1, <1>1
    <3>2. s2[i] = s[i] /\ s[i].frg \in Nat /\ i + s[i].frg <= a /\ s[i + s[i].frg].frg = 0
      BY <3>1, <1>5, <1>6, <1>7
    <3>3. i + s[i].frg \in 1..a BY <3>1, <3>2, <1>1
    <3>4. s2[i + s[i].frg] = s[i + s[i].frg] BY <3>3, <1>5
    <3> QED BY <3>1, <3>2, <3>4, <1>1
  <2>2. CASE i > a
    <3>1. i - a \in 1..c /\ i = a + (i - a) BY <2>2, <1>1
    <3>2. s2[i].frg = c - (i - a) BY <3>1, <1>8
    <3>3. i + s2[i].frg = a + c /\ c \in 1..c /\ c - c = 0 BY <3>1, <3>2, <1>1
    <3>4. s2[a + c].frg = 0 BY <3>3, <1>8
    <3> QED BY <3>3, <3>4, <1>1
  <2> QED BY <2>1, <2>2, <1>1
<1>10. Messages(s2) BY <1>8, <1>9 DEF Messages
<1> QED BY <1>10 DEF s2, new, a

\* What never shrinks, and what the segments on the network rely on.
Grows(p) ==
  /\ rcv_nxt[p] <= rcv_nxt'[p] /\ snd_nxt[p] <= snd_nxt'[p]
  /\ \A sn \in Nat : Holds(p, sn) => Holds(p, sn)'
  /\ Extends(sent[p], sent'[p])

LEMMA GoodGrows ==
  ASSUME TypeOK, TypeOK', NEW p \in Peer, QueueInv(p), Grows(p)
  PROVE  /\ Seq(Held(p)) \subseteq Seq(Held(p)')
         /\ GoodSeg(p) \subseteq GoodSeg(p)'
         /\ Seq(GoodSeg(p)) \subseteq Seq(GoodSeg(p)')
         /\ Seq(Seq(GoodSeg(p))) \subseteq Seq(Seq(GoodSeg(p)'))
<1>1. Held(p) \subseteq Held(p)' BY DEF Held, Grows
<1>2. GoodSeg(p) \subseteq GoodSeg(p)'
  <2> SUFFICES ASSUME NEW s \in GoodSeg(p) PROVE s \in GoodSeg(p)'
    OBVIOUS
  <2>1. s \in Segment /\ s.una \in Nat /\ s.sn \in Nat BY DEF GoodSeg, Segment
  <2>2. rcv_nxt[p] \in Nat /\ rcv_nxt'[p] \in Nat BY DEF TypeOK
  <2>3. s.una <= rcv_nxt'[p] BY <2>1, <2>2 DEF GoodSeg, Grows
  <2>4. s.cmd = "ACK" => Holds(p, s.sn)' BY <2>1 DEF GoodSeg, Grows
  <2>5. ASSUME s.cmd = "PUSH" PROVE s.sn < snd_nxt'[p] /\ s.frag = sent'[p][s.sn + 1]
    <3>1. s.sn < snd_nxt[p] /\ s.frag = sent[p][s.sn + 1] BY <2>5 DEF GoodSeg
    <3>2. snd_nxt[p] \in Nat /\ snd_nxt'[p] \in Nat BY DEF TypeOK
    <3>3. Len(snd_queue[p]) \in Nat BY LenProperties DEF TypeOK
    <3>4. s.sn + 1 \in 1..Len(sent[p]) BY <2>1, <3>1, <3>2, <3>3 DEF QueueInv
    <3> QED BY <2>1, <3>1, <3>2, <3>4 DEF Grows, Extends
  <2> QED BY <2>1, <2>3, <2>4, <2>5 DEF GoodSeg
<1>3. Seq(GoodSeg(p)) \subseteq Seq(GoodSeg(p)') BY <1>2, SeqMonotonic
<1> QED BY <1>1, <1>2, <1>3, SeqMonotonic

LEMMA InitInv == Init => IInv
<1> SUFFICES ASSUME Init PROVE IInv
  OBVIOUS
<1>1. TypeOK BY InitType
<1> SUFFICES ASSUME NEW p \in Peer
             PROVE  /\ QueueInv(p) /\ BufInv(p) /\ KeptInv(p) /\ ReceivedInv(p)
                    /\ WndInv(p) /\ NetInv(p) /\ MessageInv(p)
  BY <1>1 DEF IInv
<1>2. /\ DOMAIN snd_buf[p] = {} /\ DOMAIN rcv_buf[p] = {}
      /\ Other(p) \in Peer /\ Len(<<>>) = 0
  BY OtherPeer DEF Init
<1>3. QueueInv(p) /\ BufInv(p) /\ KeptInv(p) /\ MessageInv(p)
  BY <1>2 DEF Init, QueueInv, BufInv, KeptInv, MessageInv, Slice, Messages
<1>4. ReceivedInv(p) BY <1>2 DEF Init, ReceivedInv, Slice, Buffered
<1>5. WndInv(p) BY <1>2, WndAssumption DEF Init, WndInv, IsOldest
<1>6. NetInv(p) BY OtherPeer, EmptySeq DEF Init, NetInv
<1> QED BY <1>3, <1>4, <1>5, <1>6

-----------------------------------------------------------------------------
(* What does not change, or only grows *)

\* A numbered fragment keeps its place, and what the network and the lists of
\* acknowledgements hold stays good.
LEMMA GrowsStep ==
  ASSUME IInv, TypeOK', \A q \in Peer : Grows(q), NEW r \in Peer
  PROVE  /\ \A sn \in Nat : sn < snd_nxt[r] => sent'[r][sn + 1] = sent[r][sn + 1]
         /\ Seq(Held(r)) \subseteq Seq(Held(r)')
         /\ GoodSeg(r) \subseteq GoodSeg(r)'
         /\ Seq(GoodSeg(r)) \subseteq Seq(GoodSeg(r)')
         /\ Seq(Seq(GoodSeg(r))) \subseteq Seq(Seq(GoodSeg(r)'))
<1>1. TypeOK /\ QueueInv(r) /\ Grows(r) BY DEF IInv
<1>2. snd_nxt[r] \in Nat /\ Len(snd_queue[r]) \in Nat BY <1>1, LenProperties DEF TypeOK
<1>3. ASSUME NEW sn \in Nat, sn < snd_nxt[r] PROVE sent'[r][sn + 1] = sent[r][sn + 1]
  <2>1. sn + 1 \in 1..Len(sent[r]) BY <1>1, <1>2, <1>3 DEF QueueInv
  <2> QED BY <1>1, <2>1 DEF Grows, Extends
<1> QED BY <1>1, <1>3, GoodGrows

\* ReceivedInv(q) survives a step that leaves q's receiving half alone.
LEMMA ReceivedKept ==
  ASSUME IInv, TypeOK', \A r \in Peer : Grows(r), NEW q \in Peer,
         delivered'[q] = delivered[q], rcv_queue'[q] = rcv_queue[q],
         rcv_buf'[q] = rcv_buf[q], rcv_nxt'[q] = rcv_nxt[q]
  PROVE  ReceivedInv(q)'
<1> DEFINE o == Other(q)
<1>1. o \in Peer /\ TypeOK BY OtherPeer DEF IInv
<1>2. /\ rcv_nxt[q] \in Nat /\ snd_nxt[o] \in Nat /\ snd_nxt'[o] \in Nat
      /\ DOMAIN rcv_buf[q] \subseteq Nat
      /\ delivered[q] \in Seq(Fragment) /\ rcv_queue[q] \in Seq(Fragment)
      /\ sent[o] \in Seq(Fragment) /\ sent'[o] \in Seq(Fragment)
  BY <1>1 DEF TypeOK
<1>3. ReceivedInv(q) BY DEF IInv
<1>4. Grows(o) /\ \A sn \in Nat : sn < snd_nxt[o] => sent'[o][sn + 1] = sent[o][sn + 1]
  BY <1>1, GrowsStep
<1> HIDE DEF o
<1>5. /\ rcv_nxt[q] <= snd_nxt[o] /\ Len(delivered[q]) + Len(rcv_queue[q]) = rcv_nxt[q]
      /\ snd_nxt[o] <= snd_nxt'[o]
  BY <1>3, <1>4 DEF ReceivedInv, Grows, o
<1>6. Slice(delivered[q], sent'[o], 0) /\ Slice(rcv_queue[q], sent'[o], Len(delivered[q]))
  <2>1. Extends(sent[o], sent'[o]) BY <1>4 DEF Grows
  <2>2. Slice(delivered[q], sent[o], 0) /\ Slice(rcv_queue[q], sent[o], Len(delivered[q]))
    BY <1>3 DEF ReceivedInv, o
  <2>3. 0 \in Nat /\ Len(delivered[q]) \in Nat BY <1>2, LenNat
  <2> QED BY <2>1, <2>2, <2>3, <1>2, SliceGrow
<1>7. Buffered(rcv_buf[q], sent'[o], rcv_nxt[q], snd_nxt'[o])
  <2> SUFFICES ASSUME NEW sn \in DOMAIN rcv_buf[q]
               PROVE  /\ sn >= rcv_nxt[q] /\ sn < snd_nxt'[o] /\ sn < rcv_nxt[q] + RcvWnd
                      /\ rcv_buf[q][sn] = sent'[o][sn + 1]
    BY <1>2 DEF Buffered
  <2>1. /\ sn >= rcv_nxt[q] /\ sn < snd_nxt[o] /\ sn < rcv_nxt[q] + RcvWnd
        /\ rcv_buf[q][sn] = sent[o][sn + 1]
    BY <1>3 DEF ReceivedInv, Buffered, o
  <2>2. sn \in Nat BY <1>2
  <2>3. sent'[o][sn + 1] = sent[o][sn + 1] BY <2>1, <2>2, <1>4
  <2> QED BY <2>1, <2>2, <2>3, <1>2, <1>5
<1>8. rcv_nxt[q] <= snd_nxt'[o] BY <1>2, <1>5
<1> QED BY <1>5, <1>6, <1>7, <1>8 DEF ReceivedInv, o

\* So do the segments on their way to q and its pending acknowledgements.
LEMMA NetKept ==
  ASSUME IInv, TypeOK', \A r \in Peer : Grows(r), NEW q \in Peer,
         acklist'[q] = acklist[q], net'[q] = net[q],
         in_call' = q => in_call = q /\ in_segs' = in_segs
  PROVE  NetInv(q)'
<1>1. Other(q) \in Peer BY OtherPeer
<1>2. /\ Seq(Held(q)) \subseteq Seq(Held(q)')
      /\ Seq(GoodSeg(Other(q))) \subseteq Seq(GoodSeg(Other(q))')
      /\ Seq(Seq(GoodSeg(Other(q)))) \subseteq Seq(Seq(GoodSeg(Other(q))'))
  BY <1>1, GrowsStep
<1>3. NetInv(q) BY DEF IInv
<1> QED BY <1>2, <1>3 DEF NetInv

\* And what q keeps for retransmission.
LEMMA SendingKept ==
  ASSUME IInv, TypeOK', \A r \in Peer : Grows(r), NEW q \in Peer,
         snd_buf'[q] = snd_buf[q], snd_nxt'[q] = snd_nxt[q], snd_una'[q] = snd_una[q]
  PROVE  BufInv(q)' /\ KeptInv(q)' /\ IsOldest(snd_una[q], snd_buf[q], snd_nxt[q])'
<1>1. /\ BufInv(q) /\ KeptInv(q) /\ WndInv(q) /\ TypeOK /\ Other(q) \in Peer
  BY OtherPeer DEF IInv
<1>2. DOMAIN snd_buf[q] \subseteq Nat /\ snd_nxt[q] \in Nat BY <1>1 DEF TypeOK
<1>3. \A sn \in Nat : sn < snd_nxt[q] => sent'[q][sn + 1] = sent[q][sn + 1] BY GrowsStep
<1>4. BufInv(q)'
  <2>1. \A sn \in DOMAIN snd_buf[q] :
          sn \in Nat /\ sn < snd_nxt[q] /\ snd_buf[q][sn].frag = sent[q][sn + 1]
    BY <1>1, <1>2 DEF BufInv
  <2>2. \A sn \in DOMAIN snd_buf[q] : snd_buf[q][sn].frag = sent'[q][sn + 1]
    BY <2>1, <1>3
  <2> QED BY <2>1, <2>2 DEF BufInv
<1>5. KeptInv(q)'
  <2>1. \A sn \in Nat : Holds(Other(q), sn) => Holds(Other(q), sn)' BY <1>1 DEF Grows
  <2>2. \A sn \in 0..(snd_nxt[q] - 1) : sn \in Nat BY <1>2
  <2>3. \A sn \in 0..(snd_nxt[q] - 1) : sn \in DOMAIN snd_buf[q] \/ Holds(Other(q), sn)
    BY <1>1 DEF KeptInv
  <2> QED BY <2>1, <2>2, <2>3 DEF KeptInv
<1>6. IsOldest(snd_una[q], snd_buf[q], snd_nxt[q])' BY <1>1 DEF WndInv, IsOldest
<1> QED BY <1>4, <1>5, <1>6

-----------------------------------------------------------------------------
(* ikcp_send *)

LEMMA SendInv ==
  ASSUME IInv, NEW p \in Peer, Send(p)
  PROVE  IInv'
<1>1. TypeOK /\ TypeOK' BY SendType DEF IInv
<1>2. PICK count \in 1..(IKCP_WND_RCV - 1) :
        /\ sent' = [sent EXCEPT ![p] = @ \o Fragments(Len(sent[p]), count)]
        /\ snd_queue' = [snd_queue EXCEPT ![p] = @ \o Fragments(Len(sent[p]), count)]
  BY DEF Send
<1>3. UNCHANGED <<delivered, snd_buf, snd_nxt, snd_una, rcvVars, in_call, in_segs, net>>
  BY DEF Send, inVars
<1> DEFINE s == sent[p]
           u == snd_queue[p]
           new == Fragments(Len(s), count)
<1>4. s \in Seq(Fragment) /\ u \in Seq(Fragment) /\ snd_nxt[p] \in Nat BY <1>1 DEF TypeOK
<1>5. count \in Nat /\ Len(s) \in Nat /\ Len(u) \in Nat BY <1>4, LenNat, WndRcvAssumption
<1>6. sent'[p] = s \o new /\ snd_queue'[p] = u \o new BY <1>1, <1>2 DEF TypeOK
<1>7. \A q \in Peer : q # p => sent'[q] = sent[q] /\ snd_queue'[q] = snd_queue[q]
  BY <1>1, <1>2 DEF TypeOK
<1>8. QueueInv(p) /\ MessageInv(p) BY DEF IInv
<1>9. Len(s) = snd_nxt[p] + Len(u) /\ Slice(u, s, snd_nxt[p]) /\ Messages(s)
  BY <1>8 DEF QueueInv, MessageInv
<1> HIDE DEF s, u
<1>10. Messages(s \o new) BY <1>4, <1>5, <1>9, AppendMessage
<1>11. new \in Seq(Fragment) /\ Len(new) \in Nat BY <1>5, FragmentsType, LenNat
<1> HIDE DEF new
<1>12. Extends(s, s \o new) /\ Slice(new, s \o new, Len(s)) BY <1>4, <1>11, ExtendsConcat
<1>13. s \o new \in Seq(Fragment) /\ Len(s \o new) = Len(s) + Len(new)
  BY <1>4, <1>11, ConcatFacts DEF IsConcat
<1>14. Slice(u \o new, s \o new, snd_nxt[p]) /\ Len(u \o new) = Len(u) + Len(new)
  <2>1. Slice(u, s \o new, snd_nxt[p]) BY <1>4, <1>9, <1>12, <1>13, SliceGrow
  <2>2. Slice(new, s \o new, snd_nxt[p] + Len(u)) BY <1>9, <1>12, Zenon
  <2> QED BY <2>1, <2>2, <1>4, <1>11, <1>13, SliceConcat
<1>15. QueueInv(p)' /\ MessageInv(p)'
  <2>1. Len(s \o new) = snd_nxt[p] + Len(u \o new)
    BY <1>4, <1>5, <1>9, <1>11, <1>13, <1>14
  <2>2. snd_nxt'[p] = snd_nxt[p] BY <1>3
  <2>3. QueueInv(p)' BY <2>1, <2>2, <1>6, <1>14, Zenon DEF QueueInv
  <2>4. MessageInv(p)' BY <1>6, <1>10, Zenon DEF MessageInv
  <2> QED BY <2>3, <2>4
<1>16. \A q \in Peer : Grows(q)
  <2> SUFFICES ASSUME NEW q \in Peer PROVE Grows(q)
    OBVIOUS
  <2>1. rcv_nxt[q] \in Nat /\ snd_nxt[q] \in Nat /\ Len(sent[q]) \in Nat
    BY <1>1, LenProperties DEF TypeOK
  <2>2. /\ rcv_nxt[q] <= rcv_nxt'[q] /\ snd_nxt[q] <= snd_nxt'[q]
        /\ \A sn \in Nat : Holds(q, sn) => Holds(q, sn)'
    BY <2>1, <1>3 DEF Holds, rcvVars
  <2>3. Extends(sent[q], sent[q]) BY <2>1 DEF Extends
  <2>4. Extends(sent[p], sent'[p]) BY <1>6, <1>12, Zenon DEF s
  <2> QED BY <2>2, <2>3, <2>4, <1>7, Zenon DEF Grows
<1> SUFFICES ASSUME NEW q \in Peer
             PROVE  (/\ QueueInv(q) /\ BufInv(q) /\ KeptInv(q) /\ ReceivedInv(q)
                     /\ WndInv(q) /\ NetInv(q) /\ MessageInv(q))'
  BY <1>1 DEF IInv
<1>17. /\ QueueInv(q) /\ WndInv(q) /\ MessageInv(q) BY DEF IInv
<1>18. QueueInv(q)' /\ MessageInv(q)'
  BY <1>3, <1>7, <1>15, <1>17 DEF QueueInv, MessageInv
<1>19. /\ BufInv(q)' /\ KeptInv(q)' BY <1>1, <1>3, <1>16, SendingKept
<1>20. ReceivedInv(q)' BY <1>1, <1>3, <1>16, ReceivedKept DEF rcvVars
<1>21. WndInv(q)' BY <1>3, <1>17 DEF WndInv, IsOldest, rcvVars
<1>22. NetInv(q)' BY <1>1, <1>3, <1>16, NetKept DEF rcvVars
<1> QED BY <1>18, <1>19, <1>20, <1>21, <1>22

-----------------------------------------------------------------------------
(* The move from rcv_buf to rcv_queue, in ikcp_recv and in ikcp_parse_data *)

Moved(buf, nxt, k) == [i \in 1..k |-> buf[nxt + i - 1]]

LEMMA MovedSlice ==
  ASSUME NEW s \in Seq(Fragment), NEW nxt \in Nat, NEW top \in Nat, top <= Len(s),
         nxt <= top, NEW buf, Buffered(buf, s, nxt, top),
         NEW k \in Nat, NEW room, Moves(buf, nxt, room, k)
  PROVE  /\ Moved(buf, nxt, k) \in Seq(Fragment) /\ Len(Moved(buf, nxt, k)) = k
         /\ Slice(Moved(buf, nxt, k), s, nxt) /\ nxt + k <= top
<1> DEFINE moved == Moved(buf, nxt, k)
<1>1. ASSUME NEW i \in 1..k
      PROVE  /\ nxt + i - 1 \in DOMAIN buf /\ nxt + i <= top
             /\ buf[nxt + i - 1] = s[nxt + i] /\ s[nxt + i] \in Fragment
  <2>1. nxt + i - 1 \in nxt..(nxt + k - 1) /\ (nxt + i - 1) + 1 = nxt + i OBVIOUS
  <2>2. nxt + i - 1 \in DOMAIN buf BY <2>1 DEF Moves
  <2>3. nxt + i - 1 < top /\ buf[nxt + i - 1] = s[(nxt + i - 1) + 1]
    BY <2>2 DEF Buffered
  <2>4. nxt + i <= top /\ nxt + i \in 1..Len(s)
    <3>1. Len(s) \in Nat BY LenNat
    <3> QED BY <2>3, <3>1
  <2>5. s[nxt + i] \in Fragment BY <2>4, ElementOfSeq
  <2> QED BY <2>1, <2>2, <2>3, <2>4, <2>5
<1>2. moved \in [1..k -> Fragment] BY <1>1 DEF Moved
<1>3. moved \in Seq(Fragment) /\ Len(moved) = k BY <1>2, FunctionIsSeq
<1>4. nxt + k <= top
  <2>1. CASE k = 0 BY <2>1
  <2>2. CASE k # 0
    <3>1. k \in 1..k BY <2>2
    <3> QED BY <3>1, <1>1
  <2> QED BY <2>1, <2>2
<1>5. \A i \in 1..k : moved[i] = s[nxt + i] BY <1>1 DEF Moved
<1> HIDE DEF moved
<1>6. Slice(moved, s, nxt)
  <2>1. nxt + k <= Len(s)
    <3>1. Len(s) \in Nat BY LenNat
    <3> QED BY <3>1, <1>4
  <2> QED BY <2>1, <1>3, <1>5 DEF Slice
<1> QED BY <1>3, <1>4, <1>6 DEF moved

\* What the move leaves, from a queue whose first fragment has number d.
LEMMA MoveFacts ==
  ASSUME TypeOK, NEW p \in Peer, NEW buf, NEW queue \in Seq(Fragment), NEW d \in Nat,
         NEW s \in Seq(Fragment), NEW top \in Nat, top <= Len(s), rcv_nxt[p] <= top,
         Buffered(buf, s, rcv_nxt[p], top),
         Slice(queue, s, d), d + Len(queue) = rcv_nxt[p], Len(queue) <= RcvWnd,
         MoveToQueue(p, buf, queue)
  PROVE  /\ rcv_nxt[p] <= rcv_nxt'[p] /\ rcv_nxt'[p] <= top
         /\ Buffered(rcv_buf'[p], s, rcv_nxt'[p], top)
         /\ Slice(rcv_queue'[p], s, d) /\ d + Len(rcv_queue'[p]) = rcv_nxt'[p]
         /\ Len(rcv_queue'[p]) <= RcvWnd
         /\ \A sn \in Nat : sn < rcv_nxt[p] \/ sn \in DOMAIN buf => Holds(p, sn)'
         /\ \A q \in Peer \ {p} : /\ rcv_nxt'[q] = rcv_nxt[q] /\ rcv_buf'[q] = rcv_buf[q]
                                  /\ rcv_queue'[q] = rcv_queue[q]
<1>1. PICK k \in 0..(RcvWnd - Len(queue)) :
        /\ Moves(buf, rcv_nxt[p], RcvWnd - Len(queue), k)
        /\ rcv_queue' = [rcv_queue EXCEPT
                           ![p] = queue \o [i \in 1..k |-> buf[rcv_nxt[p] + i - 1]]]
        /\ rcv_buf' = [rcv_buf EXCEPT
                         ![p] = Restrict(buf, DOMAIN buf \ rcv_nxt[p]..(rcv_nxt[p] + k - 1))]
        /\ rcv_nxt' = [rcv_nxt EXCEPT ![p] = @ + k]
  BY DEF MoveToQueue
<1> DEFINE nxt == rcv_nxt[p]
           moved == Moved(buf, nxt, k)
           rest == DOMAIN buf \ nxt..(nxt + k - 1)
<1>2. /\ rcv_queue'[p] = queue \o moved /\ rcv_buf'[p] = Restrict(buf, rest)
      /\ rcv_nxt'[p] = nxt + k
      /\ \A q \in Peer \ {p} : /\ rcv_nxt'[q] = rcv_nxt[q] /\ rcv_buf'[q] = rcv_buf[q]
                               /\ rcv_queue'[q] = rcv_queue[q]
  BY <1>1 DEF TypeOK, Moved
<1>3. nxt \in Nat /\ k \in Nat /\ Len(queue) \in Nat /\ RcvWnd \in Nat /\ k <= RcvWnd - Len(queue)
  BY LenNat, WndAssumption, <1>1 DEF TypeOK
<1>4. nxt..(nxt + k - 1) \subseteq DOMAIN buf BY <1>1 DEF Moves
<1>6. DOMAIN rcv_buf'[p] = rest /\ \A sn \in rest : rcv_buf'[p][sn] = buf[sn]
  BY <1>2 DEF Restrict
<1>7. nxt <= top /\ d + Len(queue) = nxt OBVIOUS
<1>8. Buffered(buf, s, nxt, top) OBVIOUS
<1>5. moved \in Seq(Fragment) /\ Len(moved) = k /\ Slice(moved, s, nxt) /\ nxt + k <= top
  <2>1. Moves(buf, nxt, RcvWnd - Len(queue), k) BY <1>1
  <2> QED BY <2>1, <1>3, <1>7, <1>8, MovedSlice
<1>9. rest \subseteq DOMAIN buf /\ \A sn \in DOMAIN buf : sn \in rest \/ sn \in nxt..(nxt + k - 1)
  OBVIOUS
<1>10. \A sn \in rest : sn \notin nxt..(nxt + k - 1) OBVIOUS
<1> HIDE DEF moved, rest
<1>11. Slice(queue \o moved, s, d) /\ Len(queue \o moved) = Len(queue) + k
  <2>1. Slice(moved, s, d + Len(queue)) BY <1>5, <1>7, Zenon
  <2>2. Slice(queue \o moved, s, d) /\ Len(queue \o moved) = Len(queue) + Len(moved)
    BY <2>1, <1>5, SliceConcat
  <2> QED BY <2>2, <1>5
<1> HIDE DEF nxt
<1>12. ASSUME NEW sn \in rest
       PROVE  sn \in Nat /\ sn >= nxt + k /\ sn < top /\ sn < (nxt + k) + RcvWnd
              /\ buf[sn] = s[sn + 1]
  <2>1. sn \in DOMAIN buf /\ sn \notin nxt..(nxt + k - 1) BY <1>9, <1>10
  <2>2. sn \in Nat /\ sn >= nxt /\ sn < top /\ sn < nxt + RcvWnd /\ buf[sn] = s[sn + 1]
    BY <2>1, <1>8 DEF Buffered
  <2> QED BY <2>1, <2>2, <1>3
<1>13. Buffered(rcv_buf'[p], s, nxt + k, top) BY <1>6, <1>12 DEF Buffered
<1>14. ASSUME NEW sn \in Nat, sn < nxt \/ sn \in DOMAIN buf
       PROVE  sn < nxt + k \/ sn \in DOMAIN rcv_buf'[p]
  BY <1>3, <1>6, <1>9, <1>14
<1>15. /\ nxt <= nxt + k /\ d + (Len(queue) + k) = nxt + k /\ Len(queue) + k <= RcvWnd
  BY <1>3, <1>7
<1>16. Slice(rcv_queue'[p], s, d) /\ Len(rcv_queue'[p]) = Len(queue) + k
  BY <1>2, <1>11, Zenon
<1>17. /\ nxt <= rcv_nxt'[p] /\ rcv_nxt'[p] <= top
       /\ Buffered(rcv_buf'[p], s, rcv_nxt'[p], top)
       /\ d + Len(rcv_queue'[p]) = rcv_nxt'[p] /\ Len(rcv_queue'[p]) <= RcvWnd
  BY <1>2, <1>5, <1>13, <1>15, <1>16, Zenon
<1>18. \A sn \in Nat : sn < nxt \/ sn \in DOMAIN buf => Holds(p, sn)'
  BY <1>2, <1>14 DEF Holds
<1> QED BY <1>2, <1>16, <1>17, <1>18 DEF nxt

-----------------------------------------------------------------------------
(* ikcp_recv *)

\* The receiving half of q in the terms of the lemmas above.
LEMMA ReceivingHalf ==
  ASSUME IInv, NEW q \in Peer
  PROVE  /\ sent[Other(q)] \in Seq(Fragment) /\ snd_nxt[Other(q)] \in Nat
         /\ snd_nxt[Other(q)] <= Len(sent[Other(q)])
         /\ rcv_nxt[q] \in Nat /\ rcv_nxt[q] <= snd_nxt[Other(q)]
         /\ delivered[q] \in Seq(Fragment) /\ rcv_queue[q] \in Seq(Fragment)
         /\ Len(delivered[q]) \in Nat /\ Len(rcv_queue[q]) \in Nat
         /\ Len(delivered[q]) + Len(rcv_queue[q]) = rcv_nxt[q]
         /\ Slice(delivered[q], sent[Other(q)], 0)
         /\ Slice(rcv_queue[q], sent[Other(q)], Len(delivered[q]))
         /\ Buffered(rcv_buf[q], sent[Other(q)], rcv_nxt[q], snd_nxt[Other(q)])
         /\ Len(rcv_queue[q]) <= RcvWnd
<1>1. Other(q) \in Peer /\ TypeOK BY OtherPeer DEF IInv
<1>2. ReceivedInv(q) /\ WndInv(q) /\ QueueInv(Other(q)) BY <1>1 DEF IInv
<1>3. /\ sent[Other(q)] \in Seq(Fragment) /\ snd_nxt[Other(q)] \in Nat
      /\ rcv_nxt[q] \in Nat /\ delivered[q] \in Seq(Fragment) /\ rcv_queue[q] \in Seq(Fragment)
      /\ snd_queue[Other(q)] \in Seq(Fragment)
  BY <1>1 DEF TypeOK
<1>4. /\ Len(delivered[q]) \in Nat /\ Len(rcv_queue[q]) \in Nat
      /\ Len(snd_queue[Other(q)]) \in Nat
  BY <1>3, LenNat
<1>5. snd_nxt[Other(q)] <= Len(sent[Other(q)]) BY <1>2, <1>3, <1>4 DEF QueueInv
<1> QED BY <1>2, <1>3, <1>4, <1>5 DEF ReceivedInv, WndInv

\* The rest of the invariant, when only receiving halves changed.
LEMMA OnlyReceived ==
  ASSUME IInv, TypeOK', \A q \in Peer : Grows(q),
         UNCHANGED <<sent, snd_queue, snd_buf, snd_nxt, snd_una>>,
         \A q \in Peer : ReceivedInv(q)' /\ NetInv(q)' /\ Len(rcv_queue'[q]) <= RcvWnd
  PROVE  IInv'
<1> SUFFICES ASSUME NEW q \in Peer
             PROVE  (/\ QueueInv(q) /\ BufInv(q) /\ KeptInv(q) /\ WndInv(q) /\ MessageInv(q))'
  BY DEF IInv
<1>1. QueueInv(q) /\ WndInv(q) /\ MessageInv(q) BY DEF IInv
<1>2. BufInv(q)' /\ KeptInv(q)' BY SendingKept
<1>3. WndInv(q)' BY <1>1 DEF WndInv, IsOldest
<1> QED BY <1>1, <1>2, <1>3 DEF QueueInv, MessageInv

\* One ikcp_recv: what it delivers is the next part of what the other side sent.
LEMMA RecvFacts ==
  ASSUME IInv, NEW p \in Peer, NEW n \in 1..Len(rcv_queue[p]),
         delivered' = [delivered EXCEPT ![p] = @ \o SubSeq(rcv_queue[p], 1, n)],
         MoveToQueue(p, rcv_buf[p], SubSeq(rcv_queue[p], n + 1, Len(rcv_queue[p])))
  PROVE  LET s == sent[Other(p)] IN
         /\ rcv_nxt[p] <= rcv_nxt'[p] /\ rcv_nxt'[p] <= snd_nxt[Other(p)]
         /\ Slice(delivered'[p], s, 0) /\ Len(delivered'[p]) = Len(delivered[p]) + n
         /\ Slice(rcv_queue'[p], s, Len(delivered'[p]))
         /\ Len(delivered'[p]) + Len(rcv_queue'[p]) = rcv_nxt'[p]
         /\ Buffered(rcv_buf'[p], s, rcv_nxt'[p], snd_nxt[Other(p)])
         /\ Len(rcv_queue'[p]) <= RcvWnd
         /\ \A sn \in Nat : Holds(p, sn) => Holds(p, sn)'
         /\ \A q \in Peer \ {p} : /\ rcv_nxt'[q] = rcv_nxt[q] /\ rcv_buf'[q] = rcv_buf[q]
                                  /\ rcv_queue'[q] = rcv_queue[q]
                                  /\ delivered'[q] = delivered[q]
<1> DEFINE s == sent[Other(p)]
           top == snd_nxt[Other(p)]
           queue == rcv_queue[p]
           d == Len(delivered[p])
           first == First(queue, n)
           rest == Rest(queue, n)
<1>1. /\ s \in Seq(Fragment) /\ top \in Nat /\ top <= Len(s)
      /\ rcv_nxt[p] \in Nat /\ rcv_nxt[p] <= top
      /\ delivered[p] \in Seq(Fragment) /\ queue \in Seq(Fragment)
      /\ d \in Nat /\ Len(queue) \in Nat /\ d + Len(queue) = rcv_nxt[p]
      /\ Slice(delivered[p], s, 0) /\ Slice(queue, s, d)
      /\ Buffered(rcv_buf[p], s, rcv_nxt[p], top) /\ Len(queue) <= RcvWnd
  BY ReceivingHalf
<1>2. TypeOK BY DEF IInv
<1>3. delivered'[p] = delivered[p] \o first /\ \A q \in Peer \ {p} : delivered'[q] = delivered[q]
  BY <1>2 DEF TypeOK, First
<1>4. MoveToQueue(p, rcv_buf[p], rest) BY DEF Rest
<1>5. n \in 0..Len(queue) /\ n \in Nat BY <1>1
<1> HIDE DEF s, top, queue, d
<1>6. /\ first \in Seq(Fragment) /\ Len(first) = n /\ Slice(first, s, d)
      /\ rest \in Seq(Fragment) /\ Len(rest) = Len(queue) - n /\ Slice(rest, s, d + n)
  BY <1>1, <1>5, SliceSplit
<1> HIDE DEF first, rest
<1>7. Slice(delivered[p] \o first, s, 0) /\ Len(delivered[p] \o first) = d + n
  <2>1. Slice(first, s, 0 + Len(delivered[p]))
    <3>1. 0 + Len(delivered[p]) = d BY <1>1 DEF d
    <3> QED BY <3>1, <1>6, Zenon
  <2>2. /\ Slice(delivered[p] \o first, s, 0)
        /\ Len(delivered[p] \o first) = Len(delivered[p]) + Len(first)
    BY <2>1, <1>1, <1>6, SliceConcat
  <2> QED BY <2>2, <1>6 DEF d
<1>8. Slice(delivered'[p], s, 0) /\ Len(delivered'[p]) = d + n BY <1>3, <1>7, Zenon
<1>9. d + n \in Nat /\ (d + n) + Len(rest) = rcv_nxt[p] /\ Len(rest) <= RcvWnd
  BY <1>1, <1>5, <1>6, WndAssumption
<1>10. /\ rcv_nxt[p] <= rcv_nxt'[p] /\ rcv_nxt'[p] <= top
       /\ Buffered(rcv_buf'[p], s, rcv_nxt'[p], top)
       /\ Slice(rcv_queue'[p], s, d + n) /\ (d + n) + Len(rcv_queue'[p]) = rcv_nxt'[p]
       /\ Len(rcv_queue'[p]) <= RcvWnd
       /\ \A sn \in Nat : sn < rcv_nxt[p] \/ sn \in DOMAIN rcv_buf[p] => Holds(p, sn)'
       /\ \A q \in Peer \ {p} : /\ rcv_nxt'[q] = rcv_nxt[q] /\ rcv_buf'[q] = rcv_buf[q]
                                /\ rcv_queue'[q] = rcv_queue[q]
  BY <1>1, <1>2, <1>4, <1>6, <1>9, MoveFacts
<1>11. \A sn \in Nat : Holds(p, sn) => Holds(p, sn)' BY <1>10 DEF Holds
<1>12. Slice(rcv_queue'[p], s, Len(delivered'[p])) /\ Len(delivered'[p]) + Len(rcv_queue'[p]) = rcv_nxt'[p]
  BY <1>8, <1>10, Zenon
<1> QED BY <1>3, <1>8, <1>10, <1>11, <1>12 DEF s, top, d

LEMMA RecvInv ==
  ASSUME IInv, NEW p \in Peer, Recv(p)
  PROVE  IInv'
<1>1. TypeOK /\ TypeOK' BY RecvType DEF IInv
<1>2. PICK n \in 1..Len(rcv_queue[p]) :
        /\ delivered' = [delivered EXCEPT ![p] = @ \o SubSeq(rcv_queue[p], 1, n)]
        /\ MoveToQueue(p, rcv_buf[p], SubSeq(rcv_queue[p], n + 1, Len(rcv_queue[p])))
  BY DEF Recv
<1>3. /\ rcv_nxt[p] <= rcv_nxt'[p] /\ rcv_nxt'[p] <= snd_nxt[Other(p)]
      /\ Slice(delivered'[p], sent[Other(p)], 0)
      /\ Slice(rcv_queue'[p], sent[Other(p)], Len(delivered'[p]))
      /\ Len(delivered'[p]) + Len(rcv_queue'[p]) = rcv_nxt'[p]
      /\ Buffered(rcv_buf'[p], sent[Other(p)], rcv_nxt'[p], snd_nxt[Other(p)])
      /\ Len(rcv_queue'[p]) <= RcvWnd
      /\ \A sn \in Nat : Holds(p, sn) => Holds(p, sn)'
      /\ \A q \in Peer \ {p} : /\ rcv_nxt'[q] = rcv_nxt[q] /\ rcv_buf'[q] = rcv_buf[q]
                               /\ rcv_queue'[q] = rcv_queue[q]
                               /\ delivered'[q] = delivered[q]
  BY <1>2, RecvFacts
<1>4. UNCHANGED <<sent, snd_queue, snd_buf, snd_nxt, snd_una, acklist, in_call, in_segs, net>>
  BY DEF Recv, sndVars, inVars
<1>5. \A q \in Peer : Grows(q)
  <2> SUFFICES ASSUME NEW q \in Peer PROVE Grows(q)
    OBVIOUS
  <2>1. rcv_nxt[q] \in Nat /\ snd_nxt[q] \in Nat /\ Len(sent[q]) \in Nat
    BY <1>1, LenProperties DEF TypeOK
  <2>2. rcv_nxt[q] <= rcv_nxt'[q] /\ \A sn \in Nat : Holds(q, sn) => Holds(q, sn)'
    BY <2>1, <1>3 DEF Holds
  <2>3. snd_nxt[q] <= snd_nxt'[q] /\ Extends(sent[q], sent'[q]) BY <2>1, <1>4 DEF Extends
  <2> QED BY <2>2, <2>3 DEF Grows
<1>6. ASSUME NEW q \in Peer PROVE ReceivedInv(q)' /\ Len(rcv_queue'[q]) <= RcvWnd
  <2>1. CASE q = p BY <2>1, <1>3, <1>4 DEF ReceivedInv
  <2>2. CASE q # p
    <3>1. WndInv(q) BY DEF IInv
    <3> QED BY <3>1, <2>2, <1>1, <1>3, <1>5, ReceivedKept DEF WndInv
  <2> QED BY <2>1, <2>2
<1>7. \A q \in Peer : NetInv(q)' BY <1>1, <1>4, <1>5, NetKept
<1> QED BY <1>1, <1>4, <1>5, <1>6, <1>7, OnlyReceived

-----------------------------------------------------------------------------
(* ikcp_update and ikcp_flush *)

\* What a flush of p does to its sending half.
LEMMA FlushSending ==
  ASSUME IInv, NEW p \in Peer, NEW due \in SUBSET DOMAIN snd_buf[p],
         NEW timeout \in BOOLEAN, FlushWith(p, due, timeout)
  PROVE  /\ snd_nxt[p] <= snd_nxt'[p] /\ snd_nxt'[p] <= snd_una[p] + SndWnd
         /\ QueueInv(p)' /\ BufInv(p)' /\ KeptInv(p)'
         /\ IsOldest(snd_una[p], snd_buf'[p], snd_nxt'[p])
         /\ snd_buf'[p] = FlushedBuf(p, due, FastDue(p, due))
<1> DEFINE nxt == snd_nxt[p]
           n == FreshCount(p)
           queue == snd_queue[p]
           s == sent[p]
           old == DOMAIN snd_buf[p]
           buf == FlushedBuf(p, due, FastDue(p, due))
<1>1. TypeOK /\ QueueInv(p) /\ BufInv(p) /\ KeptInv(p) /\ WndInv(p) BY DEF IInv
<1>2. /\ nxt \in Nat /\ snd_una[p] \in Nat /\ queue \in Seq(Fragment) /\ s \in Seq(Fragment)
      /\ old \subseteq Nat /\ Len(queue) \in Nat
  BY <1>1, LenNat DEF TypeOK
<1>3. /\ n \in Nat /\ n <= Len(queue)
      /\ n > 0 => nxt + n <= snd_una[p] + SndWnd
      /\ Fresh(p) = nxt..(nxt + n - 1)
  BY <1>1, FreshFacts
<1>4. /\ DOMAIN buf = old \cup Fresh(p)
      /\ \A sn \in Fresh(p) : buf[sn].frag = queue[sn - nxt + 1]
      /\ \A sn \in old \ Fresh(p) : buf[sn].frag = snd_buf[p][sn].frag
  BY <1>1, FlushedBufFacts
<1>5. /\ snd_buf'[p] = buf /\ snd_nxt'[p] = nxt + n /\ snd_queue'[p] = Rest(queue, n)
      /\ sent'[p] = s
  BY <1>1 DEF FlushWith, TypeOK, Rest
<1>6. /\ Len(s) = nxt + Len(queue) /\ Slice(queue, s, nxt)
      /\ \A sn \in old : sn < nxt /\ snd_buf[p][sn].frag = s[sn + 1]
      /\ IsOldest(snd_una[p], snd_buf[p], nxt) /\ nxt <= snd_una[p] + SndWnd
  BY <1>1 DEF QueueInv, BufInv, WndInv
<1>7. UNCHANGED <<rcv_nxt, rcv_buf>> BY DEF FlushWith
<1>8. \A i \in 1..Len(queue) : queue[i] = s[nxt + i] BY <1>6 DEF Slice
<1> HIDE DEF buf, n, queue, s
<1>9. QueueInv(p)'
  <2>1. n \in 0..Len(queue) BY <1>2, <1>3
  <2>2. Len(Rest(queue, n)) = Len(queue) - n /\ Slice(Rest(queue, n), s, nxt + n)
    BY <2>1, <1>2, <1>6, SliceSplit
  <2>3. Len(s) = (nxt + n) + (Len(queue) - n) BY <1>2, <1>3, <1>6
  <2>4. Len(sent'[p]) = snd_nxt'[p] + Len(snd_queue'[p]) BY <2>2, <2>3, <1>5, Zenon
  <2>5. Slice(snd_queue'[p], sent'[p], snd_nxt'[p]) BY <2>2, <1>5, Zenon
  <2> QED BY <2>4, <2>5 DEF QueueInv
<1> HIDE DEF nxt, old
<1>10. \A sn \in DOMAIN buf : sn < nxt + n /\ buf[sn].frag = s[sn + 1]
  <2> SUFFICES ASSUME NEW sn \in DOMAIN buf PROVE sn < nxt + n /\ buf[sn].frag = s[sn + 1]
    OBVIOUS
  <2>1. CASE sn \in Fresh(p)
    <3>1. sn \in nxt..(nxt + n - 1) /\ buf[sn].frag = queue[sn - nxt + 1] BY <2>1, <1>3, <1>4
    <3>2. sn - nxt + 1 \in 1..Len(queue) /\ nxt + (sn - nxt + 1) = sn + 1 BY <3>1, <1>2, <1>3
    <3>3. queue[sn - nxt + 1] = s[sn + 1] BY <3>2, <1>8
    <3> QED BY <3>1, <3>3, <1>2, <1>3
  <2>2. CASE sn \notin Fresh(p)
    <3>1. sn \in old /\ buf[sn].frag = snd_buf[p][sn].frag BY <2>2, <1>4
    <3>2. sn \in Nat /\ sn < nxt /\ snd_buf[p][sn].frag = s[sn + 1] BY <3>1, <1>2, <1>6
    <3> QED BY <3>1, <3>2, <1>2, <1>3
  <2> QED BY <2>1, <2>2
<1>11. BufInv(p)' BY <1>5, <1>10 DEF BufInv
<1>12. KeptInv(p)'
  <2> SUFFICES ASSUME NEW sn \in 0..(snd_nxt'[p] - 1)
               PROVE  sn \in DOMAIN snd_buf'[p] \/ Holds(Other(p), sn)'
    BY DEF KeptInv
  <2>3. snd_nxt'[p] = nxt + n /\ snd_buf'[p] = buf BY <1>5
  <2>4. sn \in 0..(nxt + n - 1) BY <2>3, <1>2, <1>3
  <2>0. sn \in 0..(nxt + n - 1) /\ snd_buf'[p] = buf BY <2>3, <2>4
  <2>1. CASE sn < nxt
    <3>1. sn \in 0..(nxt - 1) BY <2>0, <2>1, <1>2, <1>3
    <3>2. sn \in old \/ Holds(Other(p), sn) BY <3>1, <1>1 DEF KeptInv, nxt, old
    <3> QED BY <2>0, <3>2, <1>4, <1>7 DEF Holds
  <2>2. CASE sn >= nxt
    <3>1. sn \in nxt..(nxt + n - 1) BY <2>0, <2>2, <1>2, <1>3
    <3> QED BY <2>0, <3>1, <1>3, <1>4
  <2> QED BY <2>0, <2>1, <2>2, <1>2, <1>3
<1>13. IsOldest(snd_una[p], buf, nxt + n)
  <2> DEFINE una == snd_una[p]
  <2>0. una \in Nat BY <1>2
  <2>1. \/ old # {} /\ una \in old /\ \A sn \in old : una <= sn
        \/ old = {} /\ una = nxt
    BY <1>6 DEF IsOldest, old
  <2>2. DOMAIN buf = old \cup nxt..(nxt + n - 1) BY <1>3, <1>4
  <2> HIDE DEF una
  <2>3. CASE old # {} /\ una \in old /\ \A sn \in old : una <= sn
    <3>1. una < nxt BY <2>3, <1>6
    <3>2. \A sn \in nxt..(nxt + n - 1) : una <= sn BY <2>0, <3>1, <1>2, <1>3
    <3>3. una \in DOMAIN buf /\ \A sn \in DOMAIN buf : una <= sn BY <2>2, <2>3, <3>2
    <3> QED BY <3>3 DEF IsOldest, una
  <2>4. CASE old = {} /\ una = nxt
    <3>1. CASE n = 0
      <4>1. DOMAIN buf = {} /\ una = nxt + n BY <2>2, <2>4, <3>1, <1>2
      <4> QED BY <4>1 DEF IsOldest, una
    <3>2. CASE n # 0
      <4>1. una \in DOMAIN buf /\ \A sn \in DOMAIN buf : una <= sn
        BY <2>2, <2>4, <3>2, <1>2, <1>3
      <4> QED BY <4>1 DEF IsOldest, una
    <3> QED BY <3>1, <3>2
  <2> QED BY <2>1, <2>3, <2>4
<1>14. nxt <= nxt + n /\ nxt + n <= snd_una[p] + SndWnd
  BY <1>2, <1>3, <1>6, WndAssumption
<1> QED BY <1>5, <1>9, <1>11, <1>12, <1>13, <1>14 DEF nxt, buf

\* What a flush of p puts on the network is true of p after the flush.
LEMMA FlushNet ==
  ASSUME IInv, NEW p \in Peer, NEW due \in SUBSET DOMAIN snd_buf[p],
         NEW timeout \in BOOLEAN, FlushWith(p, due, timeout), TypeOK',
         \A q \in Peer : Grows(q), BufInv(p)',
         snd_buf'[p] = FlushedBuf(p, due, FastDue(p, due))
  PROVE  net'[Other(p)] \in Seq(Seq(GoodSeg(p)'))
<1> DEFINE fast == FastDue(p, due)
           buf == FlushedBuf(p, due, fast)
           out == due \cup fast \cup Fresh(p)
           probes == ProbesToSend(p, timeout)
           G == GoodSeg(p)'
<1>1. TypeOK /\ NetInv(p) /\ NetInv(Other(p)) /\ Other(p) \in Peer /\ Other(Other(p)) = p
  BY OtherPeer DEF IInv
<1>2. PICK order \in Ascending(out) :
        net' = [net EXCEPT ![Other(p)] =
                  Deliverable(@ \o Datagrams(AckSegs(p) \o ProbeSegs(p, probes)
                                             \o PushSegs(p, buf, order)))]
  BY DEF FlushWith
<1>3. UNCHANGED <<rcv_nxt, rcv_buf, sent>> BY DEF FlushWith
<1>4. DOMAIN buf \subseteq Nat /\ IsFiniteSet(DOMAIN buf) /\ out \subseteq DOMAIN buf
  BY <1>1, FlushedBufFacts
<1>5. \A sn \in DOMAIN buf :
        sn < snd_nxt'[p] /\ buf[sn].frag = sent[p][sn + 1] /\ buf[sn].frag \in Fragment
  <2>1. \A sn \in DOMAIN snd_buf'[p] : snd_buf'[p][sn] \in Pending BY DEF TypeOK
  <2>2. \A sn \in DOMAIN snd_buf'[p] : snd_buf'[p][sn].frag \in Fragment BY <2>1 DEF Pending
  <2>3. \A sn \in DOMAIN snd_buf'[p] :
          sn < snd_nxt'[p] /\ snd_buf'[p][sn].frag = sent'[p][sn + 1]
    BY DEF BufInv
  <2> HIDE DEF buf
  <2>4. snd_buf'[p] = buf BY DEF buf
  <2> QED BY <2>2, <2>3, <2>4, <1>3
<1> HIDE DEF buf, out, probes, fast
<1>6. order \in Seq(out)
  <2>1. IsFiniteSet(out) BY <1>4, FS_Subset
  <2> QED BY <2>1, AscendingType
<1>7. rcv_nxt[p] \in Nat /\ WndUnused(p) % 65536 \in Nat /\ NoFrag \in Fragment
  <2>1. rcv_nxt[p] \in Nat /\ WndUnused(p) \in Nat /\ NoFrag \in Fragment
    BY <1>1, WndAssumption, LenProperties DEF WndUnused, TypeOK, NoFrag, Fragment
  <2> QED BY <2>1
<1>8. ASSUME NEW cmd \in Cmd, NEW sn \in Nat, NEW f \in Fragment,
             cmd = "ACK" => Holds(p, sn),
             cmd = "PUSH" => sn < snd_nxt'[p] /\ f = sent[p][sn + 1]
      PROVE  Seg(p, cmd, sn, f) \in G
  <2>1. ASSUME NEW g \in Segment, g.una = rcv_nxt[p], g.cmd = cmd, g.sn = sn, g.frag = f
        PROVE  g \in G
    <3>1. g.una <= rcv_nxt'[p] BY <2>1, <1>3, <1>7
    <3>2. Holds(p, sn) => Holds(p, sn)' BY <1>3 DEF Holds
    <3>3. g.cmd = "ACK" => Holds(p, g.sn)' BY <2>1, <3>2, <1>8
    <3>4. g.cmd = "PUSH" => g.sn < snd_nxt'[p] /\ g.frag = sent'[p][g.sn + 1]
      BY <2>1, <1>3, <1>8
    <3> QED BY <2>1, <3>1, <3>3, <3>4 DEF GoodSeg
  <2> DEFINE h == [cmd |-> cmd, sn |-> sn, frag |-> f, una |-> rcv_nxt[p],
                   wnd |-> WndUnused(p) % 65536]
  <2>2. h \in Segment /\ h.cmd = cmd /\ h.sn = sn /\ h.frag = f /\ h.una = rcv_nxt[p]
    BY <1>7 DEF Segment
  <2>3. Seg(p, cmd, sn, f) = h BY DEF Seg
  <2> HIDE DEF h, G
  <2>4. h \in G BY <2>1, <2>2
  <2> QED BY <2>3, <2>4
<1>9. acklist[p] \in Seq(Nat) /\ \A i \in 1..Len(acklist[p]) :
        acklist[p][i] \in Nat /\ Holds(p, acklist[p][i])
  <2>1. acklist[p] \in Seq(Nat) BY <1>1 DEF TypeOK
  <2>2. \A i \in 1..Len(acklist[p]) : acklist[p][i] \in Held(p)
    BY <1>1, ElementOfSeq DEF NetInv
  <2> QED BY <2>1, <2>2 DEF Held
<1>10. \A i \in 1..Len(acklist[p]) : Seg(p, "ACK", acklist[p][i], NoFrag) \in G
  BY <1>7, <1>8, <1>9 DEF Cmd
<1>11. Seg(p, "WASK", 0, NoFrag) \in G /\ Seg(p, "WINS", 0, NoFrag) \in G
  BY <1>7, <1>8 DEF Cmd
<1>12. \A sn \in out : Seg(p, "PUSH", sn, buf[sn].frag) \in G
  <2> SUFFICES ASSUME NEW sn \in out PROVE Seg(p, "PUSH", sn, buf[sn].frag) \in G
    OBVIOUS
  <2>1. sn \in Nat /\ sn < snd_nxt'[p] /\ buf[sn].frag = sent[p][sn + 1] /\ buf[sn].frag \in Fragment
    BY <1>4, <1>5
  <2> QED BY <2>1, <1>8 DEF Cmd
<1> HIDE DEF G
<1>13. Datagrams(AckSegs(p) \o ProbeSegs(p, probes) \o PushSegs(p, buf, order)) \in Seq(Seq(G))
  BY <1>6, <1>9, <1>10, <1>11, <1>12, FlushOutput
<1>14. net[Other(p)] \in Seq(Seq(G))
  <2>1. net[Other(p)] \in Seq(Seq(GoodSeg(p))) BY <1>1 DEF NetInv
  <2>2. Seq(Seq(GoodSeg(p))) \subseteq Seq(Seq(GoodSeg(p)')) BY GrowsStep
  <2> QED BY <2>1, <2>2 DEF G
<1>15. Deliverable(net[Other(p)] \o Datagrams(AckSegs(p) \o ProbeSegs(p, probes)
                                             \o PushSegs(p, buf, order)))
         \in Seq(Seq(G))
  BY <1>13, <1>14, ConcatProperties, DeliverableType
<1>16. net'[Other(p)] =
         Deliverable(net[Other(p)] \o Datagrams(AckSegs(p) \o ProbeSegs(p, probes)
                                             \o PushSegs(p, buf, order)))
  BY <1>1, <1>2 DEF TypeOK
<1> QED BY <1>15, <1>16, Zenon DEF G

LEMMA FlushInv ==
  ASSUME IInv, NEW p \in Peer, NEW due \in SUBSET DOMAIN snd_buf[p],
         NEW timeout \in BOOLEAN, FlushWith(p, due, timeout)
  PROVE  IInv'
<1>1. TypeOK /\ TypeOK' BY FlushType DEF IInv
<1>2. /\ snd_nxt[p] <= snd_nxt'[p] /\ snd_nxt'[p] <= snd_una[p] + SndWnd
      /\ QueueInv(p)' /\ BufInv(p)' /\ KeptInv(p)'
      /\ IsOldest(snd_una[p], snd_buf'[p], snd_nxt'[p])
      /\ snd_buf'[p] = FlushedBuf(p, due, FastDue(p, due))
  BY FlushSending
<1>3. /\ UNCHANGED <<sent, delivered, snd_una, rcv_queue, rcv_buf, rcv_nxt, in_call, in_segs>>
      /\ acklist' = [acklist EXCEPT ![p] = <<>>]
  BY DEF FlushWith, inVars
<1>4. \A q \in Peer : q # p => /\ snd_queue'[q] = snd_queue[q] /\ snd_buf'[q] = snd_buf[q]
                              /\ snd_nxt'[q] = snd_nxt[q] /\ acklist'[q] = acklist[q]
  BY <1>1 DEF FlushWith, TypeOK
<1>5. \A q \in Peer : q # Other(p) => net'[q] = net[q]
  BY <1>1 DEF FlushWith, TypeOK
<1>6. \A q \in Peer : Grows(q)
  <2> SUFFICES ASSUME NEW q \in Peer PROVE Grows(q)
    OBVIOUS
  <2>1. rcv_nxt[q] \in Nat /\ snd_nxt[q] \in Nat /\ Len(sent[q]) \in Nat
    BY <1>1, LenProperties DEF TypeOK
  <2>2. rcv_nxt[q] <= rcv_nxt'[q] /\ \A sn \in Nat : Holds(q, sn) => Holds(q, sn)'
    BY <2>1, <1>3 DEF Holds
  <2>3. snd_nxt[q] <= snd_nxt'[q] /\ Extends(sent[q], sent'[q])
    BY <2>1, <1>2, <1>3, <1>4 DEF Extends
  <2> QED BY <2>2, <2>3 DEF Grows
<1>7. net'[Other(p)] \in Seq(Seq(GoodSeg(p)')) BY <1>1, <1>2, <1>6, FlushNet
<1> SUFFICES ASSUME NEW q \in Peer
             PROVE  (/\ QueueInv(q) /\ BufInv(q) /\ KeptInv(q) /\ ReceivedInv(q)
                     /\ WndInv(q) /\ NetInv(q) /\ MessageInv(q))'
  BY <1>1 DEF IInv
<1>8. /\ QueueInv(q) /\ WndInv(q) /\ MessageInv(q) /\ NetInv(q)
      /\ Other(q) \in Peer /\ Other(Other(p)) = p /\ Other(p) # p /\ (q = p \/ q = Other(p))
  BY OtherPeer DEF IInv
<1>9. QueueInv(q)' BY <1>2, <1>3, <1>4, <1>8 DEF QueueInv
<1>10. BufInv(q)' /\ KeptInv(q)'
  <2>1. CASE q = p BY <2>1, <1>2
  <2>2. CASE q # p BY <2>2, <1>1, <1>3, <1>4, <1>6, SendingKept
  <2> QED BY <2>1, <2>2
<1>11. ReceivedInv(q)' BY <1>1, <1>3, <1>6, ReceivedKept
<1>12. WndInv(q)' BY <1>2, <1>3, <1>4, <1>8 DEF WndInv
<1>13. NetInv(q)'
  <2>1. CASE q = p
    <3>1. acklist'[p] \in Seq(Held(p)') BY <1>1, <1>3, EmptySeq DEF TypeOK
    <3>2. /\ Seq(GoodSeg(Other(p))) \subseteq Seq(GoodSeg(Other(p))')
          /\ Seq(Seq(GoodSeg(Other(p)))) \subseteq Seq(Seq(GoodSeg(Other(p))'))
      BY <2>1, <1>1, <1>6, <1>8, GrowsStep
    <3>3. net'[p] = net[p] BY <1>5, <1>8
    <3> QED BY <2>1, <3>1, <3>2, <3>3, <1>3, <1>8 DEF NetInv
  <2>2. CASE q = Other(p)
    <3>1. /\ Seq(Held(q)) \subseteq Seq(Held(q)')
          /\ Seq(GoodSeg(p)) \subseteq Seq(GoodSeg(p)')
      BY <1>1, <1>6, GrowsStep
    <3>2. acklist'[q] = acklist[q] /\ Other(q) = p BY <2>2, <1>4, <1>8
    <3> QED BY <2>2, <3>1, <3>2, <1>3, <1>7, <1>8 DEF NetInv
  <2> QED BY <2>1, <2>2, <1>8
<1>14. MessageInv(q)' BY <1>3, <1>8 DEF MessageInv
<1> QED BY <1>9, <1>10, <1>11, <1>12, <1>13, <1>14

-----------------------------------------------------------------------------
(* ikcp_input *)

LEMMA InputBeginInv ==
  ASSUME IInv, NEW p \in Peer, InputBegin(p)
  PROVE  IInv'
<1>1. TypeOK /\ TypeOK' BY InputBeginType DEF IInv
<1>2. /\ UNCHANGED <<sent, delivered, sndVars, rcvVars>>
      /\ in_call' = p /\ in_segs' = Head(net[p]) /\ net' = [net EXCEPT ![p] = Tail(@)]
      /\ net[p] # <<>>
  BY DEF InputBegin
<1>3. \A q \in Peer : Grows(q)
  <2> SUFFICES ASSUME NEW q \in Peer PROVE Grows(q)
    OBVIOUS
  <2>1. rcv_nxt[q] \in Nat /\ snd_nxt[q] \in Nat /\ Len(sent[q]) \in Nat
    BY <1>1, LenProperties DEF TypeOK
  <2> QED BY <2>1, <1>2 DEF Grows, Extends, Holds, sndVars, rcvVars
<1>4. ASSUME NEW q \in Peer PROVE NetInv(q)'
  <2>1. NetInv(q) /\ NetInv(p) /\ Other(p) \in Peer BY OtherPeer DEF IInv
  <2>2. CASE q = p
    <3>1. net[p] \in Seq(Seq(GoodSeg(Other(p)))) BY <2>1 DEF NetInv
    <3>2. Head(net[p]) \in Seq(GoodSeg(Other(p))) /\ Tail(net[p]) \in Seq(Seq(GoodSeg(Other(p))))
      BY <3>1, <1>2, HeadTailProperties
    <3>3. in_segs' \in Seq(GoodSeg(Other(p))) /\ net'[p] \in Seq(Seq(GoodSeg(Other(p))))
      BY <3>2, <1>1, <1>2 DEF TypeOK
    <3>4. /\ Seq(Held(p)) \subseteq Seq(Held(p)')
          /\ Seq(GoodSeg(Other(p))) \subseteq Seq(GoodSeg(Other(p))')
          /\ Seq(Seq(GoodSeg(Other(p)))) \subseteq Seq(Seq(GoodSeg(Other(p))'))
      BY <2>1, <1>1, <1>3, GrowsStep
    <3>5. acklist'[p] = acklist[p] BY <1>2 DEF rcvVars
    <3> QED BY <2>1, <2>2, <3>3, <3>4, <3>5 DEF NetInv
  <2>3. CASE q # p
    <3>1. net'[q] = net[q] /\ acklist'[q] = acklist[q] /\ in_call' # q
      BY <2>3, <1>1, <1>2 DEF TypeOK, rcvVars
    <3> QED BY <3>1, <1>1, <1>3, NetKept
  <2> QED BY <2>2, <2>3
<1>5. ASSUME NEW q \in Peer PROVE ReceivedInv(q)' /\ Len(rcv_queue'[q]) <= RcvWnd
  <2>1. WndInv(q) BY DEF IInv
  <2> QED BY <2>1, <1>1, <1>2, <1>3, ReceivedKept DEF WndInv, rcvVars
<1> QED BY <1>1, <1>2, <1>3, <1>4, <1>5, OnlyReceived DEF sndVars

\* The sending half of p after a segment, if what left snd_buf is with the receiver.
LEMMA HeaderFacts ==
  ASSUME IInv, NEW p \in Peer, NEW buf, ParseHeader(p, buf),
         DOMAIN buf \subseteq DOMAIN snd_buf[p],
         \A sn \in DOMAIN buf : buf[sn] = snd_buf[p][sn],
         \A sn \in DOMAIN snd_buf[p] : sn \in DOMAIN buf \/ Holds(Other(p), sn),
         rcv_nxt'[Other(p)] = rcv_nxt[Other(p)], rcv_buf'[Other(p)] = rcv_buf[Other(p)]
  PROVE  /\ BufInv(p)' /\ KeptInv(p)'
         /\ IsOldest(snd_una'[p], snd_buf'[p], snd_nxt'[p])
         /\ snd_nxt'[p] <= snd_una'[p] + SndWnd
         /\ \A q \in Peer \ {p} : snd_buf'[q] = snd_buf[q] /\ snd_una'[q] = snd_una[q]
<1>1. TypeOK /\ BufInv(p) /\ KeptInv(p) /\ WndInv(p) BY DEF IInv
<1>2. PICK una \in DOMAIN buf \cup {snd_nxt[p]} :
        /\ IsOldest(una, buf, snd_nxt[p])
        /\ snd_una' = [snd_una EXCEPT ![p] = una]
  BY DEF ParseHeader, ShrinkBuf
<1>3. /\ snd_buf'[p] = buf /\ snd_una'[p] = una /\ snd_nxt' = snd_nxt /\ sent' = sent
      /\ \A q \in Peer \ {p} : snd_buf'[q] = snd_buf[q] /\ snd_una'[q] = snd_una[q]
  BY <1>1, <1>2 DEF ParseHeader, TypeOK
<1>4. /\ snd_nxt[p] \in Nat /\ snd_una[p] \in Nat /\ DOMAIN snd_buf[p] \subseteq Nat
      /\ una \in Nat
  BY <1>1 DEF TypeOK
<1>5. BufInv(p)' BY <1>1, <1>3 DEF BufInv
<1>6. KeptInv(p)'
  <2>1. \A sn \in 0..(snd_nxt[p] - 1) : sn \in DOMAIN snd_buf[p] \/ Holds(Other(p), sn)
    BY <1>1 DEF KeptInv
  <2>2. \A sn \in 0..(snd_nxt[p] - 1) : sn \in DOMAIN buf \/ Holds(Other(p), sn) BY <2>1
  <2>3. \A sn : Holds(Other(p), sn) => Holds(Other(p), sn)' BY DEF Holds
  <2> QED BY <2>2, <2>3, <1>3 DEF KeptInv
<1>7. snd_una[p] <= una
  <2>1. IsOldest(snd_una[p], snd_buf[p], snd_nxt[p]) BY <1>1 DEF WndInv
  <2>2. \A sn \in DOMAIN snd_buf[p] : snd_una[p] <= sn BY <2>1 DEF IsOldest
  <2>3. snd_una[p] <= snd_nxt[p]
    <3>1. \A sn \in DOMAIN snd_buf[p] : sn < snd_nxt[p] BY <1>1 DEF BufInv
    <3> QED BY <2>1, <3>1, <1>4 DEF IsOldest
  <2> QED BY <2>2, <2>3, <1>2
<1>8. snd_nxt[p] <= una + SndWnd
  <2>1. snd_nxt[p] <= snd_una[p] + SndWnd BY <1>1 DEF WndInv
  <2> QED BY <2>1, <1>4, <1>7, WndAssumption
<1> QED BY <1>2, <1>3, <1>5, <1>6, <1>8

\* The whole invariant after a segment, given what it did to p's receiving half.
LEMMA SegmentInv ==
  ASSUME IInv, TypeOK', NEW p \in Peer, in_call = p, in_segs # <<>>,
         NEW buf, ParseHeader(p, buf),
         DOMAIN buf \subseteq DOMAIN snd_buf[p],
         \A sn \in DOMAIN buf : buf[sn] = snd_buf[p][sn],
         \A sn \in DOMAIN snd_buf[p] : sn \in DOMAIN buf \/ Holds(Other(p), sn),
         \A q \in Peer \ {p} : /\ rcv_nxt'[q] = rcv_nxt[q] /\ rcv_buf'[q] = rcv_buf[q]
                               /\ rcv_queue'[q] = rcv_queue[q] /\ acklist'[q] = acklist[q],
         rcv_nxt[p] <= rcv_nxt'[p], \A sn \in Nat : Holds(p, sn) => Holds(p, sn)',
         ReceivedInv(p)', Len(rcv_queue'[p]) <= RcvWnd,
         acklist'[p] \in Seq(Held(p)')
  PROVE  IInv'
<1>1. TypeOK /\ Other(p) \in Peer /\ Other(p) # p BY OtherPeer DEF IInv
<1>2. /\ UNCHANGED <<sent, delivered, snd_queue, snd_nxt, in_call, net>>
      /\ in_segs' = Tail(in_segs)
  BY DEF ParseHeader
<1>3. /\ BufInv(p)' /\ KeptInv(p)'
      /\ IsOldest(snd_una'[p], snd_buf'[p], snd_nxt'[p])
      /\ snd_nxt'[p] <= snd_una'[p] + SndWnd
      /\ \A q \in Peer \ {p} : snd_buf'[q] = snd_buf[q] /\ snd_una'[q] = snd_una[q]
  <2>1. rcv_nxt'[Other(p)] = rcv_nxt[Other(p)] /\ rcv_buf'[Other(p)] = rcv_buf[Other(p)]
    BY <1>1
  <2> QED BY <2>1, HeaderFacts
<1>4. \A q \in Peer : Grows(q)
  <2> SUFFICES ASSUME NEW q \in Peer PROVE Grows(q)
    OBVIOUS
  <2>1. rcv_nxt[q] \in Nat /\ snd_nxt[q] \in Nat /\ Len(sent[q]) \in Nat
    BY <1>1, LenProperties DEF TypeOK
  <2>2. snd_nxt[q] <= snd_nxt'[q] /\ Extends(sent[q], sent'[q]) BY <2>1, <1>2 DEF Extends
  <2>3. CASE q = p BY <2>2, <2>3 DEF Grows
  <2>4. CASE q # p
    <3>1. rcv_nxt'[q] = rcv_nxt[q] /\ rcv_buf'[q] = rcv_buf[q] BY <2>4
    <3>2. \A sn \in Nat : Holds(q, sn) => Holds(q, sn)' BY <3>1 DEF Holds
    <3> QED BY <2>1, <2>2, <3>1, <3>2 DEF Grows
  <2> QED BY <2>3, <2>4
<1> SUFFICES ASSUME NEW q \in Peer
             PROVE  (/\ QueueInv(q) /\ BufInv(q) /\ KeptInv(q) /\ ReceivedInv(q)
                     /\ WndInv(q) /\ NetInv(q) /\ MessageInv(q))'
  BY DEF IInv
<1>5. /\ QueueInv(q) /\ WndInv(q) /\ MessageInv(q) /\ NetInv(q) /\ NetInv(p)
  BY DEF IInv
<1>6. QueueInv(q)' /\ MessageInv(q)' BY <1>2, <1>5 DEF QueueInv, MessageInv
<1>7. CASE q = p
  <2>1. WndInv(p)' BY <1>3 DEF WndInv
  <2>2. NetInv(p)'
    <3>1. in_segs \in Seq(GoodSeg(Other(p))) BY <1>5 DEF NetInv
    <3>2. Tail(in_segs) \in Seq(GoodSeg(Other(p))) BY <3>1, HeadTailProperties
    <3>3. /\ Seq(GoodSeg(Other(p))) \subseteq Seq(GoodSeg(Other(p))')
          /\ Seq(Seq(GoodSeg(Other(p)))) \subseteq Seq(Seq(GoodSeg(Other(p))'))
      BY <1>1, <1>4, GrowsStep
    <3> QED BY <3>2, <3>3, <1>2, <1>5 DEF NetInv
  <2> QED BY <2>1, <2>2, <1>3, <1>6, <1>7
<1>8. CASE q # p
  <2>1. /\ snd_buf'[q] = snd_buf[q] /\ snd_una'[q] = snd_una[q] /\ snd_nxt'[q] = snd_nxt[q]
        /\ rcv_nxt'[q] = rcv_nxt[q] /\ rcv_buf'[q] = rcv_buf[q] /\ rcv_queue'[q] = rcv_queue[q]
        /\ acklist'[q] = acklist[q] /\ net'[q] = net[q] /\ delivered'[q] = delivered[q]
        /\ in_call' # q
    BY <1>2, <1>3, <1>8
  <2>2. BufInv(q)' /\ KeptInv(q)' BY <2>1, <1>4, SendingKept
  <2>3. ReceivedInv(q)' BY <2>1, <1>4, ReceivedKept
  <2>4. NetInv(q)' BY <2>1, <1>4, NetKept
  <2>5. WndInv(q)' BY <2>1, <1>5 DEF WndInv, IsOldest
  <2> QED BY <2>2, <2>3, <2>4, <2>5, <1>6
<1> QED BY <1>7, <1>8

\* What the segment being parsed says is true of the peer that sent it.
LEMMA ParsedSeg ==
  ASSUME IInv, NEW p \in Peer, in_call = p, in_segs # <<>>
  PROVE  /\ Head(in_segs) \in Segment
         /\ Head(in_segs).una <= rcv_nxt[Other(p)]
         /\ Head(in_segs).cmd = "ACK" => Holds(Other(p), Head(in_segs).sn)
         /\ Head(in_segs).cmd = "PUSH" =>
              /\ Head(in_segs).sn < snd_nxt[Other(p)]
              /\ Head(in_segs).frag = sent[Other(p)][Head(in_segs).sn + 1]
         /\ \A sn \in DOMAIN snd_buf[p] : sn \in DOMAIN ParseUna(p) \/ Holds(Other(p), sn)
<1>1. TypeOK /\ NetInv(p) /\ Other(p) \in Peer BY OtherPeer DEF IInv
<1>2. in_segs \in Seq(GoodSeg(Other(p))) BY <1>1 DEF NetInv
<1>3. Head(in_segs) \in GoodSeg(Other(p)) BY <1>2, HeadTailProperties
<1> DEFINE g == Head(in_segs)
<1> HIDE DEF g
<1>4. /\ g \in Segment /\ g.una <= rcv_nxt[Other(p)]
      /\ g.cmd = "ACK" => Holds(Other(p), g.sn)
      /\ g.cmd = "PUSH" => g.sn < snd_nxt[Other(p)] /\ g.frag = sent[Other(p)][g.sn + 1]
  BY <1>3 DEF GoodSeg, g
<1>5. ASSUME NEW sn \in DOMAIN snd_buf[p] PROVE sn \in DOMAIN ParseUna(p) \/ Holds(Other(p), sn)
  <2>1. sn \in Nat /\ g.una \in Nat /\ rcv_nxt[Other(p)] \in Nat
    BY <1>1, <1>4 DEF TypeOK, Segment
  <2>2. DOMAIN ParseUna(p) = {n \in DOMAIN snd_buf[p] : n >= g.una}
    BY ParseUnaFacts DEF g
  <2>3. CASE sn >= g.una BY <2>2, <2>3
  <2>4. CASE sn < g.una
    <3>1. sn < rcv_nxt[Other(p)] BY <2>1, <2>4, <1>4
    <3> QED BY <3>1 DEF Holds
  <2> QED BY <2>1, <2>3, <2>4
<1> QED BY <1>4, <1>5 DEF g

\* A segment that leaves the receiving half as it is.
LEMMA HeaderOnlyInv ==
  ASSUME IInv, TypeOK', NEW p \in Peer, in_call = p, in_segs # <<>>,
         NEW buf, ParseHeader(p, buf),
         DOMAIN buf \subseteq DOMAIN snd_buf[p],
         \A sn \in DOMAIN buf : buf[sn] = snd_buf[p][sn],
         \A sn \in DOMAIN snd_buf[p] : sn \in DOMAIN buf \/ Holds(Other(p), sn),
         UNCHANGED rcvVars
  PROVE  IInv'
<1>1. TypeOK /\ ReceivedInv(p) /\ WndInv(p) /\ NetInv(p) BY DEF IInv
<1>2. rcv_nxt[p] \in Nat BY <1>1 DEF TypeOK
<1>3. /\ UNCHANGED <<rcv_queue, rcv_buf, rcv_nxt, acklist>>
      /\ UNCHANGED <<sent, delivered, snd_nxt>>
  BY DEF ParseHeader, rcvVars
<1>4. ReceivedInv(p)' BY <1>1, <1>3 DEF ReceivedInv
<1>5. \A sn \in Nat : Holds(p, sn) => Holds(p, sn)' BY <1>3 DEF Holds
<1>6. acklist'[p] \in Seq(Held(p)')
  <2>1. Held(p)' = Held(p) BY <1>3 DEF Held, Holds
  <2> QED BY <2>1, <1>1, <1>3 DEF NetInv
<1>7. Len(rcv_queue'[p]) <= RcvWnd /\ rcv_nxt[p] <= rcv_nxt'[p]
  BY <1>1, <1>2, <1>3 DEF WndInv
<1> QED BY <1>3, <1>4, <1>5, <1>6, <1>7, SegmentInv

LEMMA InputProbeInv ==
  ASSUME IInv, NEW p \in Peer, InputWask(p) \/ InputWins(p)
  PROVE  IInv'
<1>1. TypeOK /\ TypeOK' BY InputProbeType DEF IInv
<1>2. in_call = p /\ in_segs # <<>> /\ ParseHeader(p, ParseUna(p)) /\ UNCHANGED rcvVars
  BY DEF InputWask, InputWins, Parsing
<1>3. /\ DOMAIN ParseUna(p) \subseteq DOMAIN snd_buf[p]
      /\ \A sn \in DOMAIN ParseUna(p) : ParseUna(p)[sn] = snd_buf[p][sn]
  BY ParseUnaFacts
<1>4. \A sn \in DOMAIN snd_buf[p] : sn \in DOMAIN ParseUna(p) \/ Holds(Other(p), sn)
  BY <1>2, ParsedSeg
<1> QED BY <1>1, <1>2, <1>3, <1>4, HeaderOnlyInv

LEMMA InputAckInv ==
  ASSUME IInv, NEW p \in Peer, InputAck(p)
  PROVE  IInv'
<1>1. TypeOK /\ TypeOK' BY InputAckType DEF IInv
<1>2. PICK una \in DOMAIN ParseUna(p) \cup {snd_nxt[p]} :
        ParseHeader(p, ParseAck(ParseUna(p), una, snd_nxt[p], Head(in_segs).sn))
  BY DEF InputAck
<1> DEFINE buf == ParseAck(ParseUna(p), una, snd_nxt[p], Head(in_segs).sn)
<1>3. in_call = p /\ in_segs # <<>> /\ Head(in_segs).cmd = "ACK" /\ UNCHANGED rcvVars
  BY DEF InputAck, Parsing
<1>4. /\ DOMAIN ParseUna(p) \subseteq DOMAIN snd_buf[p]
      /\ \A sn \in DOMAIN ParseUna(p) : ParseUna(p)[sn] = snd_buf[p][sn]
  BY ParseUnaFacts
<1>5. /\ DOMAIN buf \subseteq DOMAIN ParseUna(p)
      /\ DOMAIN ParseUna(p) \subseteq DOMAIN buf \cup {Head(in_segs).sn}
      /\ \A sn \in DOMAIN buf : buf[sn] = ParseUna(p)[sn]
  BY ParseAckFacts
<1>6. /\ Holds(Other(p), Head(in_segs).sn)
      /\ \A sn \in DOMAIN snd_buf[p] : sn \in DOMAIN ParseUna(p) \/ Holds(Other(p), sn)
  BY <1>3, ParsedSeg
<1>7. ParseHeader(p, buf) BY <1>2
<1> HIDE DEF buf
<1>8. /\ DOMAIN buf \subseteq DOMAIN snd_buf[p]
      /\ \A sn \in DOMAIN buf : buf[sn] = snd_buf[p][sn]
  BY <1>4, <1>5
<1>9. \A sn \in DOMAIN snd_buf[p] : sn \in DOMAIN buf \/ Holds(Other(p), sn)
  BY <1>5, <1>6
<1> QED BY <1>1, <1>3, <1>7, <1>8, <1>9, HeaderOnlyInv

\* ikcp_parse_data puts a segment of the window in the place of its number.
LEMMA ParseDataFacts ==
  ASSUME IInv, NEW p \in Peer, NEW sn \in Nat, NEW frag,
         sn >= rcv_nxt[p], sn < rcv_nxt[p] + RcvWnd, sn < snd_nxt[Other(p)],
         frag = sent[Other(p)][sn + 1], ParseData(p, sn, frag)
  PROVE  LET s == sent[Other(p)] IN
         /\ rcv_nxt[p] <= rcv_nxt'[p] /\ rcv_nxt'[p] <= snd_nxt[Other(p)]
         /\ Slice(rcv_queue'[p], s, Len(delivered[p]))
         /\ Len(delivered[p]) + Len(rcv_queue'[p]) = rcv_nxt'[p]
         /\ Buffered(rcv_buf'[p], s, rcv_nxt'[p], snd_nxt[Other(p)])
         /\ Len(rcv_queue'[p]) <= RcvWnd
         /\ \A n \in Nat : Holds(p, n) \/ n = sn => Holds(p, n)'
         /\ \A q \in Peer \ {p} : /\ rcv_nxt'[q] = rcv_nxt[q] /\ rcv_buf'[q] = rcv_buf[q]
                                  /\ rcv_queue'[q] = rcv_queue[q]
<1> DEFINE s == sent[Other(p)]
           top == snd_nxt[Other(p)]
           d == Len(delivered[p])
           buf == [n \in DOMAIN rcv_buf[p] \cup {sn} |->
                     IF n \in DOMAIN rcv_buf[p] THEN rcv_buf[p][n] ELSE frag]
<1>1. /\ s \in Seq(Fragment) /\ top \in Nat /\ top <= Len(s)
      /\ rcv_nxt[p] \in Nat /\ rcv_nxt[p] <= top
      /\ rcv_queue[p] \in Seq(Fragment) /\ d \in Nat
      /\ d + Len(rcv_queue[p]) = rcv_nxt[p] /\ Slice(rcv_queue[p], s, d)
      /\ Buffered(rcv_buf[p], s, rcv_nxt[p], top) /\ Len(rcv_queue[p]) <= RcvWnd
  BY ReceivingHalf
<1>2. TypeOK BY DEF IInv
<1>3. MoveToQueue(p, buf, rcv_queue[p]) BY DEF ParseData
<1>4. /\ DOMAIN buf = DOMAIN rcv_buf[p] \cup {sn}
      /\ \A n \in DOMAIN rcv_buf[p] : buf[n] = rcv_buf[p][n]
      /\ sn \notin DOMAIN rcv_buf[p] => buf[sn] = frag
  OBVIOUS
<1> HIDE DEF buf
<1>5. Buffered(buf, s, rcv_nxt[p], top) BY <1>1, <1>4 DEF Buffered
<1> HIDE DEF s, top, d
<1>6. /\ rcv_nxt[p] <= rcv_nxt'[p] /\ rcv_nxt'[p] <= top
      /\ Buffered(rcv_buf'[p], s, rcv_nxt'[p], top)
      /\ Slice(rcv_queue'[p], s, d) /\ d + Len(rcv_queue'[p]) = rcv_nxt'[p]
      /\ Len(rcv_queue'[p]) <= RcvWnd
      /\ \A n \in Nat : n < rcv_nxt[p] \/ n \in DOMAIN buf => Holds(p, n)'
      /\ \A q \in Peer \ {p} : /\ rcv_nxt'[q] = rcv_nxt[q] /\ rcv_buf'[q] = rcv_buf[q]
                               /\ rcv_queue'[q] = rcv_queue[q]
  BY <1>1, <1>2, <1>3, <1>5, MoveFacts
<1>7. \A n \in Nat : Holds(p, n) \/ n = sn => Holds(p, n)' BY <1>4, <1>6 DEF Holds
<1> QED BY <1>6, <1>7 DEF s, top, d

LEMMA InputPushInv ==
  ASSUME IInv, NEW p \in Peer, InputPush(p)
  PROVE  IInv'
<1>1. TypeOK /\ TypeOK' BY InputPushType DEF IInv
<1> DEFINE sn == Head(in_segs).sn
           frag == Head(in_segs).frag
<1>2. /\ in_call = p /\ in_segs # <<>> /\ Head(in_segs).cmd = "PUSH"
      /\ ParseHeader(p, ParseUna(p))
  BY DEF InputPush, Parsing
<1>3. /\ DOMAIN ParseUna(p) \subseteq DOMAIN snd_buf[p]
      /\ \A n \in DOMAIN ParseUna(p) : ParseUna(p)[n] = snd_buf[p][n]
  BY ParseUnaFacts
<1>4. /\ Head(in_segs) \in Segment
      /\ sn < snd_nxt[Other(p)] /\ frag = sent[Other(p)][sn + 1]
      /\ \A n \in DOMAIN snd_buf[p] : n \in DOMAIN ParseUna(p) \/ Holds(Other(p), n)
  BY <1>2, ParsedSeg
<1>5. \/ UNCHANGED rcvVars
      \/ /\ sn < rcv_nxt[p] + RcvWnd
         /\ acklist' = [acklist EXCEPT ![p] = Append(@, sn)]
         /\ \/ sn < rcv_nxt[p] /\ UNCHANGED <<rcv_queue, rcv_buf, rcv_nxt>>
            \/ sn >= rcv_nxt[p] /\ ParseData(p, sn, frag)
  BY DEF InputPush
<1>6. sn \in Nat BY <1>4 DEF Segment
<1>7. ReceivedInv(p) /\ WndInv(p) /\ NetInv(p) BY DEF IInv
<1>8. UNCHANGED <<sent, delivered, snd_nxt>> BY <1>2 DEF ParseHeader
<1>9. rcv_nxt[p] \in Nat BY <1>1 DEF TypeOK
<1> HIDE DEF sn, frag
<1>10. CASE UNCHANGED rcvVars BY <1>1, <1>2, <1>3, <1>4, <1>10, HeaderOnlyInv
<1>11. ASSUME acklist' = [acklist EXCEPT ![p] = Append(@, sn)],
              rcv_nxt[p] <= rcv_nxt'[p], ReceivedInv(p)', Len(rcv_queue'[p]) <= RcvWnd,
              \A n \in Nat : Holds(p, n) \/ n = sn => Holds(p, n)',
              \A q \in Peer \ {p} : /\ rcv_nxt'[q] = rcv_nxt[q] /\ rcv_buf'[q] = rcv_buf[q]
                                    /\ rcv_queue'[q] = rcv_queue[q]
       PROVE  IInv'
  <2>1. /\ acklist'[p] = Append(acklist[p], sn)
        /\ \A q \in Peer \ {p} : acklist'[q] = acklist[q]
    BY <1>1, <1>11 DEF TypeOK
  <2>2. acklist'[p] \in Seq(Held(p)')
    <3>1. Held(p) \subseteq Held(p)' /\ sn \in Held(p)' BY <1>6, <1>11 DEF Held
    <3>2. acklist[p] \in Seq(Held(p)) BY <1>7 DEF NetInv
    <3>3. acklist[p] \in Seq(Held(p)') BY <3>1, <3>2, SeqMonotonic
    <3>4. Append(acklist[p], sn) \in Seq(Held(p)') BY <3>1, <3>3, AppendProperties
    <3> QED BY <3>4, <2>1
  <2>3. \A n \in Nat : Holds(p, n) => Holds(p, n)' BY <1>11
  <2>4. \A q \in Peer \ {p} : /\ rcv_nxt'[q] = rcv_nxt[q] /\ rcv_buf'[q] = rcv_buf[q]
                              /\ rcv_queue'[q] = rcv_queue[q] /\ acklist'[q] = acklist[q]
    BY <2>1, <1>11
  <2> QED BY <1>1, <1>2, <1>3, <1>4, <1>11, <2>2, <2>3, <2>4, SegmentInv
<1>12. CASE /\ acklist' = [acklist EXCEPT ![p] = Append(@, sn)]
            /\ sn < rcv_nxt[p] /\ UNCHANGED <<rcv_queue, rcv_buf, rcv_nxt>>
  <2>1. ReceivedInv(p)' BY <1>7, <1>8, <1>12 DEF ReceivedInv
  <2>2. \A n \in Nat : Holds(p, n) \/ n = sn => Holds(p, n)' BY <1>12 DEF Holds
  <2>3. rcv_nxt[p] <= rcv_nxt'[p] /\ Len(rcv_queue'[p]) <= RcvWnd
    BY <1>7, <1>9, <1>12 DEF WndInv
  <2> QED BY <1>11, <1>12, <2>1, <2>2, <2>3
<1>13. CASE /\ acklist' = [acklist EXCEPT ![p] = Append(@, sn)]
            /\ sn < rcv_nxt[p] + RcvWnd /\ sn >= rcv_nxt[p] /\ ParseData(p, sn, frag)
  <2>1. /\ rcv_nxt[p] <= rcv_nxt'[p] /\ rcv_nxt'[p] <= snd_nxt[Other(p)]
        /\ Slice(rcv_queue'[p], sent[Other(p)], Len(delivered[p]))
        /\ Len(delivered[p]) + Len(rcv_queue'[p]) = rcv_nxt'[p]
        /\ Buffered(rcv_buf'[p], sent[Other(p)], rcv_nxt'[p], snd_nxt[Other(p)])
        /\ Len(rcv_queue'[p]) <= RcvWnd
        /\ \A n \in Nat : Holds(p, n) \/ n = sn => Holds(p, n)'
        /\ \A q \in Peer \ {p} : /\ rcv_nxt'[q] = rcv_nxt[q] /\ rcv_buf'[q] = rcv_buf[q]
                                 /\ rcv_queue'[q] = rcv_queue[q]
    BY <1>4, <1>6, <1>13, ParseDataFacts
  <2>2. Slice(delivered[p], sent[Other(p)], 0) BY <1>7 DEF ReceivedInv
  <2>3. ReceivedInv(p)' BY <2>1, <2>2, <1>8 DEF ReceivedInv
  <2> QED BY <1>11, <1>13, <2>1, <2>3
<1> QED BY <1>5, <1>10, <1>12, <1>13

LEMMA InputEndInv ==
  ASSUME IInv, NEW p \in Peer, InputEnd(p)
  PROVE  IInv'
<1>1. TypeOK /\ TypeOK' BY InputEndType DEF IInv
<1>2. /\ UNCHANGED <<sent, delivered, snd_queue, snd_nxt, snd_una, in_segs, net>>
      /\ UNCHANGED <<rcv_queue, rcv_buf, rcv_nxt, acklist>>
      /\ in_call' = "none" /\ snd_buf' = [snd_buf EXCEPT ![p] = ParseFastack(p)]
  BY DEF InputEnd, rcvVars
<1>3. \A q \in Peer : Grows(q)
  <2> SUFFICES ASSUME NEW q \in Peer PROVE Grows(q)
    OBVIOUS
  <2>1. rcv_nxt[q] \in Nat /\ snd_nxt[q] \in Nat /\ Len(sent[q]) \in Nat
    BY <1>1, LenProperties DEF TypeOK
  <2> QED BY <2>1, <1>2 DEF Grows, Extends, Holds
<1>4. ASSUME NEW q \in Peer
      PROVE  /\ DOMAIN snd_buf'[q] = DOMAIN snd_buf[q]
             /\ \A sn \in DOMAIN snd_buf[q] : snd_buf'[q][sn].frag = snd_buf[q][sn].frag
  <2>1. /\ DOMAIN ParseFastack(p) = DOMAIN snd_buf[p]
        /\ \A sn \in DOMAIN snd_buf[p] : ParseFastack(p)[sn].frag = snd_buf[p][sn].frag
    BY <1>1, ParseFastackFacts
  <2>2. snd_buf'[p] = ParseFastack(p) /\ (q # p => snd_buf'[q] = snd_buf[q])
    BY <1>1, <1>2 DEF TypeOK
  <2> QED BY <2>1, <2>2
<1> SUFFICES ASSUME NEW q \in Peer
             PROVE  (/\ QueueInv(q) /\ BufInv(q) /\ KeptInv(q) /\ ReceivedInv(q)
                     /\ WndInv(q) /\ NetInv(q) /\ MessageInv(q))'
  BY <1>1 DEF IInv
<1>5. /\ QueueInv(q) /\ BufInv(q) /\ KeptInv(q) /\ WndInv(q) /\ MessageInv(q)
  BY DEF IInv
<1>6. NetInv(q)'
  <2>1. in_call' # q BY <1>2, OtherPeer
  <2> QED BY <2>1, <1>1, <1>2, <1>3, NetKept
<1>7. ReceivedInv(q)' BY <1>1, <1>2, <1>3, ReceivedKept
<1>8. BufInv(q)' BY <1>2, <1>4, <1>5 DEF BufInv
<1>9. KeptInv(q)' BY <1>2, <1>4, <1>5 DEF KeptInv, Holds
<1>10. WndInv(q)' BY <1>2, <1>4, <1>5 DEF WndInv, IsOldest
<1> QED BY <1>2, <1>5, <1>6, <1>7, <1>8, <1>9, <1>10 DEF QueueInv, MessageInv

-----------------------------------------------------------------------------
(* The network *)

LEMMA FaultInv ==
  ASSUME IInv, NEW p \in Peer, Lose(p) \/ Duplicate(p) \/ Delay(p)
  PROVE  IInv'
<1>1. TypeOK /\ TypeOK' BY FaultType DEF IInv
<1> DEFINE G == Seq(GoodSeg(Other(p)))
<1>2. net[p] \in Seq(G) /\ Len(net[p]) \in Nat
  <2>1. NetInv(p) BY DEF IInv
  <2> QED BY <2>1, LenProperties DEF NetInv
<1> HIDE DEF G
<1>3. \A i \in 1..Len(net[p]) :
        /\ RemoveAt(net[p], i) \in Seq(G)
        /\ Append(net[p], net[p][i]) \in Seq(G)
        /\ Append(RemoveAt(net[p], i), net[p][i]) \in Seq(G)
  BY <1>2, RemoveAtType, AppendProperties
<1>4. PICK queue \in Seq(G) : Fault(queue, p)
  <2>1. 1..(Len(net[p]) - 1) \subseteq 1..Len(net[p]) BY <1>2
  <2>2. CASE Lose(p) BY <1>3, <2>2 DEF Lose
  <2>3. CASE Duplicate(p) BY <1>3, <2>3 DEF Duplicate
  <2>4. CASE Delay(p) BY <1>3, <2>1, <2>4 DEF Delay
  <2> QED BY <2>2, <2>3, <2>4
<1>5. /\ UNCHANGED <<sent, delivered, snd_queue, snd_buf, snd_nxt, snd_una>>
      /\ UNCHANGED <<rcv_queue, rcv_buf, rcv_nxt, acklist, in_call, in_segs>>
      /\ net' = [net EXCEPT ![p] = queue] /\ in_call = "none"
  BY <1>4 DEF Fault, sndVars, rcvVars, inVars, Idle
<1>6. \A q \in Peer : Grows(q)
  <2> SUFFICES ASSUME NEW q \in Peer PROVE Grows(q)
    OBVIOUS
  <2>1. rcv_nxt[q] \in Nat /\ snd_nxt[q] \in Nat /\ Len(sent[q]) \in Nat
    BY <1>1, LenProperties DEF TypeOK
  <2> QED BY <2>1, <1>5 DEF Grows, Extends, Holds
<1>7. ASSUME NEW q \in Peer PROVE NetInv(q)'
  <2>1. CASE q = p
    <3>1. /\ Seq(Held(p)) \subseteq Seq(Held(p)')
          /\ Seq(Seq(GoodSeg(Other(p)))) \subseteq Seq(Seq(GoodSeg(Other(p))'))
      BY <1>1, <1>6, GrowsStep, OtherPeer
    <3>2. net'[p] \in Seq(Seq(GoodSeg(Other(p)))) BY <1>1, <1>4, <1>5 DEF TypeOK, G
    <3>3. NetInv(p) /\ in_call' # p BY <1>5, OtherPeer DEF IInv
    <3> QED BY <2>1, <3>1, <3>2, <3>3, <1>5 DEF NetInv
  <2>2. CASE q # p
    <3>1. net'[q] = net[q] BY <2>2, <1>1, <1>5 DEF TypeOK
    <3> QED BY <3>1, <1>1, <1>5, <1>6, NetKept
  <2> QED BY <2>1, <2>2
<1>8. ASSUME NEW q \in Peer PROVE ReceivedInv(q)' /\ Len(rcv_queue'[q]) <= RcvWnd
  <2>1. WndInv(q) BY DEF IInv
  <2> QED BY <2>1, <1>1, <1>5, <1>6, ReceivedKept DEF WndInv
<1> QED BY <1>1, <1>5, <1>6, <1>7, <1>8, OnlyReceived

-----------------------------------------------------------------------------
(* The invariant holds, and what follows from it *)

LEMMA StutterInv == IInv /\ UNCHANGED vars => IInv'
<1> SUFFICES ASSUME IInv, UNCHANGED vars PROVE IInv'
  OBVIOUS
<1>1. TypeOK /\ TypeOK' BY TypeStep DEF IInv
<1>2. /\ UNCHANGED <<sent, delivered, snd_queue, snd_buf, snd_nxt, snd_una>>
      /\ UNCHANGED <<rcv_queue, rcv_buf, rcv_nxt, acklist, in_call, in_segs, net>>
  BY DEF vars, sndVars, rcvVars, inVars
<1>3. \A q \in Peer : Grows(q)
  <2> SUFFICES ASSUME NEW q \in Peer PROVE Grows(q)
    OBVIOUS
  <2>1. rcv_nxt[q] \in Nat /\ snd_nxt[q] \in Nat /\ Len(sent[q]) \in Nat
    BY <1>1, LenProperties DEF TypeOK
  <2> QED BY <2>1, <1>2 DEF Grows, Extends, Holds
<1>4. ASSUME NEW q \in Peer PROVE ReceivedInv(q)' /\ Len(rcv_queue'[q]) <= RcvWnd
  <2>1. WndInv(q) BY DEF IInv
  <2> QED BY <2>1, <1>1, <1>2, <1>3, ReceivedKept DEF WndInv
<1>5. \A q \in Peer : NetInv(q)' BY <1>1, <1>2, <1>3, NetKept
<1> QED BY <1>1, <1>2, <1>3, <1>4, <1>5, OnlyReceived

LEMMA NextInv == IInv /\ [Next]_vars => IInv'
<1> SUFFICES ASSUME IInv, [Next]_vars PROVE IInv'
  OBVIOUS
<1>1. CASE UNCHANGED vars BY <1>1, StutterInv
<1>2. ASSUME NEW p \in Peer, Update(p) PROVE IInv'
  BY <1>2, FlushInv DEF Update
<1>3. ASSUME NEW p \in Peer, InputStep(p) PROVE IInv'
  BY <1>3, InputAckInv, InputPushInv, InputProbeInv, InputEndInv DEF InputStep
<1> QED BY <1>1, <1>2, <1>3, SendInv, RecvInv, InputBeginInv, FaultInv DEF Next

(***************************************************************************)
(* The inductive invariant: wherever a fragment is (a queue, a buffer, a   *)
(* datagram), it carries the number of its place in what its sender was    *)
(* given, and every acknowledgement on its way, however late, is still     *)
(* true.                                                                   *)
(***************************************************************************)
THEOREM Invariance == Spec => []IInv
BY InitInv, NextInv, PTL DEF Spec

(***************************************************************************)
(* ikcp_parse_ack and ikcp_parse_una free only what the receiver has:      *)
(* every numbered segment is kept for retransmission or held by the peer,  *)
(* whatever the network loses, repeats or reorders.                        *)
(***************************************************************************)
THEOREM NoSegmentForgotten == Spec => []NothingForgotten
<1>1. IInv => NothingForgotten BY DEF IInv, KeptInv, NothingForgotten
<1> QED BY <1>1, Invariance, PTL

(***************************************************************************)
(* ikcp_shrink_buf keeps snd_una exact, though ikcp_flush adds to snd_buf  *)
(* without calling it.                                                     *)
(***************************************************************************)
THEOREM UnaIsOldest == Spec => []OldestUnacked
<1>1. IInv => OldestUnacked BY DEF IInv, WndInv, OldestUnacked
<1> QED BY <1>1, Invariance, PTL

(***************************************************************************)
(* The send window of ikcp_flush and the receive window of ikcp_input and  *)
(* ikcp_recv hold for every window size.                                   *)
(***************************************************************************)
THEOREM WindowsHold == Spec => []WindowRespected
<1>1. ASSUME IInv, NEW p \in Peer
      PROVE  DOMAIN rcv_buf[p] \subseteq rcv_nxt[p]..(rcv_nxt[p] + RcvWnd - 1)
  <2>1. TypeOK /\ ReceivedInv(p) BY <1>1 DEF IInv
  <2>2. rcv_nxt[p] \in Nat /\ RcvWnd \in Nat BY <2>1, WndAssumption DEF TypeOK
  <2>3. Buffered(rcv_buf[p], sent[Other(p)], rcv_nxt[p], snd_nxt[Other(p)])
    BY <2>1 DEF ReceivedInv
  <2>4. \A sn \in DOMAIN rcv_buf[p] :
          sn \in Nat /\ sn >= rcv_nxt[p] /\ sn < rcv_nxt[p] + RcvWnd
    BY <2>3 DEF Buffered
  <2> QED BY <2>2, <2>4
<1>2. IInv => WindowRespected BY <1>1 DEF IInv, WndInv, WindowRespected
<1> QED BY <1>2, Invariance, PTL

-----------------------------------------------------------------------------
(* The channel *)

\* The merge loop of ikcp_recv stops at the end of the message, not of the queue.
LEMMA WholeMessage ==
  ASSUME NEW s \in Seq(Fragment), NEW q \in Seq(Fragment), NEW d \in Nat,
         Slice(q, s, d), Messages(s), MessageReady(q),
         NEW n \in 1..Len(q), Takes(q, n)
  PROVE  /\ d + n \in (d + 1)..Len(s) /\ s[d + n].frg = 0
         /\ \A i \in (d + 1)..(d + n - 1) : s[i].frg # 0
<1>1. Len(q) \in Nat /\ Len(s) \in Nat /\ n \in Nat BY LenNat
<1>2. /\ d + Len(q) <= Len(s)
      /\ \A i \in 1..Len(q) : q[i] = s[d + i]
  BY DEF Slice
<1> DEFINE f == s[d + 1].frg
<1>3. d + 1 \in 1..Len(s) BY <1>1, <1>2
<1>4. f \in Nat
  <2>1. s[d + 1] \in Fragment BY <1>3, ElementOfSeq
  <2> QED BY <2>1 DEF Fragment
<1>5. s[(d + 1) + f].frg = 0 BY <1>3 DEF Messages
<1>6. Len(q) >= f + 1
  <2>1. 1 \in 1..Len(q) BY <1>1
  <2>2. q[1] = s[d + 1] BY <2>1, <1>2
  <2>3. Head(q) = q[1] BY <2>1, HeadTailProperties, EmptySeq
  <2> QED BY <2>2, <2>3 DEF MessageReady
<1> HIDE DEF f
<1>7. q[f + 1].frg = 0
  <2>1. f + 1 \in 1..Len(q) /\ d + (f + 1) = (d + 1) + f BY <1>1, <1>4, <1>6
  <2> QED BY <2>1, <1>2, <1>5
<1>8. n <= f + 1
  <2>1. n > f + 1 => f + 1 \in 1..(n - 1) BY <1>1, <1>4
  <2> QED BY <2>1, <1>1, <1>4, <1>7 DEF Takes
<1>9. q[n].frg = 0
  <2>1. CASE n = Len(q)
    <3>1. n = f + 1 BY <2>1, <1>1, <1>4, <1>6, <1>8
    <3> QED BY <3>1, <1>7
  <2>2. CASE n # Len(q) BY <2>2 DEF Takes
  <2> QED BY <2>1, <2>2
<1>10. ASSUME NEW i \in (d + 1)..(d + n - 1) PROVE s[i].frg # 0
  <2>1. i - d \in 1..(n - 1) /\ i - d \in 1..Len(q) /\ d + (i - d) = i BY <1>1
  <2>2. q[i - d].frg # 0 BY <2>1 DEF Takes
  <2> QED BY <2>1, <2>2, <1>2
<1>11. d + n \in (d + 1)..Len(s) BY <1>1, <1>2
<1> QED BY <1>2, <1>9, <1>10, <1>11

\* The first n elements of a slice are a subsequence of the whole.
LEMMA SliceSubSeq ==
  ASSUME NEW s \in Seq(Fragment), NEW q \in Seq(Fragment), NEW d \in Nat,
         Slice(q, s, d), NEW n \in 1..Len(q)
  PROVE  SubSeq(q, 1, n) = SubSeq(s, d + 1, d + n)
<1>1. Len(q) \in Nat /\ Len(s) \in Nat /\ n \in Nat BY LenNat
<1>2. d + Len(q) <= Len(s) /\ \A i \in 1..Len(q) : q[i] = s[d + i] BY DEF Slice
<1> DEFINE a == SubSeq(q, 1, n)
           b == SubSeq(s, d + 1, d + n)
<1>3. a \in Seq(Fragment) /\ Len(a) = n /\ \A i \in 1..n : a[i] = q[i] BY SplitQueue
<1>4. b \in Seq(Fragment) /\ Len(b) = n /\ \A i \in 1..n : b[i] = s[d + i]
  <2>1. \A i \in (d + 1)..(d + n) : s[i] \in Fragment
    <3>1. \A i \in (d + 1)..(d + n) : i \in 1..Len(s) BY <1>1, <1>2
    <3> QED BY <3>1, ElementOfSeq
  <2>2. /\ b \in Seq(Fragment) /\ Len(b) = n
        /\ \A i \in 1..n : b[i] = s[d + 1 + i - 1]
    <3>1. d + 1 \in Int /\ d + n \in Int /\ d + 1 <= d + n + 1 /\ d + n - (d + 1) + 1 = n
      BY <1>1
    <3> QED BY <2>1, <3>1, SubSeqProperties
  <2>3. \A i \in 1..n : d + 1 + i - 1 = d + i BY <1>1
  <2> QED BY <2>2, <2>3
<1>5. \A i \in 1..n : a[i] = b[i]
  <2>1. \A i \in 1..n : i \in 1..Len(q) BY <1>1
  <2> QED BY <2>1, <1>2, <1>3, <1>4
<1> HIDE DEF a, b
<1>6. a = b BY <1>3, <1>4, <1>5, SeqEqual
<1> QED BY <1>6 DEF a, b

LEMMA RecvIsChannelRecv ==
  ASSUME IInv, NEW p \in Peer, Recv(p)
  PROVE  Channel!Recv(p)
<1> DEFINE s == sent[Other(p)]
           d == Len(delivered[p])
<1>1. PICK n \in 1..Len(rcv_queue[p]) :
        /\ Takes(rcv_queue[p], n)
        /\ delivered' = [delivered EXCEPT ![p] = @ \o SubSeq(rcv_queue[p], 1, n)]
  BY DEF Recv
<1>2. MessageReady(rcv_queue[p]) /\ UNCHANGED sent BY DEF Recv
<1>3. /\ s \in Seq(Fragment) /\ rcv_queue[p] \in Seq(Fragment) /\ d \in Nat
      /\ Slice(rcv_queue[p], s, d)
  BY ReceivingHalf
<1>4. Messages(s) BY OtherPeer DEF IInv, MessageInv
<1> HIDE DEF s, d
<1>5. /\ d + n \in (d + 1)..Len(s) /\ s[d + n].frg = 0
      /\ \A i \in (d + 1)..(d + n - 1) : s[i].frg # 0
  BY <1>1, <1>2, <1>3, <1>4, WholeMessage
<1>6. SubSeq(rcv_queue[p], 1, n) = SubSeq(s, d + 1, d + n) BY <1>3, SliceSubSeq
<1>7. delivered' = [delivered EXCEPT ![p] = @ \o SubSeq(s, d + 1, d + n)]
  BY <1>1, <1>6
<1>8. \E m \in (d + 1)..Len(s) :
        /\ s[m].frg = 0
        /\ \A i \in (d + 1)..(m - 1) : s[i].frg # 0
        /\ delivered' = [delivered EXCEPT ![p] = @ \o SubSeq(s, d + 1, m)]
        /\ UNCHANGED sent
  <2> DEFINE m == d + n
  <2>1. m \in (d + 1)..Len(s) /\ s[m].frg = 0 BY <1>5
  <2>2. \A i \in (d + 1)..(m - 1) : s[i].frg # 0
    <3>1. d \in Int /\ n \in Int BY <1>3
    <3>2. m - 1 = d + n - 1 BY <3>1
    <3> QED BY <3>2, <1>5, Zenon
  <2>3. delivered' = [delivered EXCEPT ![p] = @ \o SubSeq(s, d + 1, m)] BY <1>7
  <2> HIDE DEF m
  <2> QED BY <2>1, <2>2, <2>3, <1>2, Zenon
<1> QED BY <1>8 DEF Channel!Recv, Channel!Other, Other, s, d

LEMMA StepIsChannelStep ==
  ASSUME IInv, [Next]_vars
  PROVE  [Channel!Next]_(Channel!chan)
<1>1. CASE UNCHANGED vars BY <1>1 DEF vars, Channel!chan
<1>2. ASSUME NEW p \in Peer, Send(p) PROVE Channel!Next
  <2>1. Channel!Send(p)
    BY <1>2 DEF Send, Channel!Send, Fragments, Channel!Fragments
  <2> QED BY <2>1 DEF Channel!Next, Channel!Peer, Peer
<1>3. ASSUME NEW p \in Peer, Recv(p) PROVE Channel!Next
  <2>1. Channel!Recv(p) BY <1>3, RecvIsChannelRecv
  <2> QED BY <2>1 DEF Channel!Next, Channel!Peer, Peer
<1>4. ASSUME NEW p \in Peer, Update(p) PROVE UNCHANGED Channel!chan
  BY <1>4 DEF Update, FlushWith, Channel!chan
<1>5. ASSUME NEW p \in Peer, InputBegin(p) \/ InputStep(p) PROVE UNCHANGED Channel!chan
  BY <1>5 DEF InputBegin, InputStep, InputAck, InputPush, InputWask, InputWins, InputEnd,
              ParseHeader, Channel!chan
<1>6. ASSUME NEW p \in Peer, Lose(p) \/ Duplicate(p) \/ Delay(p) PROVE UNCHANGED Channel!chan
  BY <1>6 DEF Lose, Duplicate, Delay, Fault, Channel!chan
<1> QED BY <1>1, <1>2, <1>3, <1>4, <1>5, <1>6 DEF Next

(***************************************************************************)
(* Over a network that loses, repeats and reorders datagrams, two KCP      *)
(* control blocks are a pair of reliable ordered message channels: every   *)
(* ikcp_recv returns the next message of the other user, whole and once,   *)
(* for every window size, mtu, resend setting and message length.          *)
(***************************************************************************)
THEOREM KcpImplementsChannel == Spec => ImplementsChannel
<1>1. Init => Channel!Init BY DEF Init, Channel!Init, Channel!Peer, Peer
<1>2. IInv /\ [Next]_vars => [Channel!Next]_(Channel!chan) BY StepIsChannelStep
<1> QED BY <1>1, <1>2, Invariance, PTL DEF Spec, ImplementsChannel, Channel!Spec
=============================================================================
