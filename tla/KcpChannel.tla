----------------------------- MODULE KcpChannel -----------------------------
(***************************************************************************)
(* What KCP promises its two users: a pair of reliable, ordered message    *)
(* channels.  A message of count fragments is accepted in one piece by     *)
(* ikcp_send, and ikcp_recv hands over the next undelivered message of the *)
(* other side, whole, once and in order.  Histories are kept as flat       *)
(* sequences of fragments, the last fragment of a message having frg = 0.  *)
(***************************************************************************)
EXTENDS KcpPeers

VARIABLES sent,            \* sent[p]: fragments p's user passed to ikcp_send
          delivered        \* delivered[p]: fragments ikcp_recv returned to p's user

chan == <<sent, delivered>>

Init == /\ sent = [p \in Peer |-> <<>>]
        /\ delivered = [p \in Peer |-> <<>>]

Send(p) ==
  \E count \in 1..(IKCP_WND_RCV - 1) :
     /\ Len(sent[p]) + count <= SendLimit[p]
     /\ sent' = [sent EXCEPT ![p] = @ \o Fragments(Len(@), count)]
     /\ UNCHANGED delivered

Recv(p) ==
  LET s == sent[Other(p)]
      d == Len(delivered[p])
  IN  \E n \in (d + 1)..Len(s) :
         /\ s[n].frg = 0
         /\ \A i \in (d + 1)..(n - 1) : s[i].frg # 0
         /\ delivered' = [delivered EXCEPT ![p] = @ \o SubSeq(s, d + 1, n)]
         /\ UNCHANGED sent

Next == \E p \in Peer : Send(p) \/ Recv(p)

Spec == Init /\ [][Next]_chan
=============================================================================
