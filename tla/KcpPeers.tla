------------------------------ MODULE KcpPeers ------------------------------
(***************************************************************************)
(* The two ends of a KCP conversation and the fragments they exchange.     *)
(***************************************************************************)
EXTENDS Naturals, Sequences

CONSTANTS IKCP_WND_RCV,    \* ikcp_send refuses this many fragments or more
          SendLimit        \* bound: fragments each peer sends in a behaviour

Peer == {"client", "server"}
Other(p) == IF p = "client" THEN "server" ELSE "client"

ASSUME WndRcvAssumption == IKCP_WND_RCV \in Nat \ {0, 1}
ASSUME SendLimitAssumption == SendLimit \in [Peer -> Nat]

\* A fragment as ikcp_send cuts it: the message it belongs to, named by the
\* number of fragments sent before it, and its frg field, which counts down
\* to 0 at the message's last fragment.
Fragment == [msg : Nat, frg : Nat]
Fragments(msg, count) == [i \in 1..count |-> [msg |-> msg, frg |-> count - i]]
=============================================================================
