----------------------------- MODULE ChatClient -----------------------------
(***************************************************************************)
(* How a client reads: KcpClient::Run from the datagram to HandleMessage.  *)
(* A message is its length, and what HandleMessage gets of it is the       *)
(* number of its bytes that are still those received.  Messages of one     *)
(* session are numbered from 1, and their datagrams may be lost, repeated  *)
(* and reordered.                                                          *)
(***************************************************************************)
EXTENDS Naturals, FiniteSets, SequencesExt

CONSTANTS MaxBodySize,     \* max_body_size
          Sizes,           \* lengths of the messages the server sends, in 1..MaxBodySize
          StreamLimit      \* bound: messages the server sends

VARIABLES stream,          \* messages sent by the server's session
          got,             \* how many of them the client has read
          early,           \* numbers received beyond a gap
          shown            \* bytes of each that HandleMessage got

vars == <<stream, got, early, shown>>

Init == stream = <<>> /\ got = 0 /\ early = {} /\ shown = <<>>

\* ChatServer::Notify
Notify ==
  /\ Len(stream) < StreamLimit
  /\ \E size \in Sizes : stream' = Append(stream, size)
  /\ UNCHANGED <<got, early, shown>>

\* Received numbers that follow got without a gap
InOrder(received) == {k \in received : (got + 1)..k \subseteq received}

\* The size of body when message i of the batch is written into it
BodySize(batch, i) == IF i = 1 THEN MaxBodySize ELSE batch[i - 1]

\* body.resize(len) after ikcp_recv has filled body: when the message before was
\* shorter, the string grows and its new bytes are set to zero.
Kept(batch, i) ==
  IF batch[i] <= BodySize(batch, i) THEN batch[i] ELSE BodySize(batch, i)

\* KcpClient::Run with a datagram that holds message k: the loop reads all that
\* is ready.
Run ==
  \E k \in 1..Len(stream) :
     LET received == IF k > got THEN early \cup {k} ELSE early
         n        == Cardinality(InOrder(received))
         batch    == SubSeq(stream, got + 1, got + n)
     IN /\ got' = got + n
        /\ early' = {j \in received : j > got + n}
        /\ shown' = shown \o [i \in 1..n |-> Kept(batch, i)]
        /\ UNCHANGED stream

Next == Notify \/ Run

Spec == Init /\ [][Next]_vars

(***************************************************************************)
(* HandleMessage gets the packets that were sent, in order and unchanged.  *)
(***************************************************************************)
ShownUnchanged == shown = SubSeq(stream, 1, Len(shown))
=============================================================================
