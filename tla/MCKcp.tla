------------------------------- MODULE MCKcp -------------------------------
(* Instances of Kcp for TLC. *)
EXTENDS Kcp

\* Only the client sends: the server's half of the conversation carries
\* acknowledgements and window updates.
OneWay3 == [client |-> 3, server |-> 0]
OneWay2 == [client |-> 2, server |-> 0]
=============================================================================
