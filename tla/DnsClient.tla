------------------------------- MODULE DnsClient -------------------------------
(***************************************************************************)
(* The asynchronous DNS client (async_dns_client_noblock.c): main commits  *)
(* queries one after the other, each on a socket of its own, and a thread  *)
(* waits for all the sockets, parses an answer and calls the callback.     *)
(* Nothing in an answer is compared with the query, and no query is sent   *)
(* again or given up.                                                      *)
(*                                                                         *)
(* A socket is a port here, as answers are addressed to it; a closed one   *)
(* is free for the next query.  The network loses, delays and repeats      *)
(* datagrams and delivers them in any order; it may return an error for a  *)
(* query.                                                                  *)
(***************************************************************************)
EXTENDS Naturals, FiniteSets

CONSTANTS Query,           \* 1..n, in the order of domain[]
          Port, NoPort,
          MaxRepeats       \* bound: datagrams repeated in transit

VARIABLES committed,       \* queries that were sent
          port,            \* of a query, until its socket is closed
          source,          \* the port that the datagram of a query names, for good
          registered,      \* queries epoll knows
          asked,           \* queries on their way to the server
          answers,         \* answers on their way: [to, about]
          inbox,           \* what a socket has received and nobody has read
          events,          \* reported by epoll_wait and not yet handled
          called,          \* per query: what its callback was called with
          repeats

vars == <<committed, port, source, registered, asked, answers, inbox, events, called, repeats>>

Failure == 0               \* recvfrom returns an error: an empty list is parsed

Init ==
  /\ committed = 0
  /\ port = [q \in Query |-> NoPort] /\ source = [q \in Query |-> NoPort]
  /\ registered = {} /\ asked = {} /\ answers = {} /\ events = {}
  /\ inbox = [p \in Port |-> {}]
  /\ called = [q \in Query |-> {}] /\ repeats = 0

-----------------------------------------------------------------------------
(* main *)

FreePorts == Port \ {port[q] : q \in Query}

\* main commits the next query when it is done with the last.
Ready(q) ==
  /\ q \in Query
  /\ committed = 0 \/ committed \in registered \cup {r \in Query : called[r] # {}}

\* Mutant of Commit: the socket of the query before is used as long as it is open.
CommitOneSocket ==
  LET q == committed + 1 IN
  /\ Ready(q)
  /\ \E p \in IF committed = 0 \/ port[committed] = NoPort THEN FreePorts ELSE {port[committed]} :
       port' = [port EXCEPT ![q] = p] /\ source' = [source EXCEPT ![q] = p]
  /\ committed' = q
  /\ asked' = asked \cup {q}
  /\ UNCHANGED <<registered, answers, inbox, events, called, repeats>>

\* dns_async_client_commit up to sendto
Commit ==
  LET q == committed + 1 IN
  /\ Ready(q)
  /\ \E p \in FreePorts :
       port' = [port EXCEPT ![q] = p] /\ source' = [source EXCEPT ![q] = p]
  /\ committed' = q
  /\ asked' = asked \cup {q}
  /\ UNCHANGED <<registered, answers, inbox, events, called, repeats>>

\* ... and from there: the answer may be there already
Register ==
  /\ committed \in Query /\ committed \notin registered /\ called[committed] = {}
  /\ registered' = registered \cup {committed}
  /\ UNCHANGED <<committed, port, source, asked, answers, inbox, events, called, repeats>>

-----------------------------------------------------------------------------
(* The server and the network *)

\* A datagram arrives; another copy of it may still be under way.
Arrives(network, datagram) ==
  \/ network' = network \ {datagram} /\ UNCHANGED repeats
  \/ repeats < MaxRepeats /\ repeats' = repeats + 1 /\ UNCHANGED network

\* A datagram to a port that nobody has is dropped.
Received(p, datagram) ==
  inbox' = IF p \in FreePorts THEN inbox ELSE [inbox EXCEPT ![p] = @ \cup {datagram}]

Answer(q) ==
  /\ q \in asked
  /\ Arrives(asked, q)
  /\ answers' = answers \cup {[to |-> source[q], about |-> q]}
  /\ UNCHANGED <<committed, port, source, registered, inbox, events, called>>

Lose ==
  /\ \/ \E q \in asked : asked' = asked \ {q} /\ UNCHANGED answers
     \/ \E a \in answers : answers' = answers \ {a} /\ UNCHANGED asked
  /\ UNCHANGED <<committed, port, source, registered, inbox, events, called, repeats>>

Deliver ==
  /\ \E a \in answers : Arrives(answers, a) /\ Received(a.to, a.about)
  /\ UNCHANGED <<committed, port, source, registered, asked, events, called>>

Refuse(q) ==
  /\ q \in asked
  /\ Arrives(asked, q)
  /\ Received(source[q], Failure)
  /\ UNCHANGED <<committed, port, source, registered, answers, events, called>>

-----------------------------------------------------------------------------
(* dns_async_client_proc *)

\* Mutant of Reported: the loop over the events ends one too early.
ReportedButOne ==
  LET full == {q \in registered : inbox[port[q]] # {}}
  IN  full \ {q \in full : \A r \in full : r <= q}

\* Level-triggered: a registered socket that holds a datagram is reported.
Reported == {q \in registered : inbox[port[q]] # {}}

EpollWait ==
  /\ events = {}
  /\ events' = Reported
  /\ events' # {}
  /\ UNCHANGED <<committed, port, source, registered, asked, answers, inbox, called, repeats>>

\* close: what was not read is gone.
ClosePort(q) ==
  /\ port' = [port EXCEPT ![q] = NoPort]
  /\ inbox' = [inbox EXCEPT ![port[q]] = {}]

\* One event: read, parse, call back, EPOLL_CTL_DEL, close, free.
Handle(q) ==
  /\ q \in events
  /\ \E a \in inbox[port[q]] : called' = [called EXCEPT ![q] = @ \cup {a}]
  /\ registered' = registered \ {q}
  /\ ClosePort(q)
  /\ events' = events \ {q}
  /\ UNCHANGED <<committed, source, asked, answers, repeats>>

Next ==
  \/ Commit \/ Register \/ Lose \/ Deliver \/ EpollWait
  \/ \E q \in Query : Answer(q) \/ Refuse(q) \/ Handle(q)

Spec == Init /\ [][Next]_vars

\* What the proofs ask of the constants.
DnsAssumption == NoPort \notin Port /\ Query \subseteq Nat \ {Failure}

ASSUME DnsConstants == DnsAssumption

-----------------------------------------------------------------------------
(* Properties *)

\* Ports, contexts and datagrams keep their types.
TypeOK ==
  /\ committed \in Query \cup {0}
  /\ port \in [Query -> Port \cup {NoPort}] /\ source \in [Query -> Port \cup {NoPort}]
  /\ registered \subseteq Query /\ events \subseteq registered
  /\ inbox \in [Port -> SUBSET (Query \cup {Failure})]

(***************************************************************************)
(* A callback is called once, and with the answer to its own query although*)
(* nothing in an answer is compared with it: a socket stays open until its *)
(* answer is read, however late that comes.  The one exception is what the *)
(* network makes by repeating a datagram, an answer to an earlier query    *)
(* whose port this one was given; never one to a later query or to another *)
(* that is waiting.                                                        *)
(***************************************************************************)
AnswerToOwner ==
  \A q \in Query :
    /\ Cardinality(called[q]) <= 1
    /\ \A a \in called[q] \ {q, Failure} : repeats > 0 /\ a < q /\ source[a] = source[q]

(***************************************************************************)
(* An answer that has arrived is handed to its callback, also when it came *)
(* before main registered the socket with epoll.                           *)
(***************************************************************************)
CallbackComes ==
  \A q \in Query : (port[q] # NoPort /\ inbox[port[q]] # {}) ~> called[q] # {}
=============================================================================
