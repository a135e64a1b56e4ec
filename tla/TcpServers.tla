------------------------------ MODULE TcpServers ------------------------------
(***************************************************************************)
(* The TCP servers of test7 and test8 that wait for many clients in one    *)
(* thread: selectio, pollio and epollio of test8, whose sockets block, and *)
(* the edge-triggered epoll_server of test7.  They only read.  A behaviour *)
(* runs one of them.  Data is counted in pieces that one recv returns.     *)
(*                                                                         *)
(* The loop asks the kernel which descriptors are ready and then handles   *)
(* them one by one while clients go on; 0 is the listening socket.         *)
(***************************************************************************)
EXTENDS Integers, FiniteSets, FiniteSetsExt

CONSTANTS TcpFd,           \* descriptors for clients, 1..n
          MaxClients,      \* bound: connections made
          MaxPieces        \* bound: pieces a client sends

VARIABLES server,          \* which of the servers runs
          backlog,         \* connections to accept
          clients,         \* connections made so far
          sock,            \* per descriptor: open, unread pieces, closed by the client
          watched,         \* rfds, or what epoll holds
          pfds, nfds,      \* the array of pollio, and how much of it is used
          ready,           \* reported by the last wait and not yet handled
          edges,           \* edge-triggered: what the next epoll_wait reports
          slipped          \* pollio took a step its array does not survive

vars == <<server, backlog, clients, sock, watched, pfds, nfds, ready, edges, slipped>>

Listener == 0
Unused == [fd |-> Listener, revents |-> FALSE]
Closed == [open |-> FALSE, unread |-> 0, sent |-> 0, fin |-> FALSE]

Init ==
  /\ server \in {"select", "poll", "epoll", "epoll_et"}
  /\ backlog = 0 /\ clients = 0
  /\ sock = [fd \in TcpFd |-> Closed]
  /\ watched = {}
  /\ pfds = [i \in TcpFd |-> Unused] /\ nfds = 0      \* entry 0 is the listener
  /\ ready = {} /\ edges = {} /\ slipped = FALSE

Open == {fd \in TcpFd : sock[fd].open}
Readable(fd) == sock[fd].unread > 0 \/ sock[fd].fin

-----------------------------------------------------------------------------
(* The clients *)

Connect ==
  /\ clients < MaxClients
  /\ backlog + Cardinality(Open) < Cardinality(TcpFd)     \* bound: descriptors suffice
  /\ clients' = clients + 1 /\ backlog' = backlog + 1
  /\ UNCHANGED <<server, sock, watched, pfds, nfds, ready, edges, slipped>>

\* New data and a close each make an edge.
Send(fd) ==
  /\ sock[fd].open /\ ~sock[fd].fin /\ sock[fd].sent < MaxPieces
  /\ sock' = [sock EXCEPT ![fd].unread = @ + 1, ![fd].sent = @ + 1]
  /\ edges' = IF fd \in watched THEN edges \cup {fd} ELSE edges
  /\ UNCHANGED <<server, backlog, clients, watched, pfds, nfds, ready, slipped>>

Leave(fd) ==
  /\ sock[fd].open /\ ~sock[fd].fin
  /\ sock' = [sock EXCEPT ![fd].fin = TRUE]
  /\ edges' = IF fd \in watched THEN edges \cup {fd} ELSE edges
  /\ UNCHANGED <<server, backlog, clients, watched, pfds, nfds, ready, slipped>>

-----------------------------------------------------------------------------
(* select and epoll *)

ListenerReady == IF backlog > 0 THEN {Listener} ELSE {}

\* What select or epoll_wait reports.
Reported ==
  IF server = "epoll_et" THEN edges ELSE {fd \in watched : sock[fd].open /\ Readable(fd)}

Wait ==
  /\ server # "poll" /\ ready = {}
  /\ ready' = ListenerReady \cup Reported
  /\ ready' # {}
  /\ edges' = {}
  /\ UNCHANGED <<server, backlog, clients, sock, watched, pfds, nfds, slipped>>

\* selectio accepts first and then goes up the descriptors; epoll reports in any order.
Handles(fd) ==
  server # "poll" /\ fd \in ready /\ (server = "select" => fd = Min(ready))

\* Accepting: the kernel gives the lowest free descriptor, which is watched from
\* now on.  Data can already be there, which counts as an edge.
Accept ==
  /\ Handles(Listener) /\ backlog > 0
  /\ \E fd \in TcpFd, n \in 0..1 :
       /\ fd = Min(TcpFd \ Open)
       /\ sock' = [sock EXCEPT ![fd] = [Closed EXCEPT !.open = TRUE, !.unread = n, !.sent = n]]
       /\ watched' = watched \cup {fd}
       /\ edges' = IF n > 0 THEN edges \cup {fd} ELSE edges
  /\ backlog' = backlog - 1
  /\ ready' = ready \ {Listener}
  /\ UNCHANGED <<server, clients, pfds, nfds, slipped>>

\* Mutant of Left: one recv for an event.
LeftOnePiece(fd) == IF sock[fd].unread > 0 THEN sock[fd].unread - 1 ELSE 0

\* What is unread after an event: epoll_server reads until EAGAIN.
Left(fd) == IF server = "epoll_et" \/ sock[fd].unread = 0 THEN 0 ELSE sock[fd].unread - 1

\* The descriptor is closed: epoll_server gets there in the same loop.
Ends(fd) == sock[fd].fin /\ (server = "epoll_et" \/ sock[fd].unread = 0)

\* Mutant of Unwatch: selectio forgets FD_CLR.
UnwatchNot(fd) == watched

\* FD_CLR, or EPOLL_CTL_DEL
Unwatch(fd) == watched \ {fd}

\* A blocking recv returns only when there is something.
HandleClient(fd) ==
  /\ Handles(fd)
  /\ server # "epoll_et" => Readable(fd)
  /\ IF Ends(fd)
       THEN /\ sock' = [sock EXCEPT ![fd] = Closed]
            /\ watched' = Unwatch(fd)
            /\ edges' = edges \ {fd}
       ELSE /\ sock' = [sock EXCEPT ![fd].unread = Left(fd)]
            /\ UNCHANGED <<watched, edges>>
  /\ ready' = ready \ {fd}
  /\ UNCHANGED <<server, backlog, clients, pfds, nfds, slipped>>

-----------------------------------------------------------------------------
(* pollio: ready holds the indices still to be looked at *)

InUse == 1..nfds

Revents(i) == IF i \in InUse THEN sock[pfds[i].fd].open /\ Readable(pfds[i].fd)
                             ELSE pfds[i].revents

\* poll, and the accept that follows it.  A new entry keeps the revents that its
\* place in the array last had.
PollWait ==
  /\ server = "poll" /\ ready = {}
  /\ backlog > 0 \/ \E i \in InUse : Revents(i)
  /\ LET polled == [i \in TcpFd |-> [pfds[i] EXCEPT !.revents = Revents(i)]] IN
     \/ /\ backlog > 0
        /\ nfds + 1 \in TcpFd                  \* bound: the array suffices
        /\ LET fd == Min(TcpFd \ Open) IN
           /\ sock' = [sock EXCEPT ![fd] = [Closed EXCEPT !.open = TRUE]]
           /\ pfds' = [polled EXCEPT ![nfds + 1].fd = fd]
           /\ slipped' = (slipped \/ polled[nfds + 1].revents)
        /\ nfds' = nfds + 1 /\ backlog' = backlog - 1
     \/ /\ backlog = 0
        /\ pfds' = polled
        /\ UNCHANGED <<sock, nfds, backlog, slipped>>
  /\ ready' = 1..nfds'
  /\ UNCHANGED <<server, clients, watched, edges>>

\* One entry: at a disconnect the last entry takes its place, and it is the moved
\* entry's descriptor that is closed.
PollEntry ==
  LET i == Min(ready)  fd == pfds[i].fd  moved == pfds[nfds].fd IN
  /\ server = "poll" /\ ready # {}
  /\ \/ /\ ~pfds[i].revents
        /\ ready' = ready \ {i}
        /\ UNCHANGED <<sock, pfds, nfds, slipped>>
     \/ /\ pfds[i].revents /\ sock[fd].unread > 0
        /\ sock' = [sock EXCEPT ![fd].unread = @ - 1]
        /\ ready' = ready \ {i}
        /\ UNCHANGED <<pfds, nfds, slipped>>
     \/ /\ pfds[i].revents /\ sock[fd].unread = 0
        /\ sock[fd].fin \/ ~sock[fd].open
        /\ pfds' = [pfds EXCEPT ![i] = pfds[nfds]]
        /\ sock' = [sock EXCEPT ![moved] = Closed]
        /\ slipped' = (slipped \/ i # nfds)
        /\ nfds' = nfds - 1
        /\ ready' = ready \ {i, nfds}
  /\ UNCHANGED <<server, backlog, clients, watched, edges>>

Next ==
  \/ Connect \/ \E fd \in TcpFd : Send(fd) \/ Leave(fd) \/ HandleClient(fd)
  \/ Wait \/ Accept \/ PollWait \/ PollEntry

-----------------------------------------------------------------------------
(* Properties *)

\* The descriptors, the watched set and the poll array keep their types.
TypeOK ==
  /\ \A fd \in TcpFd : /\ sock[fd].unread \in 0..MaxPieces
                       /\ sock[fd].open \/ sock[fd] = Closed
  /\ watched \subseteq TcpFd /\ edges \subseteq TcpFd
  /\ nfds \in 0..Cardinality(TcpFd) /\ backlog \in 0..MaxClients
  /\ ready \subseteq TcpFd \cup {Listener}

(***************************************************************************)
(* Descriptors are reused at once, yet the loop watches exactly those that *)
(* are open, and what the kernel reported is still there when its turn     *)
(* comes, so that no recv or accept of a blocking socket stops the server. *)
(* pollio keeps to that until a client that is not last in its array       *)
(* leaves, or an entry is made where the last one left.                    *)
(***************************************************************************)
WatchedExact ==
  IF server = "poll"
    THEN ~slipped => /\ {pfds[i].fd : i \in InUse} = Open /\ Cardinality(Open) = nfds
                     /\ \A i \in ready : pfds[i].revents => Readable(pfds[i].fd)
    ELSE /\ watched = Open
         /\ Listener \in ready => backlog > 0
         /\ server # "epoll_et" => \A fd \in ready \ {Listener} : Readable(fd)

(***************************************************************************)
(* Whatever a client sends is read to its end, and a client that left is   *)
(* closed, edge-triggered or not: no event is needed twice and none is     *)
(* missed while another descriptor is handled.                             *)
(***************************************************************************)
Served == \A fd \in TcpFd : Readable(fd) ~> ~Readable(fd) \/ slipped
=============================================================================
