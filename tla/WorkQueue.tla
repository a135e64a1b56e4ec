------------------------------- MODULE WorkQueue -------------------------------
(***************************************************************************)
(* server_mulport_epoll.c: the main thread takes edge-triggered events of  *)
(* its sockets and makes each one a job of the work queue, whose workers   *)
(* read the socket.  Once more than RunLimit connections were accepted the *)
(* main thread reads the sockets itself.  workqueue_shutdown is never      *)
(* called.                                                                 *)
(*                                                                         *)
(* What jobs_mutex protects is one step.  curfds is protected by nothing:  *)
(* updates that overlap may get lost.  What is echoed is left out, and     *)
(* data is counted in pieces.                                              *)
(***************************************************************************)
EXTENDS Integers, FiniteSets, SequencesExt, FiniteSetsExt

CONSTANTS Worker, MainThread,
          SrvFd,           \* descriptors for clients, 1..n
          Job,             \* bound: jobs allocated at a time, 1..n
          MAX_BUFFER,
          RunLimit,        \* a million in the code
          MaxArrivals, MaxPieces   \* bounds: connections made, pieces sent on each

ASSUME QueueAssumption ==
  /\ IsFiniteSet(SrvFd) /\ SrvFd \subseteq Nat \ {0}
  /\ IsFiniteSet(Job) /\ Job \subseteq Nat \ {0}
  /\ Worker # {} /\ MainThread \notin Worker
  /\ MAX_BUFFER \in Nat \ {0} /\ MaxPieces \in Nat \ {0}

VARIABLES head,            \* waiting_jobs, a doubly linked list; 0 is NULL
          next, prev,
          job_fd,          \* user_data of a job, 0 when it is free
          thread,          \* where each worker is
          reading,         \* per thread: descriptor, job, pieces read, ENOTCONN
          arrivals, arrived,   \* connections to accept, and made so far
          conn,            \* per descriptor: open, unread pieces, closed by the client,
                           \* and whether the last read was cut short by a full buffer
          listen_edge,     \* the listening socket has an event
          edge,            \* descriptors that have one
          events,          \* reported by epoll_wait and not yet handled
          curfds, nRun,
          down             \* the main thread has left its loop

vars == <<head, next, prev, job_fd, thread, reading, arrivals, arrived, conn,
          listen_edge, edge, events, curfds, nRun, down>>

NULL == 0
NoRead == [fd |-> 0, job |-> NULL, length |-> 0, notconn |-> FALSE]
Shut == [open |-> FALSE, unread |-> 0, sent |-> 0, fin |-> FALSE, cut |-> FALSE]
ListenSocket == 0

\* workqueue_init, and main up to its loop
Init ==
  /\ head = NULL /\ next = [j \in Job |-> NULL] /\ prev = [j \in Job |-> NULL]
  /\ job_fd = [j \in Job |-> 0]
  /\ thread = [w \in Worker |-> "free"]
  /\ reading = [t \in Worker \cup {MainThread} |-> NoRead]
  /\ arrivals = 0 /\ arrived = 0
  /\ conn = [fd \in SrvFd |-> Shut]
  /\ listen_edge = FALSE /\ edge = {} /\ events = {}
  /\ curfds = 1 /\ nRun = FALSE /\ down = FALSE

queueVars == <<head, next, prev, job_fd, thread>>
loopVars == <<events, nRun, down>>
netVars == <<arrivals, arrived, conn, listen_edge, edge>>

-----------------------------------------------------------------------------
(* The clients *)

Opened == {fd \in SrvFd : conn[fd].open}

Connect ==
  /\ arrived < MaxArrivals
  /\ arrivals + Cardinality(Opened) < Cardinality(SrvFd)     \* bound: descriptors suffice
  /\ arrived' = arrived + 1 /\ arrivals' = arrivals + 1 /\ listen_edge' = TRUE
  /\ UNCHANGED <<queueVars, reading, conn, edge, loopVars, curfds>>

Send(fd) ==
  /\ conn[fd].open /\ ~conn[fd].fin /\ conn[fd].sent < MaxPieces
  /\ conn' = [conn EXCEPT ![fd].unread = @ + 1, ![fd].sent = @ + 1, ![fd].cut = FALSE]
  /\ edge' = edge \cup {fd}
  /\ UNCHANGED <<queueVars, reading, arrivals, arrived, listen_edge, loopVars, curfds>>

Leave(fd) ==
  /\ conn[fd].open /\ ~conn[fd].fin
  /\ conn' = [conn EXCEPT ![fd].fin = TRUE, ![fd].cut = FALSE]
  /\ edge' = edge \cup {fd}
  /\ UNCHANGED <<queueVars, reading, arrivals, arrived, listen_edge, loopVars, curfds>>

-----------------------------------------------------------------------------
(* The work queue *)

\* pthread_cond_signal: one of the waiting workers, if there is one.
Signal ==
  \/ (\A w \in Worker : thread[w] # "waiting") /\ UNCHANGED thread
  \/ \E w \in Worker : thread[w] = "waiting" /\ thread' = [thread EXCEPT ![w] = "free"]

\* LL_ADD: the old head is not told of its new neighbour.
LL_ADD(j) ==
  /\ prev' = [prev EXCEPT ![j] = NULL]
  /\ next' = [next EXCEPT ![j] = head]
  /\ head' = j

\* LL_REMOVE
LL_REMOVE(j) ==
  LET before == prev[j]  after == next[j] IN
  /\ next' = [k \in Job |-> IF k = j THEN NULL ELSE IF k = before THEN after ELSE next[k]]
  /\ prev' = [k \in Job |-> IF k = j THEN NULL ELSE IF k = after THEN before ELSE prev[k]]
  /\ head' = IF head = j THEN after ELSE head

\* Mutant of workqueue_add_job: the signal is forgotten.
workqueue_add_jobSilent(j, fd) ==
  /\ LL_ADD(j)
  /\ job_fd' = [job_fd EXCEPT ![j] = fd]
  /\ UNCHANGED thread

workqueue_add_job(j, fd) ==
  /\ LL_ADD(j)
  /\ job_fd' = [job_fd EXCEPT ![j] = fd]
  /\ Signal

\* worker_function: wait for a job, or take the first.
worker_function(w) ==
  /\ thread[w] = "free"
  /\ IF head = NULL
       THEN /\ thread' = [thread EXCEPT ![w] = "waiting"]
            /\ UNCHANGED <<head, next, prev, reading>>
       ELSE /\ LL_REMOVE(head)
            /\ thread' = [thread EXCEPT ![w] = "running"]
            /\ reading' = [reading EXCEPT ![w] = 
                             [NoRead EXCEPT !.fd = job_fd[head], !.job = head]]
  /\ UNCHANGED <<job_fd, netVars, loopVars, curfds>>

-----------------------------------------------------------------------------
(* nRecv and client_job, or client_data_process of the main thread *)

Receiving(t) == reading[t].fd # 0 /\ ~reading[t].notconn

\* recv returns some of the data, and nRecv goes on.
Recv(t) ==
  LET fd == reading[t].fd IN
  /\ Receiving(t)
  /\ \E n \in 1..conn[fd].unread :
       /\ reading[t].length + n <= MAX_BUFFER
       /\ conn' = [conn EXCEPT ![fd].unread = @ - n, ![fd].cut = FALSE]
       /\ reading' = [reading EXCEPT ![t].length = @ + n]
  /\ UNCHANGED <<queueVars, arrivals, arrived, listen_edge, edge, loopVars, curfds>>

\* The thread is done with its descriptor; client_job frees its job.
Released(t) ==
  /\ reading' = [reading EXCEPT ![t] = NoRead]
  /\ job_fd' = [j \in Job |-> IF j = reading[t].job THEN 0 ELSE job_fd[j]]
  /\ thread' = IF t = MainThread THEN thread ELSE [thread EXCEPT ![t] = "free"]

\* Mutant of RecvEnds: nRecv returns after the first piece.
RecvEndsEarly(t) ==
  /\ conn[reading[t].fd].open
  /\ reading[t].length > 0 \/ conn[reading[t].fd].unread = 0

\* nRecv ends when its buffer is full, or when the socket has nothing and stays so
\* for 5 ms.  On a descriptor that another thread has closed recv and poll fail at
\* once and again, until the descriptor is in use again.
RecvEnds(t) ==
  \/ reading[t].length = MAX_BUFFER
  \/ conn[reading[t].fd].open /\ conn[reading[t].fd].unread = 0

\* client_job: what was read may be echoed, a timeout is ignored.  nRecv returns
\* ENOTCONN behind data as well, which is ignored too.  Behind a full buffer data may
\* be left in the socket.
FinishJob(t) ==
  LET fd == reading[t].fd IN
  /\ Receiving(t) /\ RecvEnds(t)
  /\ reading[t].length > 0 \/ ~conn[fd].fin
  /\ conn' = IF reading[t].length = MAX_BUFFER /\ conn[fd].unread > 0
               THEN [conn EXCEPT ![fd].cut = TRUE] ELSE conn
  /\ Released(t)
  /\ UNCHANGED <<head, next, prev, arrivals, arrived, listen_edge, edge, loopVars, curfds>>

\* recv returns 0 before any data; several threads may get here for one connection.
NotConnected(t) ==
  LET fd == reading[t].fd IN
  /\ Receiving(t) /\ reading[t].length = 0
  /\ conn[fd].fin /\ conn[fd].unread = 0
  /\ reading' = [reading EXCEPT ![t].notconn = TRUE]
  /\ UNCHANGED <<queueVars, netVars, loopVars, curfds>>

Closing == {t \in DOMAIN reading : reading[t].notconn}

\* client_job goes on: curfds-- and close, whoever has the descriptor by now.  The
\* decrement may be lost to that of another thread.
CloseJob(t) ==
  LET fd == reading[t].fd IN
  /\ t \in Closing
  /\ curfds' \in {curfds - 1} \cup (IF Closing = {t} THEN {} ELSE {curfds})
  /\ conn' = [conn EXCEPT ![fd] = Shut]
  /\ edge' = edge \ {fd}
  /\ Released(t)
  /\ UNCHANGED <<head, next, prev, arrivals, arrived, listen_edge, loopVars>>

-----------------------------------------------------------------------------
(* main *)

MainFree == ~down /\ reading[MainThread].fd = 0

\* epoll_wait reports at most curfds events, and fails when that is not positive.
EpollWait ==
  LET pending == edge \cup (IF listen_edge THEN {ListenSocket} ELSE {}) IN
  /\ MainFree /\ events = {}
  /\ \/ /\ curfds <= 0
        /\ down' = TRUE
        /\ UNCHANGED <<events, edge, listen_edge>>
     \/ /\ \E reported \in SUBSET pending :
             /\ Cardinality(reported) = IF Cardinality(pending) < curfds
                                          THEN Cardinality(pending) ELSE curfds
             /\ reported # {}
             /\ events' = reported
        /\ edge' = edge \ events' /\ listen_edge' = (listen_edge /\ ListenSocket \notin events')
        /\ UNCHANGED down
  /\ UNCHANGED <<queueVars, reading, arrivals, arrived, conn, curfds, nRun>>

\* Mutant of EventDone: the listening socket is accepted from until it would block.
EventDoneLoops(fd) == IF fd = ListenSocket THEN events ELSE events \ {fd}

EventDone(fd) == events \ {fd}

\* The listening socket: one accept, which blocks when there is nothing to accept.
\* The new socket is writable, which is its first event.
Accept ==
  /\ MainFree /\ ListenSocket \in events /\ arrivals > 0
  /\ \E n \in 0..1 :
       LET fd == Min(SrvFd \ Opened) IN
       /\ conn' = [conn EXCEPT ![fd] = [Shut EXCEPT !.open = TRUE, !.unread = n, !.sent = n]]
       /\ edge' = edge \cup {fd}
  /\ arrivals' = arrivals - 1
  /\ curfds' \in {curfds + 1} \cup (IF Closing = {} THEN {} ELSE {curfds, curfds + 2})
  /\ nRun' = (nRun \/ curfds > RunLimit)
  /\ events' = EventDone(ListenSocket)
  /\ UNCHANGED <<queueVars, reading, arrived, listen_edge, down>>

\* A client's socket becomes a job, or is read at once when nRun is set.
ClientEvent(fd) ==
  /\ MainFree /\ fd \in events
  /\ IF nRun
       THEN /\ reading' = [reading EXCEPT ![MainThread] = [NoRead EXCEPT !.fd = fd]]
            /\ UNCHANGED queueVars
       ELSE /\ \E j \in Job : /\ job_fd[j] = 0 /\ (\A k \in Job : job_fd[k] = 0 => j <= k)
                              /\ workqueue_add_job(j, fd)
            /\ UNCHANGED reading
  /\ events' = EventDone(fd)
  /\ UNCHANGED <<netVars, curfds, nRun, down>>

Next ==
  \/ Connect \/ EpollWait \/ Accept
  \/ \E fd \in SrvFd : Send(fd) \/ Leave(fd) \/ ClientEvent(fd)
  \/ \E w \in Worker : worker_function(w)
  \/ \E t \in Worker \cup {MainThread} :
        Recv(t) \/ FinishJob(t) \/ NotConnected(t) \/ CloseJob(t)

Spec == Init /\ [][Next]_vars

-----------------------------------------------------------------------------
(* Properties *)

Taken == {reading[t].job : t \in DOMAIN reading}
Waiting == {j \in Job : job_fd[j] # 0} \ Taken

\* The list is this one, from waiting_jobs along the next pointers to NULL.
Linked(list) ==
  /\ head = IF Len(list) = 0 THEN NULL ELSE list[1]
  /\ \A i \in 1..Len(list) : next[list[i]] = IF i = Len(list) THEN NULL ELSE list[i + 1]

(***************************************************************************)
(* The list that LL_ADD and LL_REMOVE keep ends, and holds exactly the     *)
(* jobs that no worker has taken, each once, although LL_ADD leaves the    *)
(* prev pointer of the old head as it was; and while it holds one, not all *)
(* the workers wait.                                                       *)
(***************************************************************************)
JobInOnePlace ==
  /\ \E list \in SetToSeqs(Waiting) : Linked(list)
  /\ head # NULL => \E w \in Worker : thread[w] # "waiting"

(***************************************************************************)
(* Edge-triggered events are reported once, yet data is not left without   *)
(* anybody to read it: its event is still to come, a job for its           *)
(* descriptor waits, or a thread is receiving from it, although jobs for   *)
(* one descriptor overlap and may be for a connection that is gone.  Only  *)
(* behind a read that a full buffer cut short does data wait for the       *)
(* client to send again or to leave.                                       *)
(***************************************************************************)
NothingStranded ==
  \A fd \in SrvFd : conn[fd].unread > 0 /\ ~conn[fd].cut =>
     \/ fd \in edge \cup events
     \/ \E j \in Waiting : job_fd[j] = fd
     \/ \E t \in DOMAIN reading : reading[t].fd = fd /\ Receiving(t)

\* accept is called on a blocking socket: it must find a connection, so that the
\* main thread, which serves everybody, does not wait for the next client.
AcceptReturns == ListenSocket \in events => arrivals > 0
=============================================================================
