--------------------------- MODULE WorkQueueProofs ---------------------------
(***************************************************************************)
(* The server with a work queue, for any number of workers, jobs and       *)
(* descriptors: the job list is what it should be, no data is left without *)
(* anybody to read it, and the blocking accept finds a connection.         *)
(***************************************************************************)
EXTENDS WorkQueue, SequenceTheorems, FiniteSetTheorems, WellFoundedInduction, TLAPS

Thread == Worker \cup {MainThread}

Reading == [fd : SrvFd \cup {0}, job : Job \cup {NULL}, length : 0..MAX_BUFFER,
            notconn : BOOLEAN]
Connection == [open : BOOLEAN, unread : 0..MaxPieces, sent : 0..MaxPieces, fin : BOOLEAN,
               cut : BOOLEAN]

Types ==
  /\ head \in Job \cup {NULL}
  /\ next \in [Job -> Job \cup {NULL}] /\ prev \in [Job -> Job \cup {NULL}]
  /\ job_fd \in [Job -> SrvFd \cup {0}]
  /\ thread \in [Worker -> {"free", "waiting", "running"}]
  /\ reading \in [Thread -> Reading]
  /\ arrivals \in Nat
  /\ conn \in [SrvFd -> Connection]
  /\ listen_edge \in BOOLEAN /\ edge \subseteq SrvFd
  /\ events \subseteq SrvFd \cup {ListenSocket}
  /\ curfds \in Int

\* A job is taken by one thread at most, and is in use then; only a worker that runs
\* has one.
TakenInv ==
  /\ \A t \in Thread : reading[t].job # NULL => job_fd[reading[t].job] # 0
  /\ \A t, u \in Thread : t # u /\ reading[t].job # NULL => reading[t].job # reading[u].job
  /\ \A w \in Worker : thread[w] # "running" => reading[w] = NoRead
  /\ reading[MainThread].job = NULL

\* The jobs that wait, in the order of the list.
ListInv ==
  /\ \E list \in SetToSeqs(Waiting) : Linked(list)
  /\ head # NULL => prev[head] = NULL
  /\ head # NULL => \E w \in Worker : thread[w] # "waiting"

\* There are descriptors for the connections that wait to be accepted.
RoomInv == arrivals + Cardinality(Opened) <= Cardinality(SrvFd)

\* A thread is in the loop of nRecv.
Takes(t, fd) == reading[t].fd = fd /\ ~reading[t].notconn

StrandInv ==
  /\ \A fd \in SrvFd : conn[fd].unread <= conn[fd].sent
  /\ \A fd \in SrvFd : conn[fd].unread > 0 /\ ~conn[fd].cut =>
       \/ fd \in edge \cup events
       \/ \E j \in Waiting : job_fd[j] = fd
       \/ \E t \in Thread : Takes(t, fd)

\* Every event of the listening socket has a connection of its own.
AcceptInv ==
  (IF ListenSocket \in events THEN 1 ELSE 0) + (IF listen_edge THEN 1 ELSE 0) <= arrivals

IInv == Types /\ TakenInv /\ ListInv /\ RoomInv /\ StrandInv /\ AcceptInv

-----------------------------------------------------------------------------
(* Facts about the library's operators *)

LEMMA LeastNat == ASSUME NEW S \in SUBSET Nat, S # {} PROVE \E x \in S : \A y \in S : x <= y
<1>1. PICK x \in S : \A y \in S : ~(<<y, x>> \in OpToRel(<, Nat))
  BY WFMin, NatLessThanWellFounded
<1>2. ASSUME NEW y \in S PROVE x <= y
  <2>1. ~(<<y, x>> \in OpToRel(<, Nat)) BY <1>1
  <2>2. y \in Nat /\ x \in Nat OBVIOUS
  <2>3. ~(y < x) BY <2>1, <2>2 DEF OpToRel
  <2> QED BY <2>3, <2>2
<1> QED BY <1>2

LEMMA MinType == ASSUME NEW S \in SUBSET Nat, S # {} PROVE Min(S) \in S
BY LeastNat DEF Min

\* An order of a finite set holds each of its elements once.
LEMMA OrderFacts ==
  ASSUME NEW S, IsFiniteSet(S), NEW list \in SetToSeqs(S)
  PROVE  /\ Cardinality(S) \in Nat /\ Len(list) = Cardinality(S)
         /\ list \in [1..Len(list) -> S]
         /\ \A i, j \in 1..Len(list) : i # j => list[i] # list[j]
         /\ \A x \in S : \E i \in 1..Len(list) : list[i] = x
<1> DEFINE n == Cardinality(S)
<1>1. n \in Nat BY FS_CardinalityType
<1>2. list \in [1..n -> S] /\ \A i, j \in 1..n : i # j => list[i] # list[j] BY DEF SetToSeqs
<1>3. list \in Seq(S) /\ Len(list) = n BY <1>1, <1>2
<1>4. Cardinality(1..n) = n BY <1>1, FS_Interval
<1>5. list \in Injection(1..n, S) BY <1>2 DEF Injection, IsInjective
<1>6. list \in Surjection(1..n, S) BY <1>4, <1>5, FS_Injection
<1> QED BY <1>1, <1>2, <1>3, <1>6 DEF Surjection

LEMMA IsOrder ==
  ASSUME NEW S, IsFiniteSet(S), NEW n \in Nat, NEW list \in [1..n -> S],
         \A i, j \in 1..n : i # j => list[i] # list[j],
         \A x \in S : \E i \in 1..n : list[i] = x
  PROVE  list \in SetToSeqs(S) /\ Len(list) = n
<1>1. Cardinality(1..n) = n /\ IsFiniteSet(1..n) BY FS_Interval
<1>2. list \in Injection(1..n, S) BY DEF Injection, IsInjective
<1>3. list \in Surjection(1..n, S) BY DEF Surjection
<1>4. n = Cardinality(S) BY <1>1, <1>2, <1>3, FS_Injection
<1> QED BY <1>4 DEF SetToSeqs

-----------------------------------------------------------------------------
(* The start *)

LEMMA InitInv == Init => IInv
<1> SUFFICES ASSUME Init PROVE IInv
  OBVIOUS
<1> USE QueueAssumption DEF Init, NULL
<1>1. Types
  <2>1. NoRead \in Reading BY DEF Reading, NoRead
  <2>2. Shut \in Connection BY DEF Connection, Shut
  <2>3. head \in Job \cup {NULL} /\ next \in [Job -> Job \cup {NULL}]
        /\ prev \in [Job -> Job \cup {NULL}] /\ job_fd \in [Job -> SrvFd \cup {0}]
    OBVIOUS
  <2>4. thread \in [Worker -> {"free", "waiting", "running"}] OBVIOUS
  <2>5. reading \in [Thread -> Reading] /\ conn \in [SrvFd -> Connection]
    BY <2>1, <2>2 DEF Thread
  <2>6. listen_edge \in BOOLEAN BY Zenon
  <2>7. /\ arrivals \in Nat /\ curfds \in Int
        /\ edge \subseteq SrvFd /\ events \subseteq SrvFd \cup {ListenSocket}
    OBVIOUS
  <2> QED BY <2>3, <2>4, <2>5, <2>6, <2>7 DEF Types
<1>2. TakenInv BY DEF TakenInv, Thread, NoRead
<1>3. Waiting = {} BY DEF Waiting
<1>4. ListInv
  <2>1. << >> \in SetToSeqs({}) /\ Len(<< >>) = 0
    BY FS_EmptySet DEF SetToSeqs
  <2> QED BY <2>1, <1>3 DEF ListInv, Linked
<1>5. RoomInv
  <2>1. Opened = {} BY DEF Opened, Shut
  <2> QED BY <2>1, FS_EmptySet, FS_CardinalityType DEF RoomInv
<1>6. StrandInv BY DEF StrandInv, Shut
<1>7. AcceptInv BY DEF AcceptInv
<1> QED BY <1>1, <1>2, <1>4, <1>5, <1>6, <1>7 DEF IInv

-----------------------------------------------------------------------------
(* What several actions share *)

LEMMA InWaiting ==
  ASSUME Types
  PROVE  /\ Waiting \subseteq Job /\ IsFiniteSet(Waiting) /\ NULL \notin Job
         /\ \A j \in Job : j \in Waiting <=> /\ job_fd[j] # 0
                                            /\ \A t \in Thread : reading[t].job # j
<1>1. DOMAIN reading = Thread BY DEF Types
<1>2. Waiting \subseteq Job BY DEF Waiting
<1>3. IsFiniteSet(Waiting) BY <1>2, QueueAssumption, FS_Subset
<1>4. NULL \notin Job BY QueueAssumption DEF NULL
<1> QED BY <1>1, <1>2, <1>3, <1>4 DEF Waiting, Taken

LEMMA InWaitingNext ==
  ASSUME Types'
  PROVE  /\ Waiting' \subseteq Job /\ IsFiniteSet(Waiting')
         /\ \A j \in Job : j \in Waiting' <=> /\ job_fd'[j] # 0
                                             /\ \A t \in Thread : reading'[t].job # j
<1>1. DOMAIN reading' = Thread BY DEF Types
<1>2. Waiting' \subseteq Job BY DEF Waiting
<1>3. IsFiniteSet(Waiting') BY <1>2, QueueAssumption, FS_Subset
<1> QED BY <1>1, <1>2, <1>3 DEF Waiting, Taken

\* An action that leaves the list, the jobs and who has which alone.
LEMMA QueueKept ==
  ASSUME IInv, Types', UNCHANGED queueVars,
         \A t \in Thread : reading'[t].job = reading[t].job,
         \A w \in Worker : thread[w] # "running" => reading'[w] = reading[w]
  PROVE  TakenInv' /\ ListInv' /\ Waiting' = Waiting
<1>1. UNCHANGED <<head, next, prev, job_fd, thread>> BY DEF queueVars
<1>2. Waiting' = Waiting
  BY <1>1, InWaiting, InWaitingNext DEF IInv
<1>3. MainThread \in Thread /\ Worker \subseteq Thread BY DEF Thread
<1>4. TakenInv' BY <1>1, <1>3 DEF IInv, TakenInv
<1>5. ListInv' BY <1>1, <1>2 DEF IInv, ListInv, Linked
<1> QED BY <1>2, <1>4, <1>5

\* A thread gives its job back: the list is not concerned.
LEMMA ReleasedFacts ==
  ASSUME IInv, NEW t \in Thread, Released(t), UNCHANGED <<head, next, prev>>
  PROVE  /\ reading' \in [Thread -> Reading] /\ job_fd' \in [Job -> SrvFd \cup {0}]
         /\ thread' \in [Worker -> {"free", "waiting", "running"}]
         /\ \A u \in Thread : reading'[u] = IF u = t THEN NoRead ELSE reading[u]
         /\ TakenInv'
         /\ Types' => /\ Waiting' = Waiting /\ ListInv'
                      /\ \A j \in Waiting : job_fd'[j] = job_fd[j]
<1>0. Types /\ TakenInv /\ ListInv BY DEF IInv
<1>1. NoRead \in Reading /\ NoRead.job = NULL /\ NoRead.fd = 0
  BY QueueAssumption DEF Reading, NoRead, NULL
<1>2. \A u \in Thread : reading[u] \in Reading BY <1>0 DEF Types
<1>3. /\ reading' = [reading EXCEPT ![t] = NoRead]
      /\ job_fd' = [j \in Job |-> IF j = reading[t].job THEN 0 ELSE job_fd[j]]
      /\ thread' = IF t = MainThread THEN thread ELSE [thread EXCEPT ![t] = "free"]
  BY DEF Released
<1>4. /\ reading' \in [Thread -> Reading]
      /\ \A u \in Thread : reading'[u] = IF u = t THEN NoRead ELSE reading[u]
  BY <1>0, <1>1, <1>3 DEF Types
<1>5. job_fd' \in [Job -> SrvFd \cup {0}] BY <1>0, <1>3 DEF Types
<1>6. /\ thread' \in [Worker -> {"free", "waiting", "running"}]
      /\ \A w \in Worker : thread'[w] = IF w = t THEN "free" ELSE thread[w]
  BY <1>0, <1>3, QueueAssumption DEF Types, Thread
<1>7. NULL \notin Job BY QueueAssumption DEF NULL
<1>8. \A u \in Thread : reading[u].job \in Job \cup {NULL} BY <1>2 DEF Reading
<1>9. MainThread \in Thread /\ Worker \subseteq Thread BY DEF Thread
<1>10. TakenInv'
  <2>1. ASSUME NEW u \in Thread, reading'[u].job # NULL
        PROVE  job_fd'[reading'[u].job] # 0
    <3>1. u # t /\ reading'[u] = reading[u] /\ reading[u].job \in Job BY <2>1, <1>4, <1>1, <1>8
    <3>2. reading[u].job # reading[t].job BY <3>1, <2>1, <1>0 DEF TakenInv
    <3>3. job_fd[reading[u].job] # 0 BY <3>1, <2>1, <1>0 DEF TakenInv
    <3> QED BY <3>1, <3>2, <3>3, <1>3
  <2>2. ASSUME NEW u \in Thread, NEW v \in Thread, u # v, reading'[u].job # NULL
        PROVE  reading'[u].job # reading'[v].job
    <3>1. u # t /\ reading'[u] = reading[u] BY <2>2, <1>4, <1>1
    <3>2. CASE v = t BY <3>1, <3>2, <2>2, <1>4, <1>1
    <3>3. CASE v # t BY <3>1, <3>3, <2>2, <1>4, <1>0 DEF TakenInv
    <3> QED BY <3>2, <3>3
  <2>3. \A w \in Worker : thread'[w] # "running" => reading'[w] = NoRead
    BY <1>6, <1>4, <1>9, <1>0 DEF TakenInv
  <2>4. reading'[MainThread].job = NULL BY <1>4, <1>9, <1>1, <1>0 DEF TakenInv
  <2> QED BY <2>1, <2>2, <2>3, <2>4 DEF TakenInv
<1>11. ASSUME Types'
       PROVE  /\ Waiting' = Waiting /\ ListInv'
              /\ \A j \in Waiting : job_fd'[j] = job_fd[j]
  <2>1. ASSUME NEW j \in Job PROVE j \in Waiting' <=> j \in Waiting
    <3>1. CASE j = reading[t].job
      <4>1. job_fd'[j] = 0 BY <3>1, <1>3
      <4> QED BY <4>1, <3>1, <1>0, <1>11, InWaiting, InWaitingNext
    <3>2. CASE j # reading[t].job
      <4>1. job_fd'[j] = job_fd[j] BY <3>2, <1>3
      <4>2. \A u \in Thread : reading'[u].job = j <=> reading[u].job = j
        BY <3>2, <1>4, <1>1, <1>7
      <4> QED BY <4>1, <4>2, <1>0, <1>11, InWaiting, InWaitingNext
    <3> QED BY <3>1, <3>2
  <2>2. Waiting' = Waiting BY <2>1, <1>0, <1>11, InWaiting, InWaitingNext
  <2>3. ASSUME NEW j \in Waiting PROVE job_fd'[j] = job_fd[j]
    <3>1. j \in Job /\ j # reading[t].job BY <1>0, InWaiting
    <3> QED BY <3>1, <1>3
  <2>4. head # NULL => \E w \in Worker : thread'[w] # "waiting"
    BY <1>6, <1>0 DEF ListInv
  <2>5. ListInv' BY <2>2, <2>4, <1>0 DEF ListInv, Linked
  <2> QED BY <2>2, <2>3, <2>5
<1> QED BY <1>4, <1>5, <1>6, <1>10, <1>11

-----------------------------------------------------------------------------
(* The clients *)

LEMMA ConnectInv == IInv /\ Connect => IInv'
<1> SUFFICES ASSUME IInv, Connect PROVE IInv'
  OBVIOUS
<1>0. Types /\ RoomInv /\ StrandInv /\ AcceptInv BY DEF IInv
<1>1. UNCHANGED <<queueVars, reading, conn, edge, events, curfds>>
      /\ arrivals' = arrivals + 1 /\ listen_edge' = TRUE
  BY DEF Connect, loopVars
<1>2. Types' BY <1>0, <1>1 DEF Types, queueVars
<1>3. TakenInv' /\ ListInv' /\ Waiting' = Waiting BY <1>1, <1>2, QueueKept
<1>4. RoomInv'
  <2>1. Opened' = Opened BY <1>1 DEF Opened
  <2>2. /\ Opened \subseteq SrvFd /\ IsFiniteSet(Opened) /\ Cardinality(Opened) \in Nat
        /\ Cardinality(SrvFd) \in Nat
    BY QueueAssumption, FS_Subset, FS_CardinalityType DEF Opened
  <2> QED BY <2>1, <2>2, <1>0, <1>1 DEF RoomInv, Connect, Types
<1>5. StrandInv' BY <1>0, <1>1, <1>3 DEF StrandInv, Takes, queueVars
<1>6. AcceptInv' BY <1>0, <1>1 DEF AcceptInv, Types
<1> QED BY <1>2, <1>3, <1>4, <1>5, <1>6 DEF IInv

LEMMA SendInv == ASSUME IInv, NEW fd \in SrvFd, Send(fd) PROVE IInv'
<1>0. Types /\ RoomInv /\ StrandInv /\ AcceptInv BY DEF IInv
<1>1. /\ UNCHANGED <<queueVars, reading, arrivals, listen_edge, events, curfds>>
      /\ edge' = edge \cup {fd}
      /\ conn' = [conn EXCEPT ![fd].unread = @ + 1, ![fd].sent = @ + 1, ![fd].cut = FALSE]
  BY DEF Send, loopVars
<1>2. conn[fd] \in Connection /\ conn[fd].unread <= conn[fd].sent /\ conn[fd].sent < MaxPieces
  BY <1>0 DEF Types, StrandInv, Send
<1>3. /\ conn'[fd] \in Connection /\ conn'[fd].unread = conn[fd].unread + 1
      /\ conn'[fd].sent = conn[fd].sent + 1 /\ conn'[fd].open = conn[fd].open
  BY <1>0, <1>1, <1>2, QueueAssumption DEF Types, Connection
<1>4. conn' \in [SrvFd -> Connection] /\ \A g \in SrvFd : g # fd => conn'[g] = conn[g]
  BY <1>0, <1>1, <1>3 DEF Types
<1>5. Types' BY <1>0, <1>1, <1>4 DEF Types, queueVars
<1>6. TakenInv' /\ ListInv' /\ Waiting' = Waiting BY <1>1, <1>5, QueueKept
<1>7. RoomInv'
  <2>1. Opened' = Opened BY <1>3, <1>4 DEF Opened
  <2> QED BY <2>1, <1>0, <1>1 DEF RoomInv
<1>8. StrandInv'
  <2>1. \A g \in SrvFd : conn'[g].unread <= conn'[g].sent
    BY <1>0, <1>2, <1>3, <1>4 DEF StrandInv, Connection
  <2>2. \A t \in Thread, g \in SrvFd : g # fd /\ Takes(t, g) => Takes(t, g)'
    BY <1>1, <1>4 DEF Takes
  <2> QED BY <2>1, <2>2, <1>0, <1>1, <1>4, <1>6 DEF StrandInv, queueVars
<1>9. AcceptInv' BY <1>0, <1>1 DEF AcceptInv
<1> QED BY <1>5, <1>6, <1>7, <1>8, <1>9 DEF IInv

LEMMA LeaveInv == ASSUME IInv, NEW fd \in SrvFd, Leave(fd) PROVE IInv'
<1>0. Types /\ RoomInv /\ StrandInv /\ AcceptInv BY DEF IInv
<1>1. /\ UNCHANGED <<queueVars, reading, arrivals, listen_edge, events, curfds>>
      /\ edge' = edge \cup {fd}
      /\ conn' = [conn EXCEPT ![fd].fin = TRUE, ![fd].cut = FALSE]
  BY DEF Leave, loopVars
<1>2. /\ conn' \in [SrvFd -> Connection]
      /\ \A g \in SrvFd : /\ conn'[g].unread = conn[g].unread /\ conn'[g].sent = conn[g].sent
                          /\ conn'[g].open = conn[g].open
                          /\ g # fd => conn'[g].cut = conn[g].cut
  BY <1>0, <1>1 DEF Types, Connection
<1>5. Types' BY <1>0, <1>1, <1>2 DEF Types, queueVars
<1>6. TakenInv' /\ ListInv' /\ Waiting' = Waiting BY <1>1, <1>5, QueueKept
<1>7. RoomInv'
  <2>1. Opened' = Opened BY <1>2 DEF Opened
  <2> QED BY <2>1, <1>0, <1>1 DEF RoomInv
<1>8. StrandInv'
  <2>2. \A t \in Thread, g \in SrvFd : Takes(t, g) => Takes(t, g)'
    BY <1>1, <1>2 DEF Takes
  <2> QED BY <2>2, <1>0, <1>1, <1>2, <1>6 DEF StrandInv, queueVars
<1>9. AcceptInv' BY <1>0, <1>1 DEF AcceptInv
<1> QED BY <1>5, <1>6, <1>7, <1>8, <1>9 DEF IInv

-----------------------------------------------------------------------------
(* The threads that read *)

LEMMA RecvInv == ASSUME IInv, NEW t \in Thread, Recv(t) PROVE IInv'
<1> DEFINE fd == reading[t].fd
<1>0. Types /\ TakenInv /\ RoomInv /\ StrandInv /\ AcceptInv BY DEF IInv
<1>1. /\ UNCHANGED <<queueVars, arrivals, listen_edge, edge, events, curfds>>
      /\ fd # 0 /\ ~reading[t].notconn
  BY DEF Recv, loopVars, Receiving
<1>2. PICK n \in 1..conn[fd].unread :
         /\ reading[t].length + n <= MAX_BUFFER
         /\ conn' = [conn EXCEPT ![fd].unread = @ - n, ![fd].cut = FALSE]
         /\ reading' = [reading EXCEPT ![t].length = @ + n]
  BY DEF Recv
<1>3. reading[t] \in Reading /\ fd \in SrvFd /\ conn[fd] \in Connection
  BY <1>0, <1>1 DEF Types, Reading
<1>4. n \in Nat /\ n <= conn[fd].unread /\ conn[fd].unread \in Nat /\ reading[t].length \in Nat
  BY <1>2, <1>3 DEF Connection, Reading
<1>5. /\ conn' \in [SrvFd -> Connection] /\ \A g \in SrvFd : g # fd => conn'[g] = conn[g]
      /\ conn'[fd].unread = conn[fd].unread - n /\ conn'[fd].sent = conn[fd].sent
      /\ conn'[fd].open = conn[fd].open
  <2>0. conn[fd].unread - n \in 0..MaxPieces
    BY <1>3, <1>4, QueueAssumption DEF Connection
  <2>1. [conn[fd] EXCEPT !.unread = conn[fd].unread - n, !.cut = FALSE] \in Connection
    BY <2>0, <1>3 DEF Connection
  <2> QED BY <2>1, <1>0, <1>2, <1>3 DEF Types, Connection
<1>6. /\ reading' \in [Thread -> Reading] /\ \A u \in Thread : u # t => reading'[u] = reading[u]
      /\ reading'[t].length = reading[t].length + n /\ reading'[t].fd = fd
      /\ reading'[t].notconn = reading[t].notconn /\ reading'[t].job = reading[t].job
  <2>1. [reading[t] EXCEPT !.length = reading[t].length + n] \in Reading
    BY <1>2, <1>3, <1>4, QueueAssumption DEF Reading
  <2> QED BY <2>1, <1>0, <1>2, <1>3 DEF Types, Reading
<1>7. Types' BY <1>0, <1>1, <1>5, <1>6 DEF Types, queueVars
<1>8. TakenInv' /\ ListInv' /\ Waiting' = Waiting
  <2>1. t \in Worker => thread[t] = "running"
    BY <1>0, <1>1 DEF TakenInv, NoRead, NULL
  <2>2. \A u \in Thread : reading'[u].job = reading[u].job BY <1>6
  <2>3. \A w \in Worker : thread[w] # "running" => reading'[w] = reading[w]
    BY <2>1, <1>6 DEF Thread
  <2> QED BY <2>2, <2>3, <1>1, <1>7, QueueKept
<1>9. RoomInv'
  <2>1. Opened' = Opened BY <1>5 DEF Opened
  <2> QED BY <2>1, <1>0, <1>1 DEF RoomInv
<1>10. StrandInv'
  <2>1. \A g \in SrvFd : conn'[g].unread <= conn'[g].sent
    BY <1>0, <1>3, <1>4, <1>5 DEF StrandInv, Connection
  <2>2. \A u \in Thread, g \in SrvFd : Takes(u, g) => Takes(u, g)' BY <1>6 DEF Takes
  <2>3. \A g \in SrvFd : g = fd => Takes(t, g)' BY <1>1, <1>6 DEF Takes
  <2>4. \A g \in SrvFd : g # fd => conn'[g] = conn[g] BY <1>5
  <2> HIDE DEF fd
  <2> QED BY <2>1, <2>2, <2>3, <2>4, <1>0, <1>1, <1>8 DEF StrandInv, queueVars
<1>11. AcceptInv' BY <1>0, <1>1 DEF AcceptInv
<1> QED BY <1>7, <1>8, <1>9, <1>10, <1>11 DEF IInv

LEMMA NotConnectedInv == ASSUME IInv, NEW t \in Thread, NotConnected(t) PROVE IInv'
<1> DEFINE fd == reading[t].fd
<1>0. Types /\ TakenInv /\ RoomInv /\ StrandInv /\ AcceptInv BY DEF IInv
<1>1. /\ UNCHANGED <<queueVars, conn, arrivals, listen_edge, edge, events, curfds>>
      /\ fd # 0 /\ ~reading[t].notconn /\ conn[fd].unread = 0
      /\ reading' = [reading EXCEPT ![t].notconn = TRUE]
  BY DEF NotConnected, loopVars, netVars, Receiving
<1>2. /\ reading' \in [Thread -> Reading] /\ \A u \in Thread : u # t => reading'[u] = reading[u]
      /\ reading'[t].job = reading[t].job
  BY <1>0, <1>1 DEF Types, Reading
<1>3. Types' BY <1>0, <1>1, <1>2 DEF Types, queueVars
<1>4. TakenInv' /\ ListInv' /\ Waiting' = Waiting
  <2>1. t \in Worker => thread[t] = "running"
    BY <1>0, <1>1 DEF TakenInv, NoRead, NULL
  <2>2. \A u \in Thread : reading'[u].job = reading[u].job BY <1>2
  <2>3. \A w \in Worker : thread[w] # "running" => reading'[w] = reading[w]
    BY <2>1, <1>2 DEF Thread
  <2> QED BY <2>2, <2>3, <1>1, <1>3, QueueKept
<1>5. RoomInv'
  <2>1. Opened' = Opened BY <1>1 DEF Opened
  <2> QED BY <2>1, <1>0, <1>1 DEF RoomInv
<1>6. StrandInv'
  <2>1. ASSUME NEW u \in Thread, NEW g \in SrvFd, Takes(u, g), conn[g].unread > 0
        PROVE  Takes(u, g)'
    <3>1. u # t BY <2>1, <1>1 DEF Takes
    <3> QED BY <3>1, <2>1, <1>1, <1>2 DEF Takes
  <2> QED BY <2>1, <1>0, <1>1, <1>4 DEF StrandInv, queueVars
<1>7. AcceptInv' BY <1>0, <1>1 DEF AcceptInv
<1> QED BY <1>3, <1>4, <1>5, <1>6, <1>7 DEF IInv

\* A thread whose read ends has left nothing, or its buffer is full.
LEMMA FinishJobInv == ASSUME IInv, NEW t \in Thread, FinishJob(t) PROVE IInv'
<1> DEFINE fd == reading[t].fd
<1>0. Types /\ RoomInv /\ StrandInv /\ AcceptInv BY DEF IInv
<1>1. /\ UNCHANGED <<head, next, prev, arrivals, listen_edge, edge, events, curfds>>
      /\ fd # 0 /\ Released(t) /\ RecvEnds(t)
      /\ conn' = IF reading[t].length = MAX_BUFFER /\ conn[fd].unread > 0
                   THEN [conn EXCEPT ![fd].cut = TRUE] ELSE conn
  BY DEF FinishJob, Receiving, loopVars
<1>2. /\ reading' \in [Thread -> Reading] /\ job_fd' \in [Job -> SrvFd \cup {0}]
      /\ thread' \in [Worker -> {"free", "waiting", "running"}]
      /\ \A u \in Thread : reading'[u] = IF u = t THEN NoRead ELSE reading[u]
      /\ TakenInv'
  BY <1>1, ReleasedFacts
<1>c. reading[t] \in Reading /\ fd \in SrvFd /\ conn[fd] \in Connection
  BY <1>0, <1>1 DEF Types, Reading
<1>d. /\ conn' \in [SrvFd -> Connection]
      /\ \A g \in SrvFd : /\ conn'[g].unread = conn[g].unread /\ conn'[g].sent = conn[g].sent
                          /\ conn'[g].open = conn[g].open
                          /\ g # fd => conn'[g].cut = conn[g].cut
      /\ conn[fd].unread > 0 => conn'[fd].cut
  <2>1. [conn[fd] EXCEPT !.cut = TRUE] \in Connection BY <1>c DEF Connection
  <2>2. conn[fd].unread \in Nat BY <1>c DEF Connection
  <2>3. conn[fd].unread > 0 => reading[t].length = MAX_BUFFER BY <2>2, <1>1 DEF RecvEnds
  <2>4. CASE reading[t].length = MAX_BUFFER /\ conn[fd].unread > 0
    BY <2>1, <2>4, <1>0, <1>1, <1>c DEF Types, Connection
  <2>5. CASE ~(reading[t].length = MAX_BUFFER /\ conn[fd].unread > 0)
    BY <2>3, <2>5, <1>0, <1>1 DEF Types
  <2> QED BY <2>4, <2>5
<1>3. Types' BY <1>0, <1>1, <1>2, <1>d DEF Types
<1>4. Waiting' = Waiting /\ ListInv' /\ \A j \in Waiting : job_fd'[j] = job_fd[j]
  BY <1>1, <1>3, ReleasedFacts
<1>5. RoomInv'
  <2>1. Opened' = Opened BY <1>d DEF Opened
  <2> QED BY <2>1, <1>0, <1>1 DEF RoomInv
<1>6. StrandInv'
  <2>1. ASSUME NEW u \in Thread, NEW g \in SrvFd, Takes(u, g), g # fd PROVE Takes(u, g)'
    <3>1. u # t BY <2>1 DEF Takes
    <3> QED BY <3>1, <2>1, <1>2 DEF Takes
  <2> HIDE DEF fd
  <2> QED BY <2>1, <1>0, <1>1, <1>4, <1>d DEF StrandInv
<1>7. AcceptInv' BY <1>0, <1>1 DEF AcceptInv
<1> QED BY <1>2, <1>3, <1>4, <1>5, <1>6, <1>7 DEF IInv

\* Whoever has the descriptor by now: the connection is gone with all its data.
LEMMA CloseJobInv == ASSUME IInv, NEW t \in Thread, CloseJob(t) PROVE IInv'
<1> DEFINE fd == reading[t].fd
<1>0. Types /\ RoomInv /\ StrandInv /\ AcceptInv BY DEF IInv
<1>1. /\ UNCHANGED <<head, next, prev, arrivals, listen_edge, events>>
      /\ Released(t) /\ reading[t].notconn
      /\ conn' = [conn EXCEPT ![fd] = Shut] /\ edge' = edge \ {fd}
  BY DEF CloseJob, Closing, loopVars
<1>c. curfds' \in Int BY <1>0 DEF CloseJob, Types
<1>2. /\ reading' \in [Thread -> Reading] /\ job_fd' \in [Job -> SrvFd \cup {0}]
      /\ thread' \in [Worker -> {"free", "waiting", "running"}]
      /\ \A u \in Thread : reading'[u] = IF u = t THEN NoRead ELSE reading[u]
      /\ TakenInv'
  BY <1>1, ReleasedFacts
<1>d. Shut \in Connection BY QueueAssumption DEF Shut, Connection
<1>e. conn' \in [SrvFd -> Connection] /\ \A g \in SrvFd : conn'[g] = IF g = fd THEN Shut ELSE conn[g]
  BY <1>0, <1>1, <1>d DEF Types
<1>3. Types'
  <2>1. edge' \subseteq SrvFd BY <1>0, <1>1 DEF Types
  <2> QED BY <2>1, <1>0, <1>1, <1>2, <1>c, <1>e DEF Types
<1>4. Waiting' = Waiting /\ ListInv' /\ \A j \in Waiting : job_fd'[j] = job_fd[j]
  BY <1>1, <1>3, ReleasedFacts
<1>5. RoomInv'
  <2>1. Opened' \subseteq Opened BY <1>e DEF Opened, Shut
  <2>2. Opened \subseteq SrvFd /\ IsFiniteSet(Opened) BY QueueAssumption, FS_Subset DEF Opened
  <2>3. /\ Cardinality(Opened') <= Cardinality(Opened) /\ Cardinality(Opened) \in Nat
        /\ Cardinality(Opened') \in Nat /\ Cardinality(SrvFd) \in Nat
    BY <2>1, <2>2, QueueAssumption, FS_Subset, FS_CardinalityType
  <2> QED BY <2>3, <1>0, <1>1 DEF RoomInv, Types
<1>6. StrandInv'
  <2>0. \A g \in SrvFd : conn'[g].unread <= conn'[g].sent
    BY <1>0, <1>e DEF StrandInv, Shut
  <2>1. ASSUME NEW u \in Thread, NEW g \in SrvFd, Takes(u, g), g # fd PROVE Takes(u, g)'
    <3>1. u # t BY <2>1 DEF Takes
    <3> QED BY <3>1, <2>1, <1>1, <1>2, <1>e DEF Takes
  <2>2. ASSUME NEW g \in SrvFd, conn'[g].unread > 0, ~conn'[g].cut
        PROVE  \/ g \in edge' \cup events'
               \/ \E j \in Waiting' : job_fd'[j] = g
               \/ \E u \in Thread : Takes(u, g)'
    <3>1. g # fd /\ conn'[g] = conn[g] BY <2>2, <1>e DEF Shut
    <3> QED BY <3>1, <2>1, <2>2, <1>0, <1>1, <1>4 DEF StrandInv
  <2> QED BY <2>0, <2>2 DEF StrandInv
<1>7. AcceptInv' BY <1>0, <1>1 DEF AcceptInv
<1> QED BY <1>2, <1>3, <1>4, <1>5, <1>6, <1>7 DEF IInv

-----------------------------------------------------------------------------
(* The main thread *)

LEMMA EpollWaitInv == ASSUME IInv, EpollWait PROVE IInv'
<1>0. Types /\ RoomInv /\ StrandInv /\ AcceptInv BY DEF IInv
<1>1. UNCHANGED <<queueVars, reading, arrivals, conn, curfds>> /\ events = {}
  BY DEF EpollWait
<1>2. \/ UNCHANGED <<events, edge, listen_edge>>
      \/ /\ events' \subseteq edge \cup (IF listen_edge THEN {ListenSocket} ELSE {})
         /\ edge' = edge \ events'
         /\ listen_edge' = (listen_edge /\ ListenSocket \notin events')
  BY DEF EpollWait
<1>3. /\ edge' \subseteq SrvFd /\ events' \subseteq SrvFd \cup {ListenSocket}
      /\ edge \cup events \subseteq edge' \cup events'
  BY <1>0, <1>1, <1>2 DEF Types
<1>4. listen_edge' \in BOOLEAN BY <1>0, <1>2, Zenon DEF Types
<1>5. Types' BY <1>0, <1>1, <1>3, <1>4 DEF Types, queueVars
<1>6. TakenInv' /\ ListInv' /\ Waiting' = Waiting BY <1>1, <1>5, QueueKept
<1>7. RoomInv'
  <2>1. Opened' = Opened BY <1>1 DEF Opened
  <2> QED BY <2>1, <1>0, <1>1 DEF RoomInv
<1>8. StrandInv'
  <2>1. \A t \in Thread, g \in SrvFd : Takes(t, g) => Takes(t, g)' BY <1>1 DEF Takes
  <2> QED BY <2>1, <1>0, <1>1, <1>3, <1>6 DEF StrandInv, queueVars
<1>9. AcceptInv'
  <2>1. ListenSocket \notin edge BY <1>0, QueueAssumption DEF Types, ListenSocket
  <2>2. ListenSocket \in events' => (listen_edge /\ ~listen_edge') \/ events' = events
    BY <2>1, <1>2
  <2>3. CASE UNCHANGED <<events, edge, listen_edge>> BY <2>3, <1>0, <1>1 DEF AcceptInv
  <2>4. CASE ListenSocket \in events' /\ listen_edge /\ ~listen_edge'
    BY <2>4, <1>0, <1>1 DEF AcceptInv, Types
  <2>5. CASE ListenSocket \notin events' /\ (listen_edge' => listen_edge)
    BY <2>5, <1>0, <1>1 DEF AcceptInv, Types
  <2> QED BY <2>1, <2>3, <2>4, <2>5, <1>1, <1>2
<1> QED BY <1>5, <1>6, <1>7, <1>8, <1>9 DEF IInv

\* There is a descriptor: the number of the new connection is the least free one.
LEMMA AcceptInvStep == ASSUME IInv, Accept PROVE IInv'
<1> DEFINE fd == Min(SrvFd \ Opened)
<1>0. Types /\ RoomInv /\ StrandInv /\ AcceptInv BY DEF IInv
<1>1. /\ UNCHANGED <<queueVars, reading, listen_edge>>
      /\ arrivals > 0 /\ arrivals' = arrivals - 1
      /\ edge' = edge \cup {fd} /\ ListenSocket \in events /\ events' = events \ {ListenSocket}
  BY DEF Accept, EventDone
<1>2. PICK n \in 0..1 : conn' = [conn EXCEPT ![fd] =
                                   [Shut EXCEPT !.open = TRUE, !.unread = n, !.sent = n]]
  BY DEF Accept
<1>3. curfds' \in Int BY <1>0 DEF Accept, Types
<1> DEFINE free == SrvFd \ Opened
<1>4. /\ Opened \subseteq SrvFd /\ IsFiniteSet(Opened) /\ Cardinality(Opened) \in Nat
      /\ IsFiniteSet(SrvFd) /\ Cardinality(SrvFd) \in Nat /\ arrivals \in Nat
  BY <1>0, QueueAssumption, FS_Subset, FS_CardinalityType DEF Opened, Types
<1>5. fd \in SrvFd /\ fd \notin Opened
  <2>1. Opened # SrvFd BY <1>4, <1>1, <1>0 DEF RoomInv
  <2>2. free # {} /\ free \in SUBSET Nat BY <2>1, <1>4, QueueAssumption
  <2> QED BY <2>2, MinType
<1>6. /\ conn' \in [SrvFd -> Connection] /\ conn'[fd].unread <= conn'[fd].sent /\ conn'[fd].open
      /\ \A g \in SrvFd : g # fd => conn'[g] = conn[g]
  <2>0. n \in 0..MaxPieces BY QueueAssumption
  <2>1. [Shut EXCEPT !.open = TRUE, !.unread = n, !.sent = n] \in Connection
    BY <2>0 DEF Shut, Connection
  <2>2. /\ [Shut EXCEPT !.open = TRUE, !.unread = n, !.sent = n].unread = n
        /\ [Shut EXCEPT !.open = TRUE, !.unread = n, !.sent = n].sent = n
        /\ [Shut EXCEPT !.open = TRUE, !.unread = n, !.sent = n].open
    BY DEF Shut
  <2> QED BY <2>1, <2>2, <1>0, <1>2, <1>5 DEF Types
<1>7. Types' BY <1>0, <1>1, <1>3, <1>4, <1>5, <1>6 DEF Types, queueVars
<1>8. TakenInv' /\ ListInv' /\ Waiting' = Waiting BY <1>1, <1>7, QueueKept
<1>9. RoomInv'
  <2>1. Opened' = Opened \cup {fd} BY <1>5, <1>6 DEF Opened
  <2>2. Cardinality(Opened') = Cardinality(Opened) + 1 BY <2>1, <1>4, <1>5, FS_AddElement
  <2> QED BY <2>2, <1>0, <1>1, <1>4 DEF RoomInv
<1>10. StrandInv'
  <2>1. \A t \in Thread, g \in SrvFd : g # fd /\ Takes(t, g) => Takes(t, g)'
    BY <1>1, <1>6 DEF Takes
  <2>2. \A g \in SrvFd : conn'[g].unread <= conn'[g].sent BY <1>0, <1>6 DEF StrandInv
  <2>3. ListenSocket \notin SrvFd BY QueueAssumption DEF ListenSocket
  <2> QED BY <2>1, <2>2, <2>3, <1>0, <1>1, <1>6, <1>8 DEF StrandInv, queueVars
<1>11. AcceptInv' BY <1>0, <1>1, <1>4 DEF AcceptInv
<1> QED BY <1>7, <1>8, <1>9, <1>10, <1>11 DEF IInv

\* The main thread reads the socket itself.
LEMMA ReadAtOnceInv == ASSUME IInv, NEW fd \in SrvFd, ClientEvent(fd), nRun PROVE IInv'
<1>0. Types /\ TakenInv /\ RoomInv /\ StrandInv /\ AcceptInv BY DEF IInv
<1>1. /\ UNCHANGED <<queueVars, arrivals, conn, listen_edge, edge, curfds>>
      /\ events' = events \ {fd} /\ reading[MainThread].fd = 0
      /\ reading' = [reading EXCEPT ![MainThread] = [NoRead EXCEPT !.fd = fd]]
  BY DEF ClientEvent, MainFree, EventDone, netVars
<1>2. fd # 0 /\ ListenSocket # fd /\ MainThread \in Thread /\ MainThread \notin Worker
  BY QueueAssumption DEF ListenSocket, Thread
<1> DEFINE r == [NoRead EXCEPT !.fd = fd]
<1>3. r \in Reading /\ r.fd = fd /\ r.job = NULL /\ r.length = 0 /\ ~r.notconn
  <2>1. 0 \in 0..MAX_BUFFER BY QueueAssumption
  <2> QED BY <2>1 DEF NoRead, Reading
<1>4. /\ reading' \in [Thread -> Reading]
      /\ \A u \in Thread : reading'[u] = IF u = MainThread THEN r ELSE reading[u]
  BY <1>0, <1>1, <1>2, <1>3 DEF Types
<1>5. Types' BY <1>0, <1>1, <1>4 DEF Types, queueVars
<1>6. TakenInv' /\ ListInv' /\ Waiting' = Waiting
  <2>1. \A u \in Thread : reading'[u].job = reading[u].job BY <1>0, <1>3, <1>4 DEF TakenInv
  <2>2. \A w \in Worker : reading'[w] = reading[w] BY <1>2, <1>4 DEF Thread
  <2> QED BY <2>1, <2>2, <1>1, <1>5, QueueKept
<1>7. RoomInv'
  <2>1. Opened' = Opened BY <1>1 DEF Opened
  <2> QED BY <2>1, <1>0, <1>1 DEF RoomInv
<1>8. StrandInv'
  <2>1. ASSUME NEW t \in Thread, NEW g \in SrvFd, Takes(t, g) PROVE Takes(t, g)'
    <3>1. g # 0 BY QueueAssumption
    <3>2. t # MainThread BY <3>1, <2>1, <1>1 DEF Takes
    <3> QED BY <3>2, <2>1, <1>1, <1>4 DEF Takes
  <2>2. Takes(MainThread, fd)' BY <1>2, <1>3, <1>4 DEF Takes
  <2> QED BY <2>1, <2>2, <1>0, <1>1, <1>2, <1>6 DEF StrandInv, queueVars
<1>9. AcceptInv' BY <1>0, <1>1, <1>2 DEF AcceptInv
<1> QED BY <1>5, <1>6, <1>7, <1>8, <1>9 DEF IInv

\* The new job goes in front of the list.
LEMMA AddJobInv == ASSUME IInv, NEW fd \in SrvFd, ClientEvent(fd), ~nRun PROVE IInv'
<1>0. Types /\ TakenInv /\ ListInv /\ RoomInv /\ StrandInv /\ AcceptInv BY DEF IInv
<1>1. UNCHANGED <<reading, arrivals, conn, listen_edge, edge, curfds>> /\ events' = events \ {fd}
  BY DEF ClientEvent, EventDone, netVars
<1>2. PICK j \in Job : job_fd[j] = 0 /\ workqueue_add_job(j, fd) BY DEF ClientEvent
<1>3. /\ prev' = [prev EXCEPT ![j] = NULL] /\ next' = [next EXCEPT ![j] = head] /\ head' = j
      /\ job_fd' = [job_fd EXCEPT ![j] = fd] /\ Signal
  BY <1>2 DEF workqueue_add_job, LL_ADD
<1>4. fd # 0 /\ ListenSocket # fd /\ NULL \notin Job
  BY QueueAssumption DEF ListenSocket, NULL
<1>5. /\ thread' \in [Worker -> {"free", "waiting", "running"}]
      /\ \A w \in Worker : thread'[w] = "running" <=> thread[w] = "running"
      /\ \E w \in Worker : thread'[w] # "waiting"
  <2>1. CASE (\A w \in Worker : thread[w] # "waiting") /\ UNCHANGED thread
    BY <2>1, <1>0, QueueAssumption DEF Types
  <2>2. CASE \E w \in Worker : thread[w] = "waiting" /\ thread' = [thread EXCEPT ![w] = "free"]
    BY <2>2, <1>0 DEF Types
  <2> QED BY <2>1, <2>2, <1>3 DEF Signal
<1>6. /\ job_fd' \in [Job -> SrvFd \cup {0}] /\ job_fd'[j] = fd
      /\ \A k \in Job : k # j => job_fd'[k] = job_fd[k]
  BY <1>0, <1>3 DEF Types
<1>7. /\ next' \in [Job -> Job \cup {NULL}] /\ prev' \in [Job -> Job \cup {NULL}]
      /\ next'[j] = head /\ prev'[j] = NULL /\ \A k \in Job : k # j => next'[k] = next[k]
  BY <1>0, <1>3 DEF Types
<1>8. Types' BY <1>0, <1>1, <1>3, <1>5, <1>6, <1>7 DEF Types
<1>9. \A t \in Thread : reading[t].job # j
  BY <1>0, <1>2, <1>4 DEF TakenInv
<1>10. TakenInv'
  <2>1. \A t \in Thread : reading[t].job \in Job \cup {NULL} BY <1>0 DEF Types, Reading
  <2> QED BY <2>1, <1>0, <1>1, <1>5, <1>6, <1>9 DEF TakenInv
<1>11. j \notin Waiting /\ Waiting' = Waiting \cup {j}
  <2>1. j \notin Waiting BY <1>0, <1>2, InWaiting
  <2>2. \A k \in Job : k \in Waiting' <=> k \in Waiting \/ k = j
    BY <1>0, <1>1, <1>4, <1>6, <1>8, <1>9, InWaiting, InWaitingNext
  <2> QED BY <2>1, <2>2, <1>0, <1>8, InWaiting, InWaitingNext
<1>12. ListInv'
  <2>1. PICK list \in SetToSeqs(Waiting) : Linked(list) BY <1>0 DEF ListInv
  <2> DEFINE n == Len(list)
             longer == [i \in 1..n + 1 |-> IF i = 1 THEN j ELSE list[i - 1]]
  <2>2. /\ IsFiniteSet(Waiting) /\ n \in Nat /\ list \in [1..n -> Waiting]
        /\ \A i, k \in 1..n : i # k => list[i] # list[k]
        /\ \A x \in Waiting : \E i \in 1..n : list[i] = x
    BY <1>0, InWaiting, OrderFacts
  <2>3. longer \in [1..n + 1 -> Waiting'] BY <2>2, <1>11
  <2>4. \A i, k \in 1..n + 1 : i # k => longer[i] # longer[k] BY <2>2, <1>11
  <2>5. \A x \in Waiting' : \E i \in 1..n + 1 : longer[i] = x
    <3>1. longer[1] = j /\ 1 \in 1..n + 1 BY <2>2
    <3>2. ASSUME NEW x \in Waiting PROVE \E i \in 1..n + 1 : longer[i] = x
      <4>1. PICK i \in 1..n : list[i] = x BY <2>2
      <4>2. i + 1 \in 1..n + 1 /\ longer[i + 1] = x BY <4>1, <2>2
      <4> QED BY <4>2
    <3> QED BY <3>1, <3>2, <1>11
  <2>6. longer \in SetToSeqs(Waiting') /\ Len(longer) = n + 1
    <3> HIDE DEF longer
    <3>1. IsFiniteSet(Waiting') /\ n + 1 \in Nat BY <2>2, <1>8, InWaitingNext
    <3> QED BY <3>1, <2>3, <2>4, <2>5, IsOrder
  <2>7. ASSUME NEW i \in 1..n + 1
        PROVE  next'[longer[i]] = IF i = n + 1 THEN NULL ELSE longer[i + 1]
    <3>1. CASE i = 1
      <4>1. longer[1] = j /\ next'[j] = head BY <2>2, <1>7
      <4>2. head = IF n = 0 THEN NULL ELSE list[1] BY <2>1 DEF Linked
      <4>3. n # 0 => longer[2] = list[1] BY <2>2
      <4> QED BY <3>1, <4>1, <4>2, <4>3, <2>2
    <3>2. CASE i # 1
      <4>1. i - 1 \in 1..n /\ longer[i] = list[i - 1] BY <3>2, <2>2
      <4>2. list[i - 1] \in Job /\ list[i - 1] # j
        BY <4>1, <2>2, <1>11, <1>0, InWaiting
      <4>3. next[list[i - 1]] = IF i - 1 = n THEN NULL ELSE list[(i - 1) + 1]
        BY <4>1, <2>1 DEF Linked
      <4>4. i # n + 1 => longer[i + 1] = list[(i - 1) + 1] BY <3>2, <2>2
      <4> QED BY <4>1, <4>2, <4>3, <4>4, <2>2, <1>7
    <3> QED BY <3>1, <3>2
  <2>8. head' = longer[1] BY <1>3, <2>2
  <2>9. Linked(longer)'
    <3> HIDE DEF longer
    <3>1. n + 1 # 0 BY <2>2
    <3> QED BY <3>1, <2>6, <2>7, <2>8 DEF Linked
  <2>10. prev'[head'] = NULL BY <1>3, <1>7
  <2> HIDE DEF longer
  <2> QED BY <2>6, <2>9, <2>10, <1>5 DEF ListInv
<1>13. RoomInv'
  <2>1. Opened' = Opened BY <1>1 DEF Opened
  <2> QED BY <2>1, <1>0, <1>1 DEF RoomInv
<1>14. StrandInv'
  <2>1. \A t \in Thread, g \in SrvFd : Takes(t, g) => Takes(t, g)' BY <1>1 DEF Takes
  <2>2. \A k \in Waiting : k \in Waiting' /\ job_fd'[k] = job_fd[k]
    BY <1>0, <1>6, <1>11, InWaiting
  <2> QED BY <2>1, <2>2, <1>0, <1>1, <1>6, <1>11 DEF StrandInv
<1>15. AcceptInv' BY <1>0, <1>1, <1>4 DEF AcceptInv
<1> QED BY <1>8, <1>10, <1>12, <1>13, <1>14, <1>15 DEF IInv

-----------------------------------------------------------------------------
(* The workers *)

LEMMA WaitInv == ASSUME IInv, NEW w \in Worker, worker_function(w), head = NULL PROVE IInv'
<1>0. Types /\ RoomInv /\ StrandInv /\ AcceptInv /\ TakenInv /\ ListInv BY DEF IInv
<1>1. /\ UNCHANGED <<head, next, prev, job_fd, reading, arrivals, conn, listen_edge, edge,
                     events, curfds>>
      /\ thread[w] = "free" /\ thread' = [thread EXCEPT ![w] = "waiting"]
  BY DEF worker_function, netVars, loopVars
<1>2. Types' BY <1>0, <1>1 DEF Types
<1>3. Waiting' = Waiting BY <1>1 DEF Waiting, Taken
<1>4. TakenInv'
  <2>1. \A v \in Worker : thread'[v] = "running" <=> thread[v] = "running"
    BY <1>0, <1>1 DEF Types
  <2> QED BY <2>1, <1>0, <1>1 DEF TakenInv
<1>5. ListInv' BY <1>0, <1>1, <1>3 DEF ListInv, Linked
<1>6. RoomInv'
  <2>1. Opened' = Opened BY <1>1 DEF Opened
  <2> QED BY <2>1, <1>0, <1>1 DEF RoomInv
<1>7. StrandInv' BY <1>0, <1>1, <1>3 DEF StrandInv, Takes
<1>8. AcceptInv' BY <1>0, <1>1 DEF AcceptInv
<1> QED BY <1>2, <1>4, <1>5, <1>6, <1>7, <1>8 DEF IInv

\* The first job leaves the list, whose other jobs keep their next pointers: the
\* first one's prev pointer is NULL.
LEMMA TakeInv == ASSUME IInv, NEW w \in Worker, worker_function(w), head # NULL PROVE IInv'
<1>0. Types /\ RoomInv /\ StrandInv /\ AcceptInv /\ TakenInv /\ ListInv BY DEF IInv
<1> DEFINE r == [NoRead EXCEPT !.fd = job_fd[head], !.job = head]
<1>1. /\ UNCHANGED <<job_fd, arrivals, conn, listen_edge, edge, events, curfds>>
      /\ thread[w] = "free" /\ thread' = [thread EXCEPT ![w] = "running"]
      /\ reading' = [reading EXCEPT ![w] = r]
      /\ LL_REMOVE(head)
  BY DEF worker_function, netVars, loopVars
<1>2. head \in Job /\ prev[head] = NULL /\ NULL \notin Job
  BY <1>0, QueueAssumption DEF Types, ListInv, NULL
<1>3. PICK list \in SetToSeqs(Waiting) : Linked(list) BY <1>0 DEF ListInv
<1> DEFINE n == Len(list)
<1>4. /\ IsFiniteSet(Waiting) /\ n \in Nat /\ list \in [1..n -> Waiting]
      /\ \A i, k \in 1..n : i # k => list[i] # list[k]
      /\ \A x \in Waiting : \E i \in 1..n : list[i] = x
  BY <1>0, InWaiting, OrderFacts
<1>5. n # 0 /\ n - 1 \in Nat /\ 1 \in 1..n /\ head = list[1] /\ head \in Waiting
  <2>1. head = IF n = 0 THEN NULL ELSE list[1] BY <1>3 DEF Linked
  <2>2. n # 0 /\ head = list[1] BY <2>1
  <2>3. n - 1 \in Nat /\ 1 \in 1..n BY <2>2, <1>4
  <2> QED BY <2>2, <2>3, <1>4
<1>6. job_fd[head] # 0 /\ \A t \in Thread : reading[t].job # head
  BY <1>0, <1>2, <1>5, InWaiting
<1>7. /\ next' = [k \in Job |-> IF k = head THEN NULL ELSE next[k]]
      /\ prev' = [k \in Job |-> IF k = head \/ k = next[head] THEN NULL ELSE prev[k]]
      /\ head' = next[head]
  <2>1. ASSUME NEW k \in Job
        PROVE  (IF k = head THEN NULL ELSE IF k = prev[head] THEN next[head] ELSE next[k])
                 = IF k = head THEN NULL ELSE next[k]
    BY <1>2
  <2>2. ASSUME NEW k \in Job
        PROVE  (IF k = head THEN NULL ELSE IF k = next[head] THEN prev[head] ELSE prev[k])
                 = IF k = head \/ k = next[head] THEN NULL ELSE prev[k]
    BY <1>2
  <2> QED BY <1>1, <2>1, <2>2 DEF LL_REMOVE
<1>8. /\ next' \in [Job -> Job \cup {NULL}] /\ prev' \in [Job -> Job \cup {NULL}]
      /\ head' \in Job \cup {NULL}
  BY <1>0, <1>2, <1>7 DEF Types
<1>9. r \in Reading /\ r.fd = job_fd[head] /\ r.job = head /\ r.length = 0 /\ ~r.notconn
  <2>1. 0 \in 0..MAX_BUFFER BY QueueAssumption
  <2>2. job_fd[head] \in SrvFd \cup {0} BY <1>0, <1>2 DEF Types
  <2> QED BY <2>1, <2>2, <1>2 DEF NoRead, Reading
<1>10. w \in Thread /\ MainThread \in Thread /\ w # MainThread /\ Worker \subseteq Thread
  BY QueueAssumption DEF Thread
<1> HIDE DEF r
<1>11. /\ reading' \in [Thread -> Reading]
       /\ \A t \in Thread : reading'[t] = IF t = w THEN r ELSE reading[t]
  BY <1>0, <1>1, <1>9, <1>10 DEF Types
<1>12. /\ thread' \in [Worker -> {"free", "waiting", "running"}] /\ thread'[w] = "running"
       /\ \A v \in Worker : v # w => thread'[v] = thread[v]
  BY <1>0, <1>1 DEF Types
<1>13. Types' BY <1>0, <1>1, <1>8, <1>11, <1>12 DEF Types
<1>14. reading[w].job = NULL /\ reading[w].fd = 0
  BY <1>0, <1>1 DEF TakenInv, NoRead, NULL
<1>15. TakenInv'
  <2>1. \A t \in Thread : reading'[t].job # NULL => job_fd'[reading'[t].job] # 0
    BY <1>0, <1>1, <1>6, <1>9, <1>11 DEF TakenInv
  <2>2. \A t, u \in Thread : t # u /\ reading'[t].job # NULL => reading'[t].job # reading'[u].job
    BY <1>0, <1>6, <1>9, <1>11 DEF TakenInv
  <2>3. \A v \in Worker : thread'[v] # "running" => reading'[v] = NoRead
    BY <1>0, <1>10, <1>11, <1>12 DEF TakenInv
  <2>4. reading'[MainThread].job = NULL BY <1>0, <1>10, <1>11 DEF TakenInv
  <2> QED BY <2>1, <2>2, <2>3, <2>4 DEF TakenInv
<1>16. Waiting' = Waiting \ {head}
  <2>1. \A k \in Job : k \in Waiting' <=> k \in Waiting /\ k # head
    BY <1>0, <1>1, <1>2, <1>9, <1>10, <1>11, <1>13, <1>14, InWaiting, InWaitingNext
  <2> QED BY <2>1, <1>0, <1>13, InWaiting, InWaitingNext
<1>17. ListInv'
  <2> DEFINE rest == [i \in 1..n - 1 |-> list[i + 1]]
  <2>1. \A i \in 1..n - 1 : i + 1 \in 1..n /\ rest[i] = list[i + 1] BY <1>4, <1>5
  <2>2. rest \in [1..n - 1 -> Waiting'] BY <2>1, <1>4, <1>5, <1>16
  <2>3. \A i, k \in 1..n - 1 : i # k => rest[i] # rest[k] BY <2>1, <1>4
  <2>4. ASSUME NEW x \in Waiting' PROVE \E i \in 1..n - 1 : rest[i] = x
    <3>1. x \in Waiting /\ x # head BY <1>16
    <3>2. PICK i \in 1..n : list[i] = x BY <3>1, <1>4
    <3>3. i # 1 BY <3>1, <3>2, <1>5
    <3>4. i - 1 \in 1..n - 1 /\ rest[i - 1] = list[i] BY <3>3, <1>4
    <3> QED BY <3>2, <3>4
  <2>5. rest \in SetToSeqs(Waiting') /\ Len(rest) = n - 1
    <3> HIDE DEF rest
    <3>1. IsFiniteSet(Waiting') BY <1>13, InWaitingNext
    <3> QED BY <3>1, <2>2, <2>3, <2>4, <1>5, IsOrder
  <2>6. \A i \in 1..n : next[list[i]] = IF i = n THEN NULL ELSE list[i + 1]
    BY <1>3 DEF Linked
  <2>7. head' = IF n - 1 = 0 THEN NULL ELSE rest[1]
    <3>1. next[head] = IF 1 = n THEN NULL ELSE list[1 + 1] BY <2>6, <1>5
    <3>2. n # 1 => rest[1] = list[1 + 1] BY <2>1, <1>4, <1>5
    <3> QED BY <3>1, <3>2, <1>4, <1>7
  <2>8. ASSUME NEW i \in 1..n - 1
        PROVE  next'[rest[i]] = IF i = n - 1 THEN NULL ELSE rest[i + 1]
    <3>1. rest[i] = list[i + 1] /\ i + 1 \in 1..n BY <2>1
    <3>2. rest[i] \in Job /\ rest[i] # head BY <2>2, <1>16, <1>0, InWaiting
    <3>3. next'[rest[i]] = next[list[i + 1]] BY <3>1, <3>2, <1>7
    <3>4. next[list[i + 1]] = IF i + 1 = n THEN NULL ELSE list[(i + 1) + 1] BY <3>1, <2>6
    <3>5. ASSUME i # n - 1 PROVE rest[i + 1] = list[(i + 1) + 1]
      <4> HIDE DEF rest, n
      <4>1. n \in Nat /\ i \in Int /\ 1 <= i /\ i <= n - 1 BY <1>4
      <4>2. i + 1 \in 1..n - 1 BY <3>5, <4>1
      <4> QED BY <4>2, <2>1
    <3> HIDE DEF rest, n
    <3>6. n \in Nat /\ i \in Int /\ (i + 1 = n <=> i = n - 1) BY <1>4
    <3> QED BY <3>3, <3>4, <3>5, <3>6
  <2>9. Linked(rest)'
    <3> HIDE DEF rest
    <3> QED BY <2>5, <2>7, <2>8 DEF Linked
  <2>10. head' # NULL => prev'[head'] = NULL
    BY <1>7, <1>8
  <2> HIDE DEF rest
  <2> QED BY <2>5, <2>9, <2>10, <1>12 DEF ListInv
<1>18. RoomInv'
  <2>1. Opened' = Opened BY <1>1 DEF Opened
  <2> QED BY <2>1, <1>0, <1>1 DEF RoomInv
<1>19. StrandInv'
  <2>1. ASSUME NEW t \in Thread, NEW g \in SrvFd, Takes(t, g) PROVE Takes(t, g)'
    <3>1. g # 0 BY QueueAssumption
    <3>2. t # w BY <3>1, <2>1, <1>14 DEF Takes
    <3> QED BY <3>2, <2>1, <1>1, <1>11 DEF Takes
  <2>2. \A g \in SrvFd : job_fd[head] = g => Takes(w, g)' BY <1>9, <1>10, <1>11 DEF Takes
  <2> QED BY <2>1, <2>2, <1>0, <1>1, <1>10, <1>16 DEF StrandInv
<1>20. AcceptInv' BY <1>0, <1>1 DEF AcceptInv
<1> QED BY <1>13, <1>15, <1>17, <1>18, <1>19, <1>20 DEF IInv

-----------------------------------------------------------------------------
(* The theorems *)

LEMMA StutterInv == IInv /\ UNCHANGED vars => IInv'
<1> SUFFICES ASSUME IInv, UNCHANGED vars PROVE IInv'
  OBVIOUS
<1>1. UNCHANGED <<head, next, prev, job_fd, thread, reading, arrivals, conn, listen_edge,
                  edge, events, curfds>>
  BY DEF vars
<1>2. Waiting' = Waiting /\ Opened' = Opened BY <1>1 DEF Waiting, Taken, Opened
<1>3. Types' BY <1>1 DEF IInv, Types
<1>4. TakenInv' /\ ListInv' BY <1>1, <1>3, QueueKept DEF queueVars, Thread
<1>5. RoomInv' /\ AcceptInv' BY <1>1, <1>2 DEF IInv, RoomInv, AcceptInv
<1>6. StrandInv' BY <1>1, <1>2 DEF IInv, StrandInv, Takes
<1> QED BY <1>3, <1>4, <1>5, <1>6 DEF IInv

(***************************************************************************)
(* The server stays within IInv: the invariant that the three properties   *)
(* below follow from.                                                      *)
(***************************************************************************)
THEOREM Invariance == Spec => []IInv
<1>1. Init => IInv BY InitInv
<1>2. IInv /\ [Next]_vars => IInv'
  <2> SUFFICES ASSUME IInv, [Next]_vars PROVE IInv'
    OBVIOUS
  <2>1. CASE Connect BY <2>1, ConnectInv
  <2>2. CASE EpollWait BY <2>2, EpollWaitInv
  <2>3. CASE Accept BY <2>3, AcceptInvStep
  <2>4. ASSUME NEW fd \in SrvFd, Send(fd) \/ Leave(fd) \/ ClientEvent(fd) PROVE IInv'
    BY <2>4, SendInv, LeaveInv, ReadAtOnceInv, AddJobInv
  <2>5. ASSUME NEW w \in Worker, worker_function(w) PROVE IInv'
    BY <2>5, WaitInv, TakeInv
  <2>6. ASSUME NEW t \in Thread, Recv(t) \/ FinishJob(t) \/ NotConnected(t) \/ CloseJob(t)
        PROVE  IInv'
    BY <2>6, RecvInv, FinishJobInv, NotConnectedInv, CloseJobInv
  <2>7. CASE UNCHANGED vars BY <2>7, StutterInv
  <2> QED BY <2>1, <2>2, <2>3, <2>4, <2>5, <2>6, <2>7 DEF Next, Thread
<1> QED BY <1>1, <1>2, PTL DEF Spec

(***************************************************************************)
(* LL_ADD and LL_REMOVE keep a list that ends and holds exactly the jobs   *)
(* nobody has taken, although LL_ADD leaves a prev pointer as it was: the  *)
(* first job's own prev is always NULL, and workers take the first only.   *)
(***************************************************************************)
THEOREM QueueKeepsJobs == Spec => []JobInOnePlace
<1>1. IInv => JobInOnePlace BY DEF IInv, ListInv, JobInOnePlace
<1> QED BY <1>1, Invariance, PTL

(***************************************************************************)
(* However much clients send and however reads of one socket overlap, data *)
(* always has somebody to come for it, except behind a read that nRecv     *)
(* ended with its buffer full and until the client sends or leaves.        *)
(***************************************************************************)
THEOREM NoDataStranded == Spec => []NothingStranded
<1>1. ASSUME IInv PROVE NothingStranded
  <2>0. StrandInv /\ DOMAIN reading = Thread BY <1>1 DEF IInv, Types
  <2>1. \A fd \in SrvFd, t \in Thread : Takes(t, fd) => reading[t].fd = fd /\ Receiving(t)
    BY QueueAssumption DEF Takes, Receiving
  <2> QED BY <2>0, <2>1 DEF StrandInv, NothingStranded
<1> QED BY <1>1, Invariance, PTL

(***************************************************************************)
(* The main thread never blocks in accept: each event of the listening     *)
(* socket, reported or to come, has a connection of its own behind it.     *)
(***************************************************************************)
THEOREM AcceptNeverBlocks == Spec => []AcceptReturns
<1>1. ASSUME IInv PROVE AcceptReturns
  BY <1>1 DEF IInv, Types, AcceptInv, AcceptReturns
<1> QED BY <1>1, Invariance, PTL
=============================================================================
