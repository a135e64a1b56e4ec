--------------------------- MODULE ConnectionPool ---------------------------
(***************************************************************************)
(* The database connection pool (test4/connectionpool.h) and the threads   *)
(* that use it the way sqltest.cpp does: acquire one connection, use it,   *)
(* release it.  The owner may initialise the pool and shut it down, at any *)
(* time and repeatedly.  Every operation changes the pool inside one       *)
(* critical section of mutex_cp and notifies within it, so an operation is *)
(* one step; only the wait in acquire splits it.  The flag is active_flag  *)
(* in the code, as that of the thread pool is.                             *)
(***************************************************************************)
EXTENDS Naturals, FiniteSets, Sequences, SequencesExt, ConnectionPoolState

vars == <<connections, pool_active_flag, total_connection, available_connection,
          status, client, held>>

Init ==
  /\ connections = <<>>
  /\ pool_active_flag = FALSE
  /\ total_connection = 0
  /\ available_connection = 0
  /\ status = [c \in Conn |-> "unopened"]
  /\ client = [t \in Client |-> "outside"]
  /\ held = [t \in Client |-> NoConn]

\* cv_cp.notify_all and cv_cp.notify_one
NotifyAll == client' = [t \in Client |-> IF client[t] = "asleep" THEN "awake" ELSE client[t]]
NotifyOne ==
  \/ Asleep = {} /\ UNCHANGED client
  \/ \E t \in Asleep : client' = [client EXCEPT ![t] = "awake"]

-----------------------------------------------------------------------------
(* init: all the connections are made, or those already made are closed *)

Unopened == {c \in Conn : status[c] = "unopened"}

InitPool ==
  /\ ~pool_active_flag
  /\ \E created \in [1..max_conn_num -> Unopened] :
        /\ \A i, j \in 1..max_conn_num : created[i] = created[j] => i = j
        /\ connections' = connections \o created
        /\ status' = [c \in Conn |-> IF \E i \in 1..max_conn_num : created[i] = c
                                       THEN "open" ELSE status[c]]
  /\ pool_active_flag' = TRUE
  /\ total_connection' = total_connection + max_conn_num
  /\ available_connection' = available_connection + max_conn_num
  /\ NotifyAll
  /\ UNCHANGED held

InitFails ==
  /\ ~pool_active_flag
  /\ \E made \in SUBSET Unopened :
        /\ Cardinality(made) < max_conn_num
        /\ status' = [c \in Conn |-> IF c \in made THEN "closed" ELSE status[c]]
  /\ UNCHANGED <<connections, pool_active_flag, total_connection, available_connection,
                 client, held>>

-----------------------------------------------------------------------------
(* acquire, from its call or from a wakeup to its return or its next wait *)

\* Mutant of Acquire: the connection handed out is not popped.
AcquireNoPop(t) ==
  /\ client[t] \in {"outside", "awake"}
  /\ held[t] = NoConn
  /\ pool_active_flag /\ connections # <<>>
  /\ held' = [held EXCEPT ![t] = Head(connections)]
  /\ client' = [client EXCEPT ![t] = "outside"]
  /\ UNCHANGED <<connections, pool_active_flag, total_connection, available_connection, status>>

Acquire(t) ==
  /\ client[t] \in {"outside", "awake"}
  /\ held[t] = NoConn
  /\ \/ /\ ~pool_active_flag                          \* returns nullptr
        /\ client' = [client EXCEPT ![t] = "outside"]
        /\ UNCHANGED <<connections, available_connection, held>>
     \/ /\ pool_active_flag /\ connections # <<>>
        /\ held' = [held EXCEPT ![t] = Head(connections)]
        /\ connections' = Tail(connections)
        /\ available_connection' = available_connection - 1
        /\ client' = [client EXCEPT ![t] = "outside"]
     \/ /\ pool_active_flag /\ connections = <<>>
        /\ client' = [client EXCEPT ![t] = "asleep"]
        /\ UNCHANGED <<connections, available_connection, held>>
  /\ UNCHANGED <<pool_active_flag, total_connection, status>>

Spurious(t) ==
  /\ client[t] = "asleep"
  /\ client' = [client EXCEPT ![t] = "awake"]
  /\ UNCHANGED <<connections, pool_active_flag, total_connection, available_connection,
                 status, held>>

-----------------------------------------------------------------------------
(* release, of the connection acquired; it is taken back after a shutdown too *)

\* Mutant of Release: nobody is told.
ReleaseSilent(t) ==
  /\ held[t] # NoConn
  /\ connections' = Append(connections, held[t])
  /\ available_connection' = available_connection + 1
  /\ held' = [held EXCEPT ![t] = NoConn]
  /\ UNCHANGED <<client, pool_active_flag, total_connection, status>>

Release(t) ==
  /\ held[t] # NoConn
  /\ connections' = Append(connections, held[t])
  /\ available_connection' = available_connection + 1
  /\ held' = [held EXCEPT ![t] = NoConn]
  /\ NotifyOne
  /\ UNCHANGED <<pool_active_flag, total_connection, status>>

-----------------------------------------------------------------------------
(* shutdown closes the connections in the queue; those in use stay open *)

\* Mutant of Shutdown: the count of idle connections is not reset.
ShutdownKeepsCount ==
  /\ pool_active_flag' = FALSE
  /\ connections' = <<>>
  /\ status' = [c \in Conn |-> IF c \in InQueue THEN "closed" ELSE status[c]]
  /\ total_connection' = 0
  /\ NotifyAll
  /\ UNCHANGED <<held, available_connection>>

\* Mutant of Shutdown: the waiting threads are not told.
ShutdownSilent ==
  /\ pool_active_flag' = FALSE
  /\ connections' = <<>>
  /\ status' = [c \in Conn |-> IF c \in InQueue THEN "closed" ELSE status[c]]
  /\ total_connection' = 0
  /\ available_connection' = 0
  /\ UNCHANGED <<held, client>>

Shutdown ==
  /\ pool_active_flag' = FALSE
  /\ connections' = <<>>
  /\ status' = [c \in Conn |-> IF c \in InQueue THEN "closed" ELSE status[c]]
  /\ total_connection' = 0
  /\ available_connection' = 0
  /\ NotifyAll
  /\ UNCHANGED held

-----------------------------------------------------------------------------
Next ==
  \/ InitPool \/ InitFails \/ Shutdown
  \/ \E t \in Client : Acquire(t) \/ Spurious(t) \/ Release(t)

Spec == Init /\ [][Next]_vars

(***************************************************************************)
(* Fairness: a thread woken inside acquire gets the mutex in the end, which*)
(* every operation holds for a bounded time.  Nothing obliges a thread to  *)
(* call acquire, release, init or shutdown.                                *)
(***************************************************************************)
FairSpec == Spec /\ \A t \in Client : WF_vars(client[t] = "awake" /\ Acquire(t))

-----------------------------------------------------------------------------
\* The queue, the counters and the threads keep their types.  What the pool promises is
\* stated in ConnectionPoolState.
TypeOK ==
  /\ connections \in Seq(Conn)
  /\ pool_active_flag \in BOOLEAN
  /\ total_connection \in Nat /\ available_connection \in Nat
  /\ status \in [Conn -> {"unopened", "open", "closed"}]
  /\ client \in [Client -> {"outside", "asleep", "awake"}]
  /\ held \in [Client -> Conn \cup {NoConn}]
=============================================================================
