------------------------ MODULE ConnectionPoolState ------------------------
(***************************************************************************)
(* The state of the connection pool (test4/connectionpool.h) and of the    *)
(* threads that use it, and what is promised of it.  ConnectionPool has    *)
(* the operations.                                                         *)
(***************************************************************************)
EXTENDS Naturals, FiniteSets, Sequences

CONSTANTS Client,          \* threads that use the pool
          Conn,            \* bound: the handles mysql_init can return
          max_conn_num,
          NoConn           \* nullptr

ASSUME ClientAssumption == IsFiniteSet(Client)
ASSUME MaxConnAssumption == max_conn_num \in Nat
ASSUME NoConnAssumption == NoConn \notin Conn

VARIABLES connections,     \* the queue of idle connections
          pool_active_flag,
          total_connection,
          available_connection,
          status,          \* of each handle, as the mysql library sees it
          client,          \* where each thread is in acquire
          held             \* the connection it acquired

InQueue == {connections[i] : i \in 1..Len(connections)}
Asleep == {t \in Client : client[t] = "asleep"}
Awake == {t \in Client : client[t] = "awake"}

-----------------------------------------------------------------------------
(* Properties *)

(***************************************************************************)
(* A connection is with one thread or once in the queue, and these are     *)
(* exactly the open ones: no thread is handed a connection that another    *)
(* uses or that shutdown closed, nothing is closed twice, and none leaks,  *)
(* although connections come back after a shutdown and a new init.         *)
(***************************************************************************)
ConnInOnePlace ==
  /\ \A i, j \in 1..Len(connections) : connections[i] = connections[j] => i = j
  /\ \A t \in Client : held[t] # NoConn =>
        /\ held[t] \notin InQueue
        /\ \A u \in Client : held[u] = held[t] => u = t
  /\ \A c \in Conn : status[c] = "open" <=>
        c \in InQueue \/ \E t \in Client : held[t] = c

(***************************************************************************)
(* available() returns the number of open connections that no thread uses, *)
(* through shutdowns with connections in use and failed calls of init.  Of *)
(* an active pool acquire gets so many before a thread has to wait.  After *)
(* a shutdown, the connections that were in use enter the count again as   *)
(* they come back, although acquire returns nullptr until the next init.   *)
(***************************************************************************)
AvailableExact ==
  available_connection =
    Cardinality({c \in Conn : status[c] = "open" /\ \A t \in Client : held[t] # c})

(***************************************************************************)
(* The notify_one of release is enough: while a thread sleeps in acquire,  *)
(* as many threads are awake there as there are idle connections, even if  *)
(* newcomers take connections before those who were woken.                 *)
(***************************************************************************)
NoIdleConnection ==
  Asleep # {} => pool_active_flag /\ Len(connections) <= Cardinality(Awake)

(***************************************************************************)
(* A shutdown lets every thread waiting in acquire return, unless the pool *)
(* is initialised again first.                                             *)
(***************************************************************************)
ShutdownFreesWaiters ==
  \A t \in Client : ~pool_active_flag ~> pool_active_flag \/ client[t] = "outside"
=============================================================================
