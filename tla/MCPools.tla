-------------------------------- MODULE MCPools --------------------------------
(***************************************************************************)
(* The thread pool of test3 and the connection pool of test4, for TLC.     *)
(* They are never used together, so a behaviour runs one of them, "active",*)
(* while the other stays as it began.                                      *)
(***************************************************************************)
EXTENDS ThreadPool, ConnectionPoolState

VARIABLE active

Pool == INSTANCE ConnectionPool

poolVars == <<connections, pool_active_flag, total_connection, available_connection, status,
              client, held>>

PoolsInit == active \in {"threads", "connections"} /\ Init /\ Pool!Init

PoolsNext ==
  /\ UNCHANGED active
  /\ \/ active = "threads" /\ Next /\ UNCHANGED poolVars
     \/ active = "connections" /\ Pool!Next /\ UNCHANGED vars

\* What the FairSpec of each pool asks, of the one that runs.
PoolsFairSpec ==
  /\ PoolsInit /\ [][PoolsNext]_<<active, vars, poolVars>>
  /\ \A w \in Worker : WF_vars(active = "threads" /\ WorkerStep(w))
  /\ \A t \in Task : /\ WF_vars(active = "threads" /\ SubmitPush(t))
                     /\ WF_vars(active = "threads" /\ SubmitNotify(t))
  /\ WF_vars(active = "threads" /\ StopNotify) /\ WF_vars(active = "threads" /\ StopJoin)
  /\ \A c \in Client :
       WF_poolVars(active = "connections" /\ client[c] = "awake" /\ Pool!Acquire(c))

-----------------------------------------------------------------------------
\* The variables of both pools keep their types.  The other properties are those of
\* ThreadPool and ConnectionPoolState.
PoolsTypeOK == TypeOK /\ Pool!TypeOK
=============================================================================
