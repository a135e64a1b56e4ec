-------------------------- MODULE ThreadPoolProofs --------------------------
(***************************************************************************)
(* Safety of the thread pool for any set of workers and of submitted tasks.*)
(***************************************************************************)
EXTENDS ThreadPool, TLAPS, SequenceTheorems

(***************************************************************************)
(* The inductive invariant.  A worker between its test of the predicate    *)
(* and its sleep holds the mutex, so the queue it found empty stays empty; *)
(* a worker leaves only once the flag is down.                             *)
(***************************************************************************)
MutexInv == \A w \in Worker : worker[w] \in Holder <=> mutex_tp = w

RunInv == \A w \in Worker : worker[w] = "run" <=> running[w] # None

SleepInv == \A w \in Worker : worker[w] = "sleep" => tasks = <<>>

DoneInv == \A w \in Worker : worker[w] = "done" => ~active_flag

IInv == /\ TypeOK /\ MutexInv /\ RunInv /\ SleepInv /\ DoneInv
        /\ TaskInOnePlace /\ NoIdleBacklog

LEMMA InitInv == Init => IInv
<1> SUFFICES ASSUME Init PROVE IInv
  OBVIOUS
<1>1. TypeOK BY DEF Init, TypeOK, Holder
<1>2. MutexInv /\ RunInv /\ SleepInv /\ DoneInv
  BY NoneAssumption DEF Init, MutexInv, RunInv, SleepInv, DoneInv, Holder
<1>3. Queued = {} BY DEF Init, Queued
<1>4. TaskInOnePlace BY <1>3, NoneAssumption DEF Init, TaskInOnePlace
<1> QED BY <1>1, <1>2, <1>4 DEF Init, IInv, NoIdleBacklog

\* What the queue holds after a push and after a pop.
LEMMA PushFacts ==
  ASSUME tasks \in Seq(Task), NEW t \in Task, tasks' = Append(tasks, t), t \notin Queued,
         \A i, j \in 1..Len(tasks) : tasks[i] = tasks[j] => i = j
  PROVE  /\ tasks' \in Seq(Task)
         /\ Queued' = Queued \cup {t}
         /\ \A i, j \in 1..Len(tasks') : tasks'[i] = tasks'[j] => i = j
<1>1. Len(tasks) \in Nat /\ Len(tasks') = Len(tasks) + 1 /\ tasks' \in Seq(Task)
  BY AppendProperties, LenProperties
<1>2. /\ \A i \in 1..Len(tasks) : tasks'[i] = tasks[i]
      /\ tasks'[Len(tasks) + 1] = t
  BY AppendProperties
<1>3. \A i \in 1..Len(tasks') : i \in 1..Len(tasks) \/ i = Len(tasks) + 1 BY <1>1
<1>4. Queued' = Queued \cup {t}
  <2>1. Queued \cup {t} \subseteq Queued' BY <1>1, <1>2 DEF Queued
  <2>2. Queued' \subseteq Queued \cup {t} BY <1>2, <1>3 DEF Queued
  <2> QED BY <2>1, <2>2
<1>5. \A i \in 1..Len(tasks) : tasks[i] # t BY DEF Queued
<1>6. \A i, j \in 1..Len(tasks') : tasks'[i] = tasks'[j] => i = j BY <1>2, <1>3, <1>5
<1> QED BY <1>1, <1>4, <1>6

LEMMA PopFacts ==
  ASSUME tasks \in Seq(Task), tasks # <<>>, tasks' = Tail(tasks),
         \A i, j \in 1..Len(tasks) : tasks[i] = tasks[j] => i = j
  PROVE  /\ tasks' \in Seq(Task)
         /\ Head(tasks) \in Task /\ Head(tasks) \in Queued
         /\ Queued' = Queued \ {Head(tasks)}
         /\ \A i, j \in 1..Len(tasks') : tasks'[i] = tasks'[j] => i = j
<1>1. /\ Len(tasks) \in Nat /\ Len(tasks) > 0 /\ Len(tasks') = Len(tasks) - 1
      /\ tasks' \in Seq(Task) /\ Head(tasks) = tasks[1] /\ tasks[1] \in Task
  BY HeadTailProperties, LenProperties, EmptySeq, ElementOfSeq
<1>2. \A i \in 1..Len(tasks') : tasks'[i] = tasks[i + 1] /\ i + 1 \in 1..Len(tasks)
  BY <1>1, HeadTailProperties
<1>3. \A i \in 1..Len(tasks) : i = 1 \/ i - 1 \in 1..Len(tasks') BY <1>1
<1>4. 1 \in 1..Len(tasks) BY <1>1
<1>5. Queued' = Queued \ {tasks[1]}
  <2>1. Queued' \subseteq Queued \ {tasks[1]} BY <1>2, <1>4 DEF Queued
  <2>2. ASSUME NEW x \in Queued, x # tasks[1] PROVE x \in Queued'
    <3>1. PICK i \in 1..Len(tasks) : x = tasks[i] BY DEF Queued
    <3>2. i - 1 \in 1..Len(tasks') /\ (i - 1) + 1 = i BY <2>2, <3>1, <1>3
    <3> QED BY <3>1, <3>2, <1>2 DEF Queued
  <2> QED BY <2>1, <2>2
<1>6. \A i, j \in 1..Len(tasks') : tasks'[i] = tasks'[j] => i = j BY <1>2
<1> QED BY <1>1, <1>4, <1>5, <1>6 DEF Queued

-----------------------------------------------------------------------------
(* submit *)

LEMMA SubmitCheckInv == ASSUME IInv, NEW t \in Task, SubmitCheck(t) PROVE IInv'
<1>1. TypeOK' BY DEF IInv, SubmitCheck, TypeOK
<1>2. MutexInv' /\ RunInv' /\ SleepInv' /\ DoneInv'
  BY DEF IInv, SubmitCheck, MutexInv, RunInv, SleepInv, DoneInv
<1>3. TaskInOnePlace' BY DEF IInv, SubmitCheck, TaskInOnePlace, Queued, TypeOK
<1>4. NoIdleBacklog' BY DEF IInv, SubmitCheck, NoIdleBacklog, TypeOK
<1> QED BY <1>1, <1>2, <1>3, <1>4 DEF IInv

LEMMA SubmitPushInv == ASSUME IInv, NEW t \in Task, SubmitPush(t) PROVE IInv'
<1>1. t \notin Queued /\ t \notin ran /\ \A w \in Worker : running[w] # t
  BY DEF IInv, TaskInOnePlace, SubmitPush
<1>2. tasks \in Seq(Task) BY DEF IInv, TypeOK
<1>3. /\ tasks' \in Seq(Task)
      /\ Queued' = Queued \cup {t}
      /\ \A i, j \in 1..Len(tasks') : tasks'[i] = tasks'[j] => i = j
  BY <1>1, <1>2, PushFacts DEF IInv, TaskInOnePlace, SubmitPush
<1>4. TypeOK' BY <1>3 DEF IInv, SubmitPush, TypeOK
<1>5. MutexInv' /\ RunInv' /\ DoneInv'
  BY DEF IInv, SubmitPush, MutexInv, RunInv, DoneInv
<1>6. SleepInv'
  <2>1. \A w \in Worker : worker[w] # "sleep"
    BY NoneAssumption DEF IInv, SubmitPush, MutexInv, Holder
  <2> QED BY <2>1 DEF SleepInv, SubmitPush
<1>7. TaskInOnePlace'
  <2>1. UNCHANGED <<running, ran>> /\ call' = [call EXCEPT ![t] = "pushed"]
        /\ call \in [Task -> {"called", "accepted", "pushed", "returned", "thrown"}]
    BY DEF SubmitPush, IInv, TypeOK
  <2>2. TaskInOnePlace BY DEF IInv
  <2>3. \A u \in Task : call'[u] = IF u = t THEN "pushed" ELSE call[u] BY <2>1
  <2>4. \A w \in Worker : running'[w] # None =>
          /\ running'[w] \notin Queued' \cup ran'
          /\ \A v \in Worker : running'[v] = running'[w] => v = w
    BY <2>1, <2>2, <1>1, <1>3 DEF TaskInOnePlace
  <2>5. Queued' \cap ran' = {} BY <2>1, <2>2, <1>1, <1>3 DEF TaskInOnePlace
  <2>6. \A u \in Task : call'[u] \in {"pushed", "returned"} <=>
          u \in Queued' \cup ran' \/ \E w \in Worker : running'[w] = u
    BY <2>1, <2>2, <2>3, <1>3 DEF TaskInOnePlace
  <2> QED BY <1>3, <2>4, <2>5, <2>6 DEF TaskInOnePlace
<1>8. NoIdleBacklog' BY DEF IInv, TypeOK, SubmitPush, NoIdleBacklog
<1> QED BY <1>4, <1>5, <1>6, <1>7, <1>8 DEF IInv

LEMMA SubmitNotifyInv == ASSUME IInv, NEW t \in Task, SubmitNotify(t) PROVE IInv'
<1>1. /\ UNCHANGED <<active_flag, tasks, mutex_tp, running, stopper, ran>>
      /\ call' = [call EXCEPT ![t] = "returned"] /\ call[t] = "pushed"
  BY DEF SubmitNotify
<1>2. \A w \in Worker : \/ worker'[w] = worker[w]
                        \/ (worker[w] = "asleep" /\ worker'[w] = "awake")
  BY DEF SubmitNotify, Sleeping, IInv, TypeOK
<1>3. TypeOK' BY <1>1 DEF IInv, SubmitNotify, Sleeping, TypeOK
<1>4. MutexInv' /\ RunInv' /\ SleepInv' /\ DoneInv'
  BY <1>1, <1>2 DEF IInv, MutexInv, RunInv, SleepInv, DoneInv, Holder
<1>5. TaskInOnePlace' BY <1>1 DEF IInv, TaskInOnePlace, Queued, TypeOK
<1>6. NoIdleBacklog'
  <2> SUFFICES ASSUME active_flag PROVE \E w \in Worker : worker'[w] \notin {"asleep", "done"}
    BY <1>1 DEF NoIdleBacklog
  <2>1. CASE Sleeping = {} /\ UNCHANGED worker
    BY <2>1, WorkerAssumption DEF IInv, DoneInv, Sleeping
  <2>2. CASE \E w \in Sleeping : worker' = [worker EXCEPT ![w] = "awake"]
    BY <2>2 DEF IInv, TypeOK, Sleeping
  <2> QED BY <2>1, <2>2 DEF SubmitNotify
<1> QED BY <1>3, <1>4, <1>5, <1>6 DEF IInv

-----------------------------------------------------------------------------
(* the worker thread *)

\* The steps of a worker that leave the queue and the tasks alone.
LEMMA WorkerMovesInv ==
  ASSUME IInv, NEW w \in Worker,
         WhileActive(w) \/ Lock(w) \/ Predicate(w) \/ Sleep(w) \/ Spurious(w)
  PROVE  IInv'
<1>1. UNCHANGED <<active_flag, tasks, running, call, stopper, ran>>
  BY DEF WhileActive, Lock, Predicate, Sleep, Spurious
<1>2. worker \in [Worker -> Holder \cup {"while", "lock", "asleep", "awake", "run", "done"}]
  BY DEF IInv, TypeOK
<1>3. /\ worker' = [worker EXCEPT ![w] = worker'[w]]
      /\ worker'[w] \in {"lock", "done", "predicate", "take", "sleep", "asleep", "awake"}
  BY <1>2 DEF WhileActive, Lock, Predicate, Sleep, Spurious, Goto
<1>4. TypeOK' BY <1>1, <1>3
  DEF IInv, TypeOK, Holder, WhileActive, Lock, Predicate, Sleep, Spurious
<1>5. \A v \in Worker : v # w => worker'[v] = worker[v] BY <1>2, <1>3
<1>6. MutexInv'
  <2>1. worker'[w] \in Holder <=> mutex_tp' = w
    BY <1>2, NoneAssumption
       DEF IInv, MutexInv, Holder, WhileActive, Lock, Predicate, Sleep, Spurious, Goto
  <2>2. ASSUME NEW v \in Worker, v # w PROVE mutex_tp' = v <=> mutex_tp = v
    BY <2>2, NoneAssumption
       DEF IInv, MutexInv, Holder, WhileActive, Lock, Predicate, Sleep, Spurious
  <2> QED BY <2>1, <2>2, <1>5 DEF IInv, MutexInv
<1>7. RunInv'
  BY <1>1, <1>3, <1>5 DEF IInv, RunInv, WhileActive, Lock, Predicate, Sleep, Spurious
<1>8. SleepInv'
  BY <1>1, <1>2, <1>5 DEF IInv, SleepInv, WhileActive, Lock, Predicate, Sleep, Spurious, Goto
<1>9. DoneInv'
  BY <1>1, <1>2, <1>5 DEF IInv, DoneInv, WhileActive, Lock, Predicate, Sleep, Spurious, Goto
<1>10. TaskInOnePlace' BY <1>1 DEF IInv, TaskInOnePlace, Queued
<1>11. NoIdleBacklog'
  <2>1. active_flag /\ tasks # <<>> => worker'[w] \notin {"asleep", "done"}
    BY <1>2 DEF IInv, SleepInv, WhileActive, Lock, Predicate, Sleep, Spurious, Goto
  <2> QED BY <1>1, <2>1 DEF NoIdleBacklog
<1> QED BY <1>4, <1>6, <1>7, <1>8, <1>9, <1>10, <1>11 DEF IInv

LEMMA TakeInv == ASSUME IInv, NEW w \in Worker, Take(w) PROVE IInv'
<1>1. /\ UNCHANGED <<active_flag, call, stopper, ran>> /\ mutex_tp' = None
      /\ worker[w] = "take"
  BY DEF Take
<1>2. worker \in [Worker -> Holder \cup {"while", "lock", "asleep", "awake", "run", "done"}]
  BY DEF IInv, TypeOK
<1>3. running \in [Worker -> Task \cup {None}] /\ tasks \in Seq(Task) BY DEF IInv, TypeOK
<1>4. mutex_tp = w /\ running[w] = None BY <1>1 DEF IInv, MutexInv, RunInv, Holder
<1>5. \A v \in Worker : v # w => worker[v] \notin Holder BY <1>4 DEF IInv, MutexInv
<1>6. /\ worker' = [worker EXCEPT ![w] = worker'[w]]
      /\ worker'[w] \in {"while", "done", "run"}
      /\ worker'[w] = "done" => ~active_flag
      /\ worker'[w] = "run" <=> tasks # <<>>
  BY <1>2 DEF Take, Goto
<1>7. MutexInv' /\ SleepInv' /\ DoneInv'
  BY <1>1, <1>2, <1>5, <1>6, NoneAssumption
     DEF IInv, MutexInv, SleepInv, DoneInv, Holder
<1>8. NoIdleBacklog'
  <2>1. tasks' # <<>> => tasks # <<>> BY DEF Take
  <2> QED BY <1>1, <1>6, <2>1 DEF NoIdleBacklog
<1>9. CASE tasks = <<>> /\ UNCHANGED <<tasks, running>>
  <2>1. TypeOK' BY <1>1, <1>6, <1>9 DEF IInv, TypeOK
  <2>2. RunInv' BY <1>2, <1>4, <1>6, <1>9 DEF IInv, RunInv
  <2>3. TaskInOnePlace' BY <1>1, <1>9 DEF IInv, TaskInOnePlace, Queued
  <2> QED BY <2>1, <2>2, <2>3, <1>7, <1>8 DEF IInv
<1>10. CASE /\ tasks # <<>> /\ tasks' = Tail(tasks)
            /\ running' = [running EXCEPT ![w] = Head(tasks)]
  <2> DEFINE t == Head(tasks)
  <2>1. TaskInOnePlace BY DEF IInv
  <2>2. /\ tasks' \in Seq(Task) /\ t \in Task /\ t \in Queued
        /\ Queued' = Queued \ {t}
        /\ \A i, j \in 1..Len(tasks') : tasks'[i] = tasks'[j] => i = j
    BY <1>3, <1>10, <2>1, PopFacts DEF TaskInOnePlace
  <2>3. \A v \in Worker : running'[v] = IF v = w THEN t ELSE running[v] BY <1>3, <1>10
  <2> HIDE DEF t
  <2>4. t # None BY <2>2, NoneAssumption
  <2>5. TypeOK'
    <3>1. running' \in [Worker -> Task \cup {None}] BY <1>3, <1>10, <2>2 DEF t
    <3> QED BY <3>1, <1>1, <1>6, <2>2 DEF IInv, TypeOK
  <2>6. RunInv' BY <1>2, <1>6, <1>10, <2>3, <2>4 DEF IInv, RunInv
  <2>7. \A v \in Worker : running'[v] # None =>
          /\ running'[v] \notin Queued' \cup ran'
          /\ \A u \in Worker : running'[u] = running'[v] => u = v
    BY <1>1, <2>1, <2>2, <2>3, <2>4 DEF TaskInOnePlace
  <2>8. Queued' \cap ran' = {} BY <1>1, <2>1, <2>2 DEF TaskInOnePlace
  <2>9. \A x \in Task : call'[x] \in {"pushed", "returned"} <=>
          x \in Queued' \cup ran' \/ \E v \in Worker : running'[v] = x
    <3> SUFFICES ASSUME NEW x \in Task
                 PROVE  (x \in Queued' \cup ran' \/ \E v \in Worker : running'[v] = x)
                        <=> (x \in Queued \cup ran \/ \E v \in Worker : running[v] = x)
      BY <1>1, <2>1 DEF TaskInOnePlace
    <3>1. x # None BY NoneAssumption
    <3>2. CASE x = t BY <3>2, <2>2, <2>3
    <3>3. CASE x # t BY <3>1, <3>3, <1>1, <1>4, <2>2, <2>3
    <3> QED BY <3>2, <3>3
  <2>10. TaskInOnePlace' BY <2>2, <2>7, <2>8, <2>9 DEF TaskInOnePlace
  <2> QED BY <2>5, <2>6, <2>10, <1>7, <1>8 DEF IInv
<1> QED BY <1>9, <1>10 DEF Take

LEMMA RunTaskInv == ASSUME IInv, NEW w \in Worker, RunTask(w) PROVE IInv'
<1>1. /\ UNCHANGED <<active_flag, tasks, mutex_tp, call, stopper>>
      /\ worker[w] = "run" /\ worker' = [worker EXCEPT ![w] = "while"]
      /\ ran' = ran \cup {running[w]} /\ running' = [running EXCEPT ![w] = None]
  BY DEF RunTask, Goto
<1>2. worker \in [Worker -> Holder \cup {"while", "lock", "asleep", "awake", "run", "done"}]
  BY DEF IInv, TypeOK
<1>3. running \in [Worker -> Task \cup {None}] BY DEF IInv, TypeOK
<1>4. running[w] # None /\ running[w] \in Task BY <1>1, <1>3 DEF IInv, RunInv
<1>5. TypeOK' BY <1>1, <1>4 DEF IInv, TypeOK
<1>6. MutexInv' /\ RunInv' /\ SleepInv' /\ DoneInv'
  BY <1>1, <1>2, <1>3 DEF IInv, MutexInv, RunInv, SleepInv, DoneInv, Holder
<1>7. NoIdleBacklog' BY <1>1, <1>2 DEF NoIdleBacklog
<1>8. TaskInOnePlace'
  <2>1. TaskInOnePlace /\ Queued' = Queued BY <1>1 DEF IInv, Queued
  <2>2. \A v \in Worker : running'[v] = IF v = w THEN None ELSE running[v] BY <1>1, <1>3
  <2>3. \A v \in Worker : running'[v] # None =>
          /\ running'[v] \notin Queued' \cup ran'
          /\ \A u \in Worker : running'[u] = running'[v] => u = v
    BY <1>1, <2>1, <2>2 DEF TaskInOnePlace
  <2>4. Queued' \cap ran' = {} BY <1>1, <1>4, <2>1 DEF TaskInOnePlace
  <2>5. \A x \in Task : call'[x] \in {"pushed", "returned"} <=>
          x \in Queued' \cup ran' \/ \E v \in Worker : running'[v] = x
    <3> SUFFICES ASSUME NEW x \in Task
                 PROVE  (x \in Queued' \cup ran' \/ \E v \in Worker : running'[v] = x)
                        <=> (x \in Queued \cup ran \/ \E v \in Worker : running[v] = x)
      BY <1>1, <2>1 DEF TaskInOnePlace
    <3>1. x # None BY NoneAssumption
    <3> QED BY <3>1, <1>1, <2>1, <2>2
  <2>6. \A i, j \in 1..Len(tasks') : tasks'[i] = tasks'[j] => i = j
    BY <1>1, <2>1 DEF TaskInOnePlace
  <2> QED BY <2>3, <2>4, <2>5, <2>6 DEF TaskInOnePlace
<1> QED BY <1>5, <1>6, <1>7, <1>8 DEF IInv

-----------------------------------------------------------------------------
(* stop *)

LEMMA StopInv == ASSUME IInv, StopStore \/ StopNotify \/ StopJoin PROVE IInv'
<1>1. UNCHANGED <<tasks, mutex_tp, running, call, ran>>
  BY DEF StopStore, StopNotify, StopJoin
<1>2. worker \in [Worker -> Holder \cup {"while", "lock", "asleep", "awake", "run", "done"}]
  BY DEF IInv, TypeOK
<1>3. \A w \in Worker : \/ worker'[w] = worker[w]
                        \/ (worker[w] = "asleep" /\ worker'[w] = "awake")
  BY DEF StopStore, StopNotify, StopJoin
<1>4. (active_flag' = active_flag \/ active_flag' = FALSE)
  BY DEF StopStore, StopNotify, StopJoin
<1>5. TypeOK' BY <1>1, <1>2, <1>4 DEF IInv, TypeOK, StopStore, StopNotify, StopJoin
<1>6. MutexInv' /\ RunInv' /\ SleepInv' /\ DoneInv'
  BY <1>1, <1>3, <1>4 DEF IInv, MutexInv, RunInv, SleepInv, DoneInv, Holder
<1>7. TaskInOnePlace' BY <1>1 DEF IInv, TaskInOnePlace, Queued
<1>8. NoIdleBacklog' BY <1>1, <1>3, <1>4 DEF IInv, NoIdleBacklog
<1> QED BY <1>5, <1>6, <1>7, <1>8 DEF IInv

LEMMA InvStep == IInv /\ [Next]_vars => IInv'
<1> SUFFICES ASSUME IInv, [Next]_vars PROVE IInv'
  OBVIOUS
<1>1. CASE UNCHANGED vars
  BY <1>1 DEF vars, IInv, TypeOK, MutexInv, RunInv, SleepInv, DoneInv,
              TaskInOnePlace, Queued, NoIdleBacklog
<1> QED BY <1>1, SubmitCheckInv, SubmitPushInv, SubmitNotifyInv, WorkerMovesInv,
           TakeInv, RunTaskInv, StopInv DEF Next, WorkerStep, SubmitStep

\* The inductive invariant holds throughout.
THEOREM Invariance == Spec => []IInv
BY InitInv, InvStep, PTL DEF Spec

(***************************************************************************)
(* submit and the workers neither lose, repeat nor share a task, for any   *)
(* number of threads on either side.                                       *)
(***************************************************************************)
THEOREM TasksKept == Spec => []TaskInOnePlace
<1>1. IInv => TaskInOnePlace BY DEF IInv
<1> QED BY <1>1, Invariance, PTL

(***************************************************************************)
(* The notify_one of submit, made after the mutex is released, is never    *)
(* lost on an active pool.                                                 *)
(***************************************************************************)
THEOREM NoLostWakeup == Spec => []NoIdleBacklog
<1>1. IInv => NoIdleBacklog BY DEF IInv
<1> QED BY <1>1, Invariance, PTL

\* The state keeps its type: whatever start, submit and stop do, the queue holds tasks, the mutex has
\* at most one holder and every worker and call is at one of its places.
THEOREM TypeCorrect == Spec => []TypeOK
<1>1. IInv => TypeOK BY DEF IInv
<1> QED BY <1>1, Invariance, PTL
=============================================================================
