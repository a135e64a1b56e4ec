----------------------------- MODULE ThreadPool -----------------------------
(***************************************************************************)
(* The thread pool (test3/threadpool.h): worker threads around a task      *)
(* queue, a mutex and a condition variable.  submit may be called by any   *)
(* thread, several at once; a task stands for the submit call that brings  *)
(* it.  stop is called once, by the owner or by the destructor.            *)
(*                                                                         *)
(* The critical section of submit is one step, as nothing else reads the   *)
(* queue without the mutex.  A worker holds the mutex over several steps:  *)
(* stop stores active_flag and notifies without it, so it can run between  *)
(* the moment a worker finds nothing to do and the moment it sleeps.       *)
(***************************************************************************)
EXTENDS FiniteSets, Sequences, SequencesExt

CONSTANTS Worker, Task, None

ASSUME WorkerAssumption == Worker # {}
ASSUME NoneAssumption == None \notin Worker /\ None \notin Task

VARIABLES active_flag,
          tasks,           \* the queue
          mutex_tp,        \* the worker that holds the mutex, or None
          worker,          \* where each worker thread is
          running,         \* the task it took from the queue
          call,            \* where the submit call of each task is
          stopper,         \* where the call of stop is
          ran              \* tasks whose function has returned

vars == <<active_flag, tasks, mutex_tp, worker, running, call, stopper, ran>>

Init ==
  /\ active_flag = TRUE
  /\ tasks = <<>>
  /\ mutex_tp = None
  /\ worker = [w \in Worker |-> "while"]
  /\ running = [w \in Worker |-> None]
  /\ call = [t \in Task |-> "called"]
  /\ stopper = "none"
  /\ ran = {}

-----------------------------------------------------------------------------
(* submit *)

SubmitCheck(t) ==
  /\ call[t] = "called"
  /\ call' = [call EXCEPT ![t] = IF active_flag THEN "accepted" ELSE "thrown"]
  /\ UNCHANGED <<active_flag, tasks, mutex_tp, worker, running, stopper, ran>>

\* Mutant of SubmitPush: returns without notifying.
SubmitPushSilent(t) ==
  /\ call[t] = "accepted"
  /\ mutex_tp = None
  /\ tasks' = Append(tasks, t)
  /\ call' = [call EXCEPT ![t] = "returned"]
  /\ UNCHANGED <<active_flag, mutex_tp, worker, running, stopper, ran>>

SubmitPush(t) ==
  /\ call[t] = "accepted"
  /\ mutex_tp = None
  /\ tasks' = Append(tasks, t)
  /\ call' = [call EXCEPT ![t] = "pushed"]
  /\ UNCHANGED <<active_flag, mutex_tp, worker, running, stopper, ran>>

Sleeping == {w \in Worker : worker[w] = "asleep"}

\* notify_one wakes one of the sleeping workers, if there is one.
SubmitNotify(t) ==
  /\ call[t] = "pushed"
  /\ call' = [call EXCEPT ![t] = "returned"]
  /\ \/ /\ Sleeping = {}
        /\ UNCHANGED worker
     \/ \E w \in Sleeping : worker' = [worker EXCEPT ![w] = "awake"]
  /\ UNCHANGED <<active_flag, tasks, mutex_tp, running, stopper, ran>>

-----------------------------------------------------------------------------
(* the worker thread started by start *)

Goto(w, place) == worker' = [worker EXCEPT ![w] = place]

WhileActive(w) ==
  /\ worker[w] = "while"
  /\ Goto(w, IF active_flag THEN "lock" ELSE "done")
  /\ UNCHANGED <<active_flag, tasks, mutex_tp, running, call, stopper, ran>>

\* Taking the mutex, the first time or inside wait after a wakeup.
Lock(w) ==
  /\ worker[w] \in {"lock", "awake"}
  /\ mutex_tp = None
  /\ mutex_tp' = w
  /\ Goto(w, "predicate")
  /\ UNCHANGED <<active_flag, tasks, running, call, stopper, ran>>

\* Mutant of Predicate: only the shutdown signal ends the wait.
PredicateStopOnly(w) ==
  /\ worker[w] = "predicate"
  /\ Goto(w, IF ~active_flag THEN "take" ELSE "sleep")
  /\ UNCHANGED <<active_flag, tasks, mutex_tp, running, call, stopper, ran>>

\* cv_tp.wait evaluates its predicate with the mutex held.
Predicate(w) ==
  /\ worker[w] = "predicate"
  /\ Goto(w, IF tasks # <<>> \/ ~active_flag THEN "take" ELSE "sleep")
  /\ UNCHANGED <<active_flag, tasks, mutex_tp, running, call, stopper, ran>>

\* Releasing the mutex and going to sleep is one step.
Sleep(w) ==
  /\ worker[w] = "sleep"
  /\ Goto(w, "asleep")
  /\ mutex_tp' = None
  /\ UNCHANGED <<active_flag, tasks, running, call, stopper, ran>>

\* The standard allows a wakeup nobody asked for.
Spurious(w) ==
  /\ worker[w] = "asleep"
  /\ Goto(w, "awake")
  /\ UNCHANGED <<active_flag, tasks, mutex_tp, running, call, stopper, ran>>

\* Mutant of Take: the task is copied and stays in the queue.
TakeCopy(w) ==
  /\ worker[w] = "take"
  /\ mutex_tp' = None
  /\ \/ /\ tasks = <<>>
        /\ Goto(w, IF active_flag THEN "while" ELSE "done")
        /\ UNCHANGED <<tasks, running>>
     \/ /\ tasks # <<>>
        /\ running' = [running EXCEPT ![w] = Head(tasks)]
        /\ UNCHANGED tasks
        /\ Goto(w, "run")
  /\ UNCHANGED <<active_flag, call, stopper, ran>>

\* What follows the wait: return, continue, or pop a task; all give up the mutex.
Take(w) ==
  /\ worker[w] = "take"
  /\ mutex_tp' = None
  /\ \/ /\ tasks = <<>>
        /\ Goto(w, IF active_flag THEN "while" ELSE "done")
        /\ UNCHANGED <<tasks, running>>
     \/ /\ tasks # <<>>
        /\ running' = [running EXCEPT ![w] = Head(tasks)]
        /\ tasks' = Tail(tasks)
        /\ Goto(w, "run")
  /\ UNCHANGED <<active_flag, call, stopper, ran>>

\* Mutant of RunTask: the handle is cleared before the task is invoked.
RunTaskCleared(w) ==
  /\ worker[w] = "run"
  /\ running' = [running EXCEPT ![w] = None]
  /\ ran' = ran \cup {running'[w]}
  /\ Goto(w, "while")
  /\ UNCHANGED <<active_flag, tasks, mutex_tp, call, stopper>>

RunTask(w) ==
  /\ worker[w] = "run"
  /\ ran' = ran \cup {running[w]}
  /\ running' = [running EXCEPT ![w] = None]
  /\ Goto(w, "while")
  /\ UNCHANGED <<active_flag, tasks, mutex_tp, call, stopper>>

-----------------------------------------------------------------------------
(* stop *)

StopStore ==
  /\ stopper = "none"
  /\ active_flag' = FALSE
  /\ stopper' = "notify"
  /\ UNCHANGED <<tasks, mutex_tp, worker, running, call, ran>>

StopNotify ==
  /\ stopper = "notify"
  /\ worker' = [w \in Worker |-> IF worker[w] = "asleep" THEN "awake" ELSE worker[w]]
  /\ stopper' = "join"
  /\ UNCHANGED <<active_flag, tasks, mutex_tp, running, call, ran>>

StopJoin ==
  /\ stopper = "join"
  /\ \A w \in Worker : worker[w] = "done"
  /\ stopper' = "stopped"
  /\ UNCHANGED <<active_flag, tasks, mutex_tp, worker, running, call, ran>>

-----------------------------------------------------------------------------
WorkerStep(w) ==
  WhileActive(w) \/ Lock(w) \/ Predicate(w) \/ Sleep(w) \/ Take(w) \/ RunTask(w)
SubmitStep(t) == SubmitCheck(t) \/ SubmitPush(t) \/ SubmitNotify(t)

Next ==
  \/ \E w \in Worker : WorkerStep(w) \/ Spurious(w)
  \/ \E t \in Task : SubmitStep(t)
  \/ StopStore \/ StopNotify \/ StopJoin

Spec == Init /\ [][Next]_vars

(***************************************************************************)
(* Fairness.  The operating system runs every thread, so a thread that can *)
(* take its next step for good takes it; a call of stop or submit that has *)
(* begun goes on.  Nobody has to call stop, and no spurious wakeup is      *)
(* obliged to happen.                                                      *)
(***************************************************************************)
FairSpec ==
  /\ Spec
  /\ \A w \in Worker : WF_vars(WorkerStep(w))
  /\ \A t \in Task : WF_vars(SubmitPush(t)) /\ WF_vars(SubmitNotify(t))
  /\ WF_vars(StopNotify) /\ WF_vars(StopJoin)

-----------------------------------------------------------------------------
(* Properties *)

Holder == {"predicate", "sleep", "take"}

TypeOK ==
  /\ active_flag \in BOOLEAN
  /\ tasks \in Seq(Task)
  /\ mutex_tp \in Worker \cup {None}
  /\ worker \in [Worker -> Holder \cup {"while", "lock", "asleep", "awake", "run", "done"}]
  /\ running \in [Worker -> Task \cup {None}]
  /\ call \in [Task -> {"called", "accepted", "pushed", "returned", "thrown"}]
  /\ stopper \in {"none", "notify", "join", "stopped"}
  /\ ran \subseteq Task

Queued == {tasks[i] : i \in 1..Len(tasks)}

(***************************************************************************)
(* A task whose submit has pushed it is in exactly one place: once in the  *)
(* queue, with one worker, or finished.  So no task is run twice, and none *)
(* disappears between the queue and a worker, however calls interleave.    *)
(***************************************************************************)
TaskInOnePlace ==
  /\ \A i, j \in 1..Len(tasks) : tasks[i] = tasks[j] => i = j
  /\ \A w \in Worker : running[w] # None =>
        /\ running[w] \notin Queued \cup ran
        /\ \A v \in Worker : running[v] = running[w] => v = w
  /\ Queued \cap ran = {}
  /\ \A t \in Task : call[t] \in {"pushed", "returned"} <=>
        t \in Queued \cup ran \/ \E w \in Worker : running[w] = t

(***************************************************************************)
(* No wakeup of submit is lost: as long as the pool is active, work in the *)
(* queue never meets a pool whose workers all sleep or have left, unless a *)
(* submit is about to notify.  The predicate is tested and the queue is    *)
(* filled under the mutex, so a notify_one outside it is enough.           *)
(***************************************************************************)
NoIdleBacklog ==
  active_flag /\ tasks # <<>> =>
     \/ \E w \in Worker : worker[w] \notin {"asleep", "done"}
     \/ \E t \in Task : call[t] = "pushed"

(***************************************************************************)
(* Every submitted task is run in the end, unless the pool is stopped.     *)
(***************************************************************************)
TaskEventuallyRuns ==
  \A t \in Task : call[t] = "returned" ~> t \in ran \/ ~active_flag

(***************************************************************************)
(* A worker told to stop leaves only when there is nothing to execute, as  *)
(* start's comment on its return says: when all have left, the queue is    *)
(* empty.  The loop condition while(active_flag) leaves earlier.           *)
(***************************************************************************)
DrainedAtExit ==
  (\A w \in Worker : worker[w] = "done") => tasks = <<>>

(***************************************************************************)
(* The shutdown signal wakes every worker, as start's comment on the wait  *)
(* says, so stop returns.  stop takes no mutex, so a worker that has just  *)
(* found nothing to do misses the signal and is never joined.              *)
(***************************************************************************)
StopReturns == stopper = "join" ~> stopper = "stopped"
=============================================================================
