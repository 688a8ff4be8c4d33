------------------------------ MODULE Executor ------------------------------
(***************************************************************************)
(* The thread pool of include/afina/concurrency/Executor.h and             *)
(* src/concurrency/Executor.cpp.  Each region that holds `mutex' is one    *)
(* step; a thread is between steps when it waits for the mutex, waits on   *)
(* empty_condition, or runs a task.  All the waiters, workers and callers  *)
(* of Stop(true), share the one condition variable.                        *)
(***************************************************************************)
EXTENDS Integers, Sequences, FiniteSets

CONSTANTS
  Worker,    \* identities for the pool's threads
  Task,      \* the tasks that callers submit, each once
  Stopper,   \* the calls of Stop, which do not overlap
  NoTask,    \* "no task"
  Low,       \* low_watermark
  High,      \* hight_watermark
  MaxQueue   \* max_queue_size

ASSUME WatermarkAssumption ==
  Low \in Nat /\ High \in Nat /\ MaxQueue \in Nat /\ Low <= High /\ 0 < High
(* The operating system has a thread to give whenever the pool asks.       *)
ASSUME WorkerAssumption == IsFiniteSet(Worker) /\ High <= Cardinality(Worker)
ASSUME DistinctAssumption == Worker \cap Stopper = {} /\ NoTask \notin Task

VARIABLES
  state,     \* State
  tasks,     \* the deque of tasks
  running,   \* running_threads
  sleeping,  \* sleeping_workers
  pc,        \* where each worker is
  cur,       \* task_to_perform of a worker that is running it
  expired,   \* per worker: now - last_task_time is not < idle_time
  outcome,   \* per task: what Execute returned, and whether it has run
  stop       \* where each call of Stop is

vars == <<state, tasks, running, sleeping, pc, cur, expired, outcome, stop>>

State == {"kRun", "kStopping", "kStopped"}

(* "none": no such thread; "enter": about to lock the mutex at the top of  *)
(* the loop, or re-locking it after a wait; "waiting": in wait_for;        *)
(* "exec": running its task, without the mutex.                            *)
WorkerPc == {"none", "enter", "waiting", "exec"}

(* "left" and "awaited": returned from Stop(false) and from Stop(true).    *)
StopPc == {"idle", "waiting", "woken", "left", "awaited"}

(* Every variable has its type, and the queue keeps its limit: the size    *)
(* check and the push of Execute are under one lock (Executor.h:108-112).  *)
TypeOK ==
  /\ state \in State
  /\ tasks \in Seq(Task) /\ Len(tasks) <= MaxQueue
  /\ running \in Nat /\ sleeping \in Nat
  /\ pc \in [Worker -> WorkerPc]
  /\ cur \in [Worker -> Task \cup {NoTask}]
  /\ expired \in [Worker -> BOOLEAN]
  /\ outcome \in [Task -> {"new", "rejected", "accepted", "done"}]
  /\ stop \in [Stopper -> StopPc]

Alive == {w \in Worker : pc[w] # "none"}
Asleep == {w \in Worker : pc[w] \in {"enter", "waiting"}}

(* The constructor, which holds the mutex until the counters are set.      *)
Init ==
  /\ state = "kRun" /\ tasks = <<>>
  /\ running = Low /\ sleeping = Low
  /\ \E W \in SUBSET Worker :
       /\ Cardinality(W) = Low
       /\ pc = [w \in Worker |-> IF w \in W THEN "enter" ELSE "none"]
  /\ cur = [w \in Worker |-> NoTask]
  /\ expired = [w \in Worker |-> FALSE]
  /\ outcome = [t \in Task |-> "new"]
  /\ stop = [s \in Stopper |-> "idle"]

-----------------------------------------------------------------------------
(* The condition variable.  A woken worker refreshes now, so it may or may *)
(* not find its idle time used up.                                         *)

WaitingWorkers(p) == {w \in Worker : p[w] = "waiting"}
WaitingStoppers == {s \in Stopper : stop[s] = "waiting"}

WakeWorker(p, w) ==
  /\ pc' = [p EXCEPT ![w] = "enter"]
  /\ \E b \in BOOLEAN : expired' = [expired EXCEPT ![w] = b]

(* notify_one, by a thread that leaves the workers at p.                   *)
NotifyOne(p) ==
  \/ \E w \in WaitingWorkers(p) : WakeWorker(p, w) /\ UNCHANGED stop
  \/ \E s \in WaitingStoppers :
       stop' = [stop EXCEPT ![s] = "woken"] /\ pc' = p /\ UNCHANGED expired
  \/ /\ WaitingWorkers(p) = {} /\ WaitingStoppers = {}
     /\ pc' = p /\ UNCHANGED <<stop, expired>>

-----------------------------------------------------------------------------
(* Execute(t): the calling thread.                                         *)

ExecuteReject(t) ==
  /\ outcome[t] = "new"
  /\ state # "kRun" \/ Len(tasks) >= MaxQueue
  /\ outcome' = [outcome EXCEPT ![t] = "rejected"]
  /\ UNCHANGED <<state, tasks, running, sleeping, pc, cur, expired, stop>>

(* Mutant: the queue takes one task more than its limit.                   *)
EnqueueOneMore(t) ==
  /\ outcome[t] = "new"
  /\ state = "kRun" /\ Len(tasks) <= MaxQueue
  /\ tasks' = Append(tasks, t)
  /\ outcome' = [outcome EXCEPT ![t] = "accepted"]

Enqueue(t) ==
  /\ outcome[t] = "new"
  /\ state = "kRun" /\ Len(tasks) < MaxQueue
  /\ tasks' = Append(tasks, t)
  /\ outcome' = [outcome EXCEPT ![t] = "accepted"]

(* No worker sleeps and the pool may grow: a new thread.                   *)
ExecuteSpawn(t) ==
  /\ Enqueue(t)
  /\ sleeping = 0 /\ running < High
  /\ \E w \in Worker \ Alive : NotifyOne([pc EXCEPT ![w] = "enter"])
  /\ running' = running + 1 /\ sleeping' = sleeping + 1
  /\ UNCHANGED <<state, cur>>

(* No worker sleeps and the pool is at its limit: the task waits.          *)
ExecuteQueue(t) ==
  /\ Enqueue(t)
  /\ sleeping = 0 /\ running >= High
  /\ UNCHANGED <<state, running, sleeping, pc, cur, expired, stop>>

ExecuteNotify(t) ==
  /\ Enqueue(t)
  /\ sleeping # 0
  /\ NotifyOne(pc)
  /\ UNCHANGED <<state, running, sleeping, cur>>

Execute(t) ==
  ExecuteReject(t) \/ ExecuteSpawn(t) \/ ExecuteQueue(t) \/ ExecuteNotify(t)

-----------------------------------------------------------------------------
(* perform: a worker thread.                                               *)

(* Nothing to do yet: wait_for.                                            *)
WorkerWait(w) ==
  /\ pc[w] = "enter"
  /\ tasks = <<>> /\ state = "kRun" /\ ~expired[w]
  /\ pc' = [pc EXCEPT ![w] = "waiting"]
  /\ UNCHANGED <<state, tasks, running, sleeping, cur, expired, outcome, stop>>

(* wait_for ends by its timeout, or spuriously.                            *)
WorkerTimeout(w) ==
  /\ pc[w] = "waiting"
  /\ WakeWorker(pc, w)
  /\ UNCHANGED <<state, tasks, running, sleeping, cur, outcome, stop>>

(* Mutant: a worker whose wait has expired does not look at the queue.     *)
WorkerTakeInTime(w) ==
  /\ pc[w] = "enter"
  /\ tasks # <<>>
  /\ IF expired[w]
     THEN UNCHANGED vars
     ELSE /\ sleeping' = sleeping - 1
          /\ cur' = [cur EXCEPT ![w] = Head(tasks)]
          /\ tasks' = Tail(tasks)
          /\ pc' = [pc EXCEPT ![w] = "exec"]
          /\ UNCHANGED <<state, running, expired, outcome, stop>>

WorkerTake(w) ==
  /\ pc[w] = "enter"
  /\ tasks # <<>>
  /\ sleeping' = sleeping - 1
  /\ cur' = [cur EXCEPT ![w] = Head(tasks)]
  /\ tasks' = Tail(tasks)
  /\ pc' = [pc EXCEPT ![w] = "exec"]
  /\ expired' = [expired EXCEPT ![w] = FALSE]
  /\ UNCHANGED <<state, running, outcome, stop>>

(* Mutant: the worker leaves its loop without looking at the queue again.  *)
IdleUnchecked(w) == pc[w] = "enter" /\ (state # "kRun" \/ expired[w])

(* The worker is past its waiting loop with nothing to run.                *)
Idle(w) == pc[w] = "enter" /\ tasks = <<>> /\ (state # "kRun" \/ expired[w])

Gone(w) ==
  /\ sleeping' = sleeping - 1 /\ running' = running - 1
  /\ UNCHANGED <<tasks, cur, outcome>>

(* Mutant: the last worker leaves without notifying.                       *)
WorkerStopSilent(w) ==
  /\ Idle(w) /\ state # "kRun"
  /\ Gone(w)
  /\ pc' = [pc EXCEPT ![w] = "none"]
  /\ state' = IF running - 1 = 0 THEN "kStopped" ELSE state
  /\ UNCHANGED <<expired, stop>>

(* The pool is stopping: the worker leaves; the last one to leave says so. *)
WorkerStop(w) ==
  /\ Idle(w) /\ state # "kRun"
  /\ Gone(w)
  /\ LET p == [pc EXCEPT ![w] = "none"]
     IN IF running - 1 = 0
        THEN state' = "kStopped" /\ NotifyOne(p)
        ELSE pc' = p /\ UNCHANGED <<state, expired, stop>>

(* Mutant: the worker counts itself among those who stay.                  *)
WorkerRetireOneTooMany(w) ==
  /\ Idle(w) /\ state = "kRun"
  /\ sleeping >= Low
  /\ Gone(w)
  /\ pc' = [pc EXCEPT ![w] = "none"]
  /\ expired' = [expired EXCEPT ![w] = FALSE]
  /\ UNCHANGED <<state, stop>>

(* More workers sleep than the low watermark asks for: one leaves.         *)
WorkerRetire(w) ==
  /\ Idle(w) /\ state = "kRun"
  /\ sleeping - 1 >= Low
  /\ Gone(w)
  /\ pc' = [pc EXCEPT ![w] = "none"]
  /\ expired' = [expired EXCEPT ![w] = FALSE]
  /\ UNCHANGED <<state, stop>>

(* The worker is kept and goes round the loop again.  now is not refreshed *)
(* without a wait, so it spins until there is a task.                      *)
WorkerKeep(w) ==
  /\ Idle(w) /\ state = "kRun"
  /\ sleeping - 1 < Low
  /\ UNCHANGED vars

(* The task returns or throws, which is swallowed; the worker counts       *)
(* itself as sleeping under the mutex.  last_task_time is now later than   *)
(* now: if the task took a millisecond or more the negative difference is  *)
(* converted to an unsigned duration and the idle time seems used up.      *)
WorkerFinish(w) ==
  /\ pc[w] = "exec"
  /\ outcome' = [outcome EXCEPT ![cur[w]] = "done"]
  /\ cur' = [cur EXCEPT ![w] = NoTask]
  /\ sleeping' = sleeping + 1
  /\ WakeWorker(pc, w)
  /\ UNCHANGED <<state, tasks, running, stop>>

-----------------------------------------------------------------------------
(* Stop(await).                                                            *)

Stop(s, await) ==
  /\ stop[s] = "idle"
  /\ \A o \in Stopper : stop[o] \notin {"waiting", "woken"}
  /\ state' = "kStopping"
  /\ pc' = [w \in Worker |-> IF pc[w] = "waiting" THEN "enter" ELSE pc[w]]
  /\ \E e \in [Worker -> BOOLEAN] :
       expired' = [w \in Worker |-> IF pc[w] = "waiting" THEN e[w] ELSE expired[w]]
  /\ stop' = [stop EXCEPT ![s] = IF ~await THEN "left"
                                 ELSE IF running > 0 THEN "waiting" ELSE "awaited"]
  /\ UNCHANGED <<tasks, running, sleeping, cur, outcome>>

(* The condition variable may wake the call although nobody notified it.   *)
StopSpurious(s) ==
  /\ stop[s] = "waiting"
  /\ stop' = [stop EXCEPT ![s] = "woken"]
  /\ UNCHANGED <<state, tasks, running, sleeping, pc, cur, expired, outcome>>

(* Mutant: `if' instead of `while' around the wait.                        *)
StopResumeUnchecked(s) ==
  /\ stop[s] = "woken"
  /\ stop' = [stop EXCEPT ![s] = "awaited"]
  /\ UNCHANGED <<state, tasks, running, sleeping, pc, cur, expired, outcome>>

(* The call is awake, has the mutex again and looks once more.             *)
StopResume(s) ==
  /\ stop[s] = "woken"
  /\ stop' = [stop EXCEPT ![s] = IF running > 0 THEN "waiting" ELSE "awaited"]
  /\ UNCHANGED <<state, tasks, running, sleeping, pc, cur, expired, outcome>>

-----------------------------------------------------------------------------
WorkerStep(w) ==
  \/ WorkerWait(w) \/ WorkerTimeout(w) \/ WorkerTake(w) \/ WorkerStop(w)
  \/ WorkerRetire(w) \/ WorkerKeep(w) \/ WorkerFinish(w)

StopStep(s) ==
  (\E await \in BOOLEAN : Stop(s, await)) \/ StopSpurious(s) \/ StopResume(s)

(* Every task has been submitted, every Stop has returned, no thread left. *)
Finished ==
  /\ running = 0
  /\ \A s \in Stopper : stop[s] \in {"left", "awaited"}
  /\ \A t \in Task : outcome[t] # "new"
  /\ UNCHANGED vars

Next ==
  \/ \E t \in Task : Execute(t)
  \/ \E w \in Worker : WorkerStep(w)
  \/ \E s \in Stopper : StopStep(s)
  \/ Finished

(* Threads are scheduled, timed waits time out, tasks terminate; nobody    *)
(* relies on a spurious wakeup.                                            *)
Fairness ==
  /\ \A w \in Worker : WF_vars(WorkerStep(w))
  /\ \A s \in Stopper : WF_vars(StopResume(s))

Spec == Init /\ [][Next]_vars /\ Fairness

-----------------------------------------------------------------------------
(* Properties.                                                             *)

(* The two counters are exactly the numbers of threads alive and of        *)
(* threads not running a task, although they are changed at seven places   *)
(* by three kinds of threads (Executor.h:119-120, Executor.cpp:17, 23, 31, *)
(* 34, 44); so neither ever wraps below zero.                              *)
CountersExact ==
  running = Cardinality(Alive) /\ sleeping = Cardinality(Asleep)

(* An accepted task always has a thread that will come to it: no worker    *)
(* leaves, and no task is queued, so that the queue is left to nobody      *)
(* (Executor.h:114-125, Executor.cpp:18-33).                               *)
NoOrphanTask == tasks # <<>> => running > 0

(* The pool keeps within its watermarks: never more threads than the high  *)
(* one, and never fewer than the low one before it is told to stop.        *)
WatermarksKept == running <= High /\ (state = "kRun" => running >= Low)

(* The decisions to start and to retire threads are taken on counters that *)
(* are exact, and keep the pool within its watermarks (Executor.h:114-122, *)
(* Executor.cpp:16-35).                                                    *)
PoolAccounted == CountersExact /\ WatermarksKept

(* `call won't return until all background jobs are done and all threads   *)
(* are stopped' (Executor.h:87): nothing is queued or running when         *)
(* Stop(true) has returned, and it stays that way; and the pool says       *)
(* kStopped only then.                                                     *)
StopMeansStopped ==
  state = "kStopped" \/ (\E s \in Stopper : stop[s] = "awaited")
    => Alive = {} /\ tasks = <<>> /\ \A t \in Task : outcome[t] # "accepted"

(* `All enqueued jobs will be complete' (Executor.h:85): an accepted task  *)
(* is run, also when the pool is stopped meanwhile or all its threads were *)
(* about to leave.                                                         *)
AcceptedTasksRun == \A t \in Task : outcome[t] = "accepted" ~> outcome[t] = "done"

(* Stop(true) returns: the only untimed wait of the pool is notified, by   *)
(* the last worker to leave (Executor.cpp:24-27).                          *)
StopReturns ==
  \A s \in Stopper : stop[s] \in {"waiting", "woken"} ~> stop[s] = "awaited"

-----------------------------------------------------------------------------
(* The inductive invariant of the proofs.                                  *)

(* An accepted task that has not run is queued or being run.               *)
AcceptedPlaced ==
  \A t \in Task : outcome[t] = "accepted" =>
    \/ \E i \in 1..Len(tasks) : tasks[i] = t
    \/ \E w \in Worker : pc[w] = "exec" /\ cur[w] = t

(* Once Stop is called the pool never runs again, and it is over when the  *)
(* last thread has left.                                                   *)
StopProgress ==
  /\ \A s \in Stopper : stop[s] # "idle" => state # "kRun"
  /\ \A s \in Stopper : stop[s] = "awaited" => running = 0
  /\ state = "kStopped" => running = 0

IInv ==
  /\ TypeOK /\ CountersExact /\ NoOrphanTask /\ WatermarksKept
  /\ AcceptedPlaced /\ StopProgress
=============================================================================
