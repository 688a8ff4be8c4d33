--------------------------- MODULE ExecutorProofs ---------------------------
(***************************************************************************)
(* The safety of the thread pool for any number of workers, tasks and      *)
(* callers, any watermarks and any queue size.                             *)
(***************************************************************************)
EXTENDS Executor, FiniteSetTheorems, TLAPS

USE WatermarkAssumption, DistinctAssumption

(* A set of workers is finite, and it grows or shrinks by one.             *)
LEMMA WorkerSets ==
  ASSUME NEW S \in SUBSET Worker
  PROVE  /\ IsFiniteSet(S) /\ Cardinality(S) \in Nat
         /\ Cardinality(S) = 0 <=> S = {}
         /\ \A w \in S : Cardinality(S \ {w}) = Cardinality(S) - 1
         /\ \A w : w \notin S => Cardinality(S \cup {w}) = Cardinality(S) + 1
<1>1. IsFiniteSet(S) /\ Cardinality(S) \in Nat
  BY WorkerAssumption, FS_Subset, FS_CardinalityType
<1> QED BY <1>1, FS_EmptySet, FS_AddElement, FS_RemoveElement

(* The sleeping workers are among the living.                              *)
LEMMA AsleepAlive ==
  Asleep \subseteq Alive /\ Cardinality(Asleep) <= Cardinality(Alive)
<1>1. Asleep \in SUBSET Alive /\ Alive \in SUBSET Worker
  BY DEF Asleep, Alive
<1>2. IsFiniteSet(Alive)
  BY <1>1, WorkerSets
<1> QED BY <1>1, <1>2, FS_Subset

(* notify_one moves a waiter, which changes neither who lives, nor who     *)
(* sleeps, nor who runs a task.                                            *)
LEMMA NotifyOneSets ==
  ASSUME TypeOK, NEW p \in [Worker -> WorkerPc], NotifyOne(p)
  PROVE  /\ pc' \in [Worker -> WorkerPc]
         /\ expired' \in [Worker -> BOOLEAN]
         /\ stop' \in [Stopper -> StopPc]
         /\ Alive' = {w \in Worker : p[w] # "none"}
         /\ Asleep' = {w \in Worker : p[w] \in {"enter", "waiting"}}
         /\ \A w \in Worker : pc'[w] = "exec" <=> p[w] = "exec"
         /\ \A s \in Stopper : /\ stop'[s] = "awaited" <=> stop[s] = "awaited"
                               /\ stop'[s] = "idle" <=> stop[s] = "idle"
<1>1. CASE \E w \in WaitingWorkers(p) : WakeWorker(p, w) /\ UNCHANGED stop
  <2>1. PICK v \in Worker, b \in BOOLEAN :
          /\ p[v] = "waiting" /\ pc' = [p EXCEPT ![v] = "enter"]
          /\ expired' = [expired EXCEPT ![v] = b] /\ stop' = stop
    BY <1>1 DEF WaitingWorkers, WakeWorker
  <2>2. pc' \in [Worker -> WorkerPc] /\ pc'[v] = "enter"
        /\ \A w \in Worker : w # v => pc'[w] = p[w]
    BY <2>1 DEF WorkerPc
  <2>3. expired' \in [Worker -> BOOLEAN]
    BY <2>1 DEF TypeOK
  <2>4. Alive' = {w \in Worker : p[w] # "none"}
        /\ Asleep' = {w \in Worker : p[w] \in {"enter", "waiting"}}
    BY <2>1, <2>2 DEF Alive, Asleep
  <2> QED BY <2>1, <2>2, <2>3, <2>4 DEF TypeOK
<1>2. CASE \E s \in WaitingStoppers :
             stop' = [stop EXCEPT ![s] = "woken"] /\ pc' = p /\ UNCHANGED expired
  <2>1. PICK o \in Stopper : /\ stop[o] = "waiting"
                             /\ stop' = [stop EXCEPT ![o] = "woken"]
                             /\ pc' = p /\ expired' = expired
    BY <1>2 DEF WaitingStoppers
  <2> QED BY <2>1 DEF TypeOK, StopPc, Alive, Asleep
<1>3. CASE pc' = p /\ UNCHANGED <<stop, expired>>
  BY <1>3 DEF TypeOK, Alive, Asleep
<1> QED BY <1>1, <1>2, <1>3 DEF NotifyOne

(* The constructor establishes the invariant.                              *)
LEMMA InitIInv == Init => IInv
<1> SUFFICES ASSUME Init PROVE IInv
  OBVIOUS
<1>1. PICK W \in SUBSET Worker :
        /\ Cardinality(W) = Low
        /\ pc = [w \in Worker |-> IF w \in W THEN "enter" ELSE "none"]
  BY DEF Init
<1>2. Alive = W /\ Asleep = W
  BY <1>1 DEF Alive, Asleep
<1>3. TypeOK
  BY <1>1 DEF Init, TypeOK, State, WorkerPc, StopPc
<1>4. CountersExact
  BY <1>1, <1>2 DEF Init, CountersExact
<1>5. NoOrphanTask /\ WatermarksKept /\ AcceptedPlaced /\ StopProgress
  BY DEF Init, NoOrphanTask, WatermarksKept, AcceptedPlaced, StopProgress
<1> QED BY <1>3, <1>4, <1>5 DEF IInv

-----------------------------------------------------------------------------
(* Putting a task at the end of the queue places it.                       *)
LEMMA EnqueuePlaced ==
  ASSUME TypeOK, AcceptedPlaced, NEW t \in Task, Enqueue(t), cur' = cur,
         \A w \in Worker : pc[w] = "exec" => pc'[w] = "exec"
  PROVE  /\ tasks' \in Seq(Task) /\ Len(tasks') <= MaxQueue
         /\ outcome' \in [Task -> {"new", "rejected", "accepted", "done"}]
         /\ AcceptedPlaced'
<1>1. /\ tasks' = Append(tasks, t) /\ Len(tasks) < MaxQueue
      /\ outcome' = [outcome EXCEPT ![t] = "accepted"]
  BY DEF Enqueue
<1>2. /\ tasks' \in Seq(Task) /\ Len(tasks') = Len(tasks) + 1 /\ Len(tasks) \in Nat
      /\ tasks'[Len(tasks) + 1] = t
      /\ \A i \in 1..Len(tasks) : tasks'[i] = tasks[i]
  BY <1>1 DEF TypeOK
<1>3. ASSUME NEW u \in Task, outcome'[u] = "accepted"
      PROVE  \/ \E i \in 1..Len(tasks') : tasks'[i] = u
             \/ \E w \in Worker : pc'[w] = "exec" /\ cur'[w] = u
  <2>1. CASE u = t
    BY <2>1, <1>2
  <2>2. CASE u # t
    <3>1. outcome[u] = "accepted"
      BY <2>2, <1>1, <1>3 DEF TypeOK
    <3>2. CASE \E i \in 1..Len(tasks) : tasks[i] = u
      <4>1. PICK i \in 1..Len(tasks) : tasks[i] = u
        BY <3>2
      <4>2. i \in 1..Len(tasks') /\ tasks'[i] = u
        BY <4>1, <1>2
      <4> QED BY <4>2
    <3>3. CASE \E w \in Worker : pc[w] = "exec" /\ cur[w] = u
      BY <3>3
    <3> QED BY <3>1, <3>2, <3>3 DEF AcceptedPlaced
  <2> QED BY <2>1, <2>2
<1>4. AcceptedPlaced'
  BY <1>3 DEF AcceptedPlaced
<1>5. outcome' \in [Task -> {"new", "rejected", "accepted", "done"}]
  BY <1>1 DEF TypeOK
<1> QED BY <1>1, <1>2, <1>4, <1>5 DEF TypeOK

(* Execute preserves the invariant.                                        *)
LEMMA ExecuteIInv ==
  ASSUME IInv, NEW t \in Task, Execute(t)
  PROVE  IInv'
<1>1. /\ TypeOK /\ AcceptedPlaced /\ StopProgress
      /\ running = Cardinality(Alive) /\ sleeping = Cardinality(Asleep)
      /\ running <= High /\ (state = "kRun" => running >= Low)
      /\ (tasks # <<>> => running > 0)
      /\ running \in Nat /\ sleeping \in Nat /\ sleeping <= running
  BY AsleepAlive DEF IInv, CountersExact, WatermarksKept, NoOrphanTask, TypeOK
<1>2. CASE ExecuteReject(t)
  <2>1. /\ outcome' = [outcome EXCEPT ![t] = "rejected"]
        /\ UNCHANGED <<state, tasks, running, sleeping, pc, cur, expired, stop>>
    BY <1>2 DEF ExecuteReject
  <2>2. TypeOK'
    BY <2>1, <1>1 DEF TypeOK
  <2>3. Alive' = Alive /\ Asleep' = Asleep
    BY <2>1 DEF Alive, Asleep
  <2>4. AcceptedPlaced'
    <3>1. \A u \in Task : outcome'[u] = "accepted" => outcome[u] = "accepted"
      BY <2>1, <1>1 DEF TypeOK
    <3> QED BY <3>1, <2>1, <1>1 DEF AcceptedPlaced
  <2> QED BY <2>1, <2>2, <2>3, <2>4, <1>1
          DEF IInv, CountersExact, WatermarksKept, NoOrphanTask, StopProgress
<1>3. CASE ExecuteSpawn(t)
  <2>1. /\ Enqueue(t) /\ state' = state /\ cur' = cur /\ state = "kRun"
        /\ sleeping = 0 /\ running < High
        /\ running' = running + 1 /\ sleeping' = sleeping + 1
    BY <1>3 DEF ExecuteSpawn, Enqueue
  <2>2. PICK w \in Worker \ Alive : NotifyOne([pc EXCEPT ![w] = "enter"])
    BY <1>3 DEF ExecuteSpawn
  <2>3. PICK p : p = [pc EXCEPT ![w] = "enter"]
    OBVIOUS
  <2>4. /\ p \in [Worker -> WorkerPc] /\ pc[w] = "none" /\ p[w] = "enter"
        /\ \A v \in Worker : v # w => p[v] = pc[v]
    BY <2>3, <1>1 DEF TypeOK, WorkerPc, Alive
  <2>5. /\ pc' \in [Worker -> WorkerPc]
        /\ expired' \in [Worker -> BOOLEAN]
        /\ stop' \in [Stopper -> StopPc]
        /\ Alive' = {v \in Worker : p[v] # "none"}
        /\ Asleep' = {v \in Worker : p[v] \in {"enter", "waiting"}}
        /\ \A v \in Worker : pc'[v] = "exec" <=> p[v] = "exec"
        /\ \A s \in Stopper : /\ stop'[s] = "awaited" <=> stop[s] = "awaited"
                              /\ stop'[s] = "idle" <=> stop[s] = "idle"
    BY <2>2, <2>3, <2>4, <1>1, NotifyOneSets
  <2>6. Alive' = Alive \cup {w} /\ Asleep' = Asleep \cup {w}
        /\ w \notin Alive /\ w \notin Asleep
    BY <2>4, <2>5 DEF Alive, Asleep
  <2>7. CountersExact'
    <3>1. Alive \in SUBSET Worker /\ Asleep \in SUBSET Worker
      BY DEF Alive, Asleep
    <3> QED BY <3>1, <2>1, <2>6, <1>1, WorkerSets DEF CountersExact
  <2>8. /\ tasks' \in Seq(Task) /\ Len(tasks') <= MaxQueue
        /\ outcome' \in [Task -> {"new", "rejected", "accepted", "done"}]
        /\ AcceptedPlaced'
    <3>1. \A v \in Worker : pc[v] = "exec" => pc'[v] = "exec"
      BY <2>4, <2>5
    <3> QED BY <3>1, <2>1, <1>1, EnqueuePlaced
  <2>9. TypeOK'
    BY <2>1, <2>5, <2>8, <1>1 DEF TypeOK
  <2>10. NoOrphanTask' /\ WatermarksKept' /\ StopProgress'
    BY <2>1, <2>5, <1>1 DEF NoOrphanTask, WatermarksKept, StopProgress
  <2> QED BY <2>7, <2>8, <2>9, <2>10 DEF IInv
<1>4. CASE ExecuteQueue(t)
  <2>1. /\ Enqueue(t) /\ running >= High
        /\ UNCHANGED <<state, running, sleeping, pc, cur, expired, stop>>
    BY <1>4 DEF ExecuteQueue
  <2>2. /\ tasks' \in Seq(Task) /\ Len(tasks') <= MaxQueue
        /\ outcome' \in [Task -> {"new", "rejected", "accepted", "done"}]
        /\ AcceptedPlaced'
    BY <2>1, <1>1, EnqueuePlaced
  <2>3. TypeOK'
    BY <2>1, <2>2, <1>1 DEF TypeOK
  <2>4. Alive' = Alive /\ Asleep' = Asleep
    BY <2>1 DEF Alive, Asleep
  <2> QED BY <2>1, <2>2, <2>3, <2>4, <1>1
          DEF IInv, CountersExact, WatermarksKept, NoOrphanTask, StopProgress
<1>5. CASE ExecuteNotify(t)
  <2>1. /\ Enqueue(t) /\ sleeping # 0 /\ NotifyOne(pc)
        /\ state' = state /\ running' = running /\ sleeping' = sleeping /\ cur' = cur
    BY <1>5 DEF ExecuteNotify
  <2>2. PICK p : p = pc
    OBVIOUS
  <2>3. /\ pc' \in [Worker -> WorkerPc]
        /\ expired' \in [Worker -> BOOLEAN]
        /\ stop' \in [Stopper -> StopPc]
        /\ Alive' = {v \in Worker : p[v] # "none"}
        /\ Asleep' = {v \in Worker : p[v] \in {"enter", "waiting"}}
        /\ \A v \in Worker : pc'[v] = "exec" <=> p[v] = "exec"
        /\ \A s \in Stopper : /\ stop'[s] = "awaited" <=> stop[s] = "awaited"
                              /\ stop'[s] = "idle" <=> stop[s] = "idle"
    <3>1. p \in [Worker -> WorkerPc] /\ NotifyOne(p)
      BY <2>1, <2>2, <1>1 DEF TypeOK
    <3> QED BY <3>1, <1>1, NotifyOneSets
  <2>4. Alive' = Alive /\ Asleep' = Asleep
    BY <2>2, <2>3 DEF Alive, Asleep
  <2>5. /\ tasks' \in Seq(Task) /\ Len(tasks') <= MaxQueue
        /\ outcome' \in [Task -> {"new", "rejected", "accepted", "done"}]
        /\ AcceptedPlaced'
    <3>1. \A v \in Worker : pc[v] = "exec" => pc'[v] = "exec"
      BY <2>2, <2>3
    <3> QED BY <3>1, <2>1, <1>1, EnqueuePlaced
  <2>6. TypeOK'
    BY <2>1, <2>3, <2>5, <1>1 DEF TypeOK
  <2>7. running > 0
    BY <2>1, <1>1
  <2>8. CountersExact' /\ NoOrphanTask' /\ WatermarksKept'
    BY <2>1, <2>4, <2>7, <1>1 DEF CountersExact, WatermarksKept, NoOrphanTask
  <2>9. StopProgress'
    BY <2>1, <2>3, <1>1 DEF StopProgress
  <2> QED BY <2>5, <2>6, <2>8, <2>9 DEF IInv
<1> QED BY <1>2, <1>3, <1>4, <1>5 DEF Execute

-----------------------------------------------------------------------------
(* A step of a worker preserves the invariant.                             *)
LEMMA WorkerIInv ==
  ASSUME IInv, NEW w \in Worker, WorkerStep(w)
  PROVE  IInv'
<1>1. /\ TypeOK /\ AcceptedPlaced /\ StopProgress
      /\ running = Cardinality(Alive) /\ sleeping = Cardinality(Asleep)
      /\ running <= High /\ (state = "kRun" => running >= Low)
      /\ (tasks # <<>> => running > 0)
      /\ running \in Nat /\ sleeping \in Nat /\ sleeping <= running
  BY AsleepAlive DEF IInv, CountersExact, WatermarksKept, NoOrphanTask, TypeOK
<1>2. /\ pc \in [Worker -> WorkerPc] /\ cur \in [Worker -> Task \cup {NoTask}]
      /\ expired \in [Worker -> BOOLEAN]
      /\ Alive \in SUBSET Worker /\ Asleep \in SUBSET Worker
  BY <1>1 DEF TypeOK, Alive, Asleep
<1>3. CASE WorkerWait(w) \/ WorkerTimeout(w)
  <2>1. /\ UNCHANGED <<state, tasks, running, sleeping, cur, outcome, stop>>
        /\ expired' \in [Worker -> BOOLEAN]
        /\ pc[w] \in {"enter", "waiting"}
        /\ \E x \in {"enter", "waiting"} : pc' = [pc EXCEPT ![w] = x]
    BY <1>3, <1>2 DEF WorkerWait, WorkerTimeout, WakeWorker
  <2>2. /\ pc' \in [Worker -> WorkerPc] /\ pc'[w] \in {"enter", "waiting"}
        /\ \A v \in Worker : v # w => pc'[v] = pc[v]
    BY <2>1, <1>2 DEF WorkerPc
  <2>3. Alive' = Alive /\ Asleep' = Asleep
    BY <2>1, <2>2 DEF Alive, Asleep
  <2>4. AcceptedPlaced'
    BY <2>1, <2>2, <1>1 DEF AcceptedPlaced
  <2>5. TypeOK'
    BY <2>1, <2>2, <1>1 DEF TypeOK
  <2> QED BY <2>1, <2>3, <2>4, <2>5, <1>1
          DEF IInv, CountersExact, WatermarksKept, NoOrphanTask, StopProgress
<1>4. CASE WorkerTake(w)
  <2>1. /\ pc[w] = "enter" /\ tasks # <<>> /\ sleeping' = sleeping - 1
        /\ cur' = [cur EXCEPT ![w] = Head(tasks)] /\ tasks' = Tail(tasks)
        /\ pc' = [pc EXCEPT ![w] = "exec"]
        /\ expired' = [expired EXCEPT ![w] = FALSE]
        /\ UNCHANGED <<state, running, outcome, stop>>
    BY <1>4 DEF WorkerTake
  <2>2. tasks \in Seq(Task) /\ Len(tasks) \in Nat /\ Len(tasks) <= MaxQueue
    BY <1>1 DEF TypeOK
  <2>3. /\ tasks' \in Seq(Task) /\ Len(tasks') = Len(tasks) - 1
        /\ Head(tasks) \in Task /\ Head(tasks) = tasks[1]
        /\ \A i \in 1..Len(tasks') : tasks'[i] = tasks[i + 1]
    BY <2>1, <2>2
  <2>4. /\ pc' \in [Worker -> WorkerPc] /\ pc'[w] = "exec"
        /\ \A v \in Worker : v # w => pc'[v] = pc[v]
        /\ cur' \in [Worker -> Task \cup {NoTask}] /\ cur'[w] = tasks[1]
        /\ \A v \in Worker : v # w => cur'[v] = cur[v]
    BY <2>1, <2>3, <1>2 DEF WorkerPc
  <2>5. Alive' = Alive /\ Asleep' = Asleep \ {w} /\ w \in Asleep
    BY <2>1, <2>4 DEF Alive, Asleep
  <2>6. CountersExact'
    BY <2>1, <2>5, <1>1, <1>2, WorkerSets DEF CountersExact
  <2>7. AcceptedPlaced'
    <3> SUFFICES ASSUME NEW t \in Task, outcome[t] = "accepted"
                 PROVE  \/ \E i \in 1..Len(tasks') : tasks'[i] = t
                        \/ \E v \in Worker : pc'[v] = "exec" /\ cur'[v] = t
      BY <2>1 DEF AcceptedPlaced
    <3>1. CASE \E i \in 1..Len(tasks) : tasks[i] = t
      <4>1. PICK i \in 1..Len(tasks) : tasks[i] = t
        BY <3>1
      <4>2. CASE i = 1
        BY <4>1, <4>2, <2>4
      <4>3. CASE i # 1
        <5>1. i - 1 \in 1..Len(tasks') /\ (i - 1) + 1 = i
          BY <4>3, <2>2, <2>3
        <5>2. tasks'[i - 1] = t
          BY <5>1, <4>1, <2>3
        <5> QED BY <5>1, <5>2
      <4> QED BY <4>2, <4>3
    <3>2. CASE \E v \in Worker : pc[v] = "exec" /\ cur[v] = t
      BY <3>2, <2>1, <2>4
    <3> QED BY <3>1, <3>2, <1>1 DEF AcceptedPlaced
  <2>8. sleeping' \in Nat /\ running > 0
    <3>1. Asleep # {}
      BY <2>5
    <3>2. sleeping # 0
      BY <3>1, <1>1, <1>2, WorkerSets
    <3> QED BY <3>2, <2>1, <1>1
  <2>9. TypeOK'
    BY <2>1, <2>2, <2>3, <2>4, <2>8, <1>1 DEF TypeOK
  <2>10. NoOrphanTask' /\ WatermarksKept' /\ StopProgress'
    BY <2>1, <2>8, <1>1 DEF NoOrphanTask, WatermarksKept, StopProgress
  <2> QED BY <2>6, <2>7, <2>9, <2>10 DEF IInv
<1>5. ASSUME Idle(w), Gone(w)
      PROVE  /\ w \in Alive /\ w \in Asleep /\ tasks = <<>> /\ tasks' = tasks
             /\ sleeping' = sleeping - 1 /\ running' = running - 1
             /\ cur' = cur /\ outcome' = outcome /\ pc[w] = "enter"
             /\ running' \in Nat /\ sleeping' \in Nat
             /\ running' = Cardinality(Alive \ {w})
             /\ sleeping' = Cardinality(Asleep \ {w})
  <2>1. /\ pc[w] = "enter" /\ tasks = <<>> /\ tasks' = tasks
        /\ sleeping' = sleeping - 1 /\ running' = running - 1
        /\ cur' = cur /\ outcome' = outcome
    BY <1>5 DEF Idle, Gone
  <2>2. w \in Alive /\ w \in Asleep
    BY <2>1 DEF Alive, Asleep
  <2>3. Cardinality(Alive \ {w}) = running - 1 /\ Cardinality(Asleep \ {w}) = sleeping - 1
    BY <2>2, <1>1, <1>2, WorkerSets
  <2>4. Cardinality(Alive \ {w}) \in Nat /\ Cardinality(Asleep \ {w}) \in Nat
    <3>1. Alive \ {w} \in SUBSET Worker /\ Asleep \ {w} \in SUBSET Worker
      BY <1>2
    <3> QED BY <3>1, WorkerSets
  <2> QED BY <2>1, <2>2, <2>3, <2>4
<1>6. CASE WorkerStop(w)
  <2>1. Idle(w) /\ Gone(w) /\ state # "kRun"
    BY <1>6 DEF WorkerStop
  <2>2. PICK p : p = [pc EXCEPT ![w] = "none"]
    OBVIOUS
  <2>3. /\ p \in [Worker -> WorkerPc] /\ p[w] = "none"
        /\ \A v \in Worker : v # w => p[v] = pc[v]
    BY <2>2, <1>2 DEF WorkerPc
  <2>4. /\ pc' \in [Worker -> WorkerPc]
        /\ expired' \in [Worker -> BOOLEAN]
        /\ stop' \in [Stopper -> StopPc]
        /\ Alive' = {v \in Worker : p[v] # "none"}
        /\ Asleep' = {v \in Worker : p[v] \in {"enter", "waiting"}}
        /\ \A v \in Worker : pc'[v] = "exec" <=> p[v] = "exec"
        /\ \A s \in Stopper : /\ stop'[s] = "awaited" <=> stop[s] = "awaited"
                              /\ stop'[s] = "idle" <=> stop[s] = "idle"
        /\ state' \in State /\ state' # "kRun"
        /\ state' = "kStopped" => running - 1 = 0 \/ state = "kStopped"
    <3>1. CASE running - 1 = 0
      <4>1. state' = "kStopped" /\ NotifyOne(p)
        BY <3>1, <2>2, <1>6 DEF WorkerStop
      <4>2. state' \in State /\ state' # "kRun"
        BY <4>1 DEF State
      <4> QED BY <4>1, <4>2, <3>1, <2>3, <1>1, NotifyOneSets
    <3>2. CASE running - 1 # 0
      <4>1. pc' = p /\ state' = state /\ expired' = expired /\ stop' = stop
        BY <3>2, <2>2, <1>6 DEF WorkerStop
      <4> QED BY <4>1, <2>1, <2>3, <1>1 DEF TypeOK, Alive, Asleep
    <3> QED BY <3>1, <3>2
  <2>5. Alive' = Alive \ {w} /\ Asleep' = Asleep \ {w}
    BY <2>3, <2>4 DEF Alive, Asleep
  <2>6. CountersExact'
    BY <2>1, <2>5, <1>5 DEF CountersExact
  <2>7. AcceptedPlaced'
    <3>1. \A v \in Worker : pc[v] = "exec" => pc'[v] = "exec"
      BY <2>1, <2>3, <2>4, <1>5
    <3> QED BY <3>1, <2>1, <1>1, <1>5 DEF AcceptedPlaced
  <2>8. TypeOK'
    BY <2>1, <2>4, <1>1, <1>2, <1>5 DEF TypeOK
  <2>9. NoOrphanTask' /\ WatermarksKept'
    BY <2>1, <2>4, <1>1, <1>5 DEF NoOrphanTask, WatermarksKept
  <2>10. StopProgress'
    <3>1. running # 0
      BY <2>1, <1>1, <1>2, <1>5, WorkerSets
    <3>2. \A s \in Stopper : stop[s] # "awaited"
      BY <3>1, <1>1 DEF StopProgress
    <3>3. state # "kStopped"
      BY <3>1, <1>1 DEF StopProgress
    <3>4. running' = running - 1
      BY <2>1, <1>5
    <3> QED BY <3>2, <3>3, <3>4, <2>4 DEF StopProgress
  <2> QED BY <2>6, <2>7, <2>8, <2>9, <2>10 DEF IInv
<1>7. CASE WorkerRetire(w)
  <2>1. /\ Idle(w) /\ Gone(w) /\ state = "kRun" /\ sleeping - 1 >= Low
        /\ pc' = [pc EXCEPT ![w] = "none"]
        /\ expired' = [expired EXCEPT ![w] = FALSE]
        /\ state' = state /\ stop' = stop
    BY <1>7 DEF WorkerRetire
  <2>2. /\ pc' \in [Worker -> WorkerPc] /\ pc'[w] = "none"
        /\ \A v \in Worker : v # w => pc'[v] = pc[v]
        /\ expired' \in [Worker -> BOOLEAN]
    BY <2>1, <1>2 DEF WorkerPc
  <2>3. Alive' = Alive \ {w} /\ Asleep' = Asleep \ {w}
    BY <2>2 DEF Alive, Asleep
  <2>4. CountersExact'
    BY <2>1, <2>3, <1>5 DEF CountersExact
  <2>5. AcceptedPlaced'
    <3>1. \A v \in Worker : pc[v] = "exec" => pc'[v] = "exec"
      BY <2>1, <2>2, <1>5
    <3> QED BY <3>1, <2>1, <1>1, <1>5 DEF AcceptedPlaced
  <2>6. TypeOK'
    BY <2>1, <2>2, <1>1, <1>2, <1>5 DEF TypeOK
  <2>7. NoOrphanTask' /\ WatermarksKept'
    BY <2>1, <1>1, <1>5 DEF NoOrphanTask, WatermarksKept
  <2>8. StopProgress'
    <3>1. running' = running - 1 /\ \A s \in Stopper : stop[s] = "idle"
      BY <2>1, <1>1, <1>5 DEF StopProgress
    <3> QED BY <3>1, <2>1 DEF StopProgress
  <2> QED BY <2>4, <2>5, <2>6, <2>7, <2>8 DEF IInv
<1>8. CASE WorkerKeep(w)
  <2>1. UNCHANGED vars
    BY <1>8 DEF WorkerKeep
  <2> QED BY <2>1, <1>1 DEF vars, IInv, TypeOK, CountersExact, NoOrphanTask,
          WatermarksKept, AcceptedPlaced, StopProgress, Alive, Asleep
<1>9. CASE WorkerFinish(w)
  <2>1. /\ pc[w] = "exec"
        /\ outcome' = [outcome EXCEPT ![cur[w]] = "done"]
        /\ cur' = [cur EXCEPT ![w] = NoTask]
        /\ sleeping' = sleeping + 1
        /\ pc' = [pc EXCEPT ![w] = "enter"]
        /\ expired' \in [Worker -> BOOLEAN]
        /\ UNCHANGED <<state, tasks, running, stop>>
    BY <1>9, <1>2 DEF WorkerFinish, WakeWorker
  <2>2. /\ pc' \in [Worker -> WorkerPc] /\ pc'[w] = "enter"
        /\ \A v \in Worker : v # w => pc'[v] = pc[v]
        /\ cur' \in [Worker -> Task \cup {NoTask}]
        /\ \A v \in Worker : v # w => cur'[v] = cur[v]
        /\ outcome' \in [Task -> {"new", "rejected", "accepted", "done"}]
        /\ \A t \in Task : outcome'[t] = "accepted" =>
             outcome[t] = "accepted" /\ t # cur[w]
    BY <2>1, <1>1, <1>2 DEF WorkerPc, TypeOK
  <2>3. Alive' = Alive /\ Asleep' = Asleep \cup {w} /\ w \notin Asleep
    BY <2>1, <2>2 DEF Alive, Asleep
  <2>4. CountersExact'
    BY <2>1, <2>3, <1>1, <1>2, WorkerSets DEF CountersExact
  <2>5. AcceptedPlaced'
    BY <2>1, <2>2, <1>1 DEF AcceptedPlaced
  <2>6. TypeOK'
    BY <2>1, <2>2, <1>1 DEF TypeOK
  <2>7. NoOrphanTask' /\ WatermarksKept' /\ StopProgress'
    BY <2>1, <1>1 DEF NoOrphanTask, WatermarksKept, StopProgress
  <2> QED BY <2>4, <2>5, <2>6, <2>7 DEF IInv
<1> QED BY <1>3, <1>4, <1>6, <1>7, <1>8, <1>9 DEF WorkerStep

(* A step of a call of Stop preserves the invariant.                       *)
LEMMA StopIInv ==
  ASSUME IInv, NEW s \in Stopper,
         StopStep(s)
  PROVE  IInv'
<1>1. /\ TypeOK /\ AcceptedPlaced /\ StopProgress
      /\ CountersExact /\ WatermarksKept /\ NoOrphanTask
      /\ running \in Nat /\ stop \in [Stopper -> StopPc]
      /\ pc \in [Worker -> WorkerPc] /\ expired \in [Worker -> BOOLEAN]
  BY DEF IInv, TypeOK
<1>2. ASSUME NEW await \in BOOLEAN, Stop(s, await) PROVE IInv'
  <2>1. /\ state' = "kStopping"
        /\ pc' = [w \in Worker |-> IF pc[w] = "waiting" THEN "enter" ELSE pc[w]]
        /\ UNCHANGED <<tasks, running, sleeping, cur, outcome>>
    BY <1>2 DEF Stop
  <2>2. expired' \in [Worker -> BOOLEAN]
    BY <1>1, <1>2 DEF Stop
  <2> DEFINE x == IF ~await THEN "left"
                  ELSE IF running > 0 THEN "waiting" ELSE "awaited"
  <2>3. stop' = [stop EXCEPT ![s] = x]
    BY <1>2 DEF Stop
  <2>x. x \in StopPc /\ (x = "awaited" => running = 0)
    BY <1>1 DEF StopPc
  <2> HIDE DEF x
  <2>4. /\ stop' \in [Stopper -> StopPc]
        /\ \A o \in Stopper : stop'[o] = "awaited" => running = 0
    BY <2>3, <2>x, <1>1 DEF StopProgress
  <2>5. /\ pc' \in [Worker -> WorkerPc]
        /\ Alive' = Alive /\ Asleep' = Asleep
        /\ \A w \in Worker : pc'[w] = "exec" <=> pc[w] = "exec"
    BY <2>1, <1>1 DEF Alive, Asleep, WorkerPc
  <2>6. TypeOK'
    BY <2>1, <2>2, <2>4, <2>5, <1>1 DEF TypeOK, State
  <2>7. AcceptedPlaced'
    BY <2>1, <2>5, <1>1 DEF AcceptedPlaced
  <2>8. CountersExact' /\ NoOrphanTask' /\ WatermarksKept' /\ StopProgress'
    BY <2>1, <2>4, <2>5, <1>1
       DEF CountersExact, NoOrphanTask, WatermarksKept, StopProgress
  <2> QED BY <2>6, <2>7, <2>8 DEF IInv
<1>3. CASE StopResume(s)
  <2>1. /\ stop[s] = "woken"
        /\ UNCHANGED <<state, tasks, running, sleeping, pc, cur, expired, outcome>>
    BY <1>3 DEF StopResume
  <2> DEFINE x == IF running > 0 THEN "waiting" ELSE "awaited"
  <2>2. stop' = [stop EXCEPT ![s] = x]
    BY <1>3 DEF StopResume
  <2>x. x \in StopPc /\ (x = "awaited" => running = 0)
    BY <1>1 DEF StopPc
  <2> HIDE DEF x
  <2>3. /\ stop' \in [Stopper -> StopPc]
        /\ \A o \in Stopper : stop'[o] = "awaited" => running = 0
        /\ \A o \in Stopper : stop'[o] # "idle" => state # "kRun"
    BY <2>1, <2>2, <2>x, <1>1 DEF StopProgress
  <2>4. TypeOK'
    BY <2>1, <2>3, <1>1 DEF TypeOK
  <2>5. AcceptedPlaced' /\ Alive' = Alive /\ Asleep' = Asleep
    BY <2>1, <1>1 DEF AcceptedPlaced, Alive, Asleep
  <2> QED BY <2>1, <2>3, <2>4, <2>5, <1>1
          DEF IInv, CountersExact, NoOrphanTask, WatermarksKept, StopProgress
<1>4. CASE StopSpurious(s)
  <2>1. /\ stop[s] = "waiting" /\ stop' = [stop EXCEPT ![s] = "woken"]
        /\ UNCHANGED <<state, tasks, running, sleeping, pc, cur, expired, outcome>>
    BY <1>4 DEF StopSpurious
  <2>2. /\ stop' \in [Stopper -> StopPc]
        /\ \A o \in Stopper : stop'[o] = "awaited" => running = 0
        /\ \A o \in Stopper : stop'[o] # "idle" => state # "kRun"
    BY <2>1, <1>1 DEF StopPc, StopProgress
  <2>3. TypeOK'
    BY <2>1, <2>2, <1>1 DEF TypeOK
  <2>4. AcceptedPlaced' /\ Alive' = Alive /\ Asleep' = Asleep
    BY <2>1, <1>1 DEF AcceptedPlaced, Alive, Asleep
  <2> QED BY <2>1, <2>2, <2>3, <2>4, <1>1
          DEF IInv, CountersExact, NoOrphanTask, WatermarksKept, StopProgress
<1> QED BY <1>2, <1>3, <1>4 DEF StopStep

(* Every step preserves the invariant.                                     *)
LEMMA NextIInv == IInv /\ [Next]_vars => IInv'
<1> SUFFICES ASSUME IInv, [Next]_vars PROVE IInv'
  OBVIOUS
<1>1. CASE UNCHANGED vars
  BY <1>1 DEF vars, IInv, TypeOK, CountersExact, NoOrphanTask,
     WatermarksKept, AcceptedPlaced, StopProgress, Alive, Asleep
<1>2. CASE Next
  BY <1>1, <1>2, ExecuteIInv, WorkerIInv, StopIInv DEF Next, Finished
<1> QED BY <1>1, <1>2

(* The inductive invariant holds throughout.                               *)
THEOREM Inductive == Spec => []IInv
BY InitIInv, NextIInv, PTL DEF Spec

(* running_threads and sleeping_workers are exact and the watermarks kept, *)
(* for every pool.                                                         *)
THEOREM AccountingCorrect == Spec => []PoolAccounted
<1>1. IInv => PoolAccounted
  BY DEF IInv, PoolAccounted
<1> QED BY <1>1, Inductive, PTL

(* The queue keeps its limit and the counters are never negative.          *)
THEOREM TypeCorrect == Spec => []TypeOK
<1>1. IInv => TypeOK
  BY DEF IInv
<1> QED BY <1>1, Inductive, PTL

(* No accepted task is left without a thread.                              *)
THEOREM PoolCorrect == Spec => []NoOrphanTask
<1>1. IInv => NoOrphanTask
  BY DEF IInv
<1> QED BY <1>1, Inductive, PTL

(* When Stop(true) has returned, no thread lives and no accepted task is   *)
(* left: with running_threads exact, zero means there is no thread, and    *)
(* then no queue, and no task that is neither queued nor run.              *)
THEOREM StopCorrect == Spec => []StopMeansStopped
<1>1. IInv => StopMeansStopped
  <2> SUFFICES ASSUME IInv,
                      state = "kStopped" \/ \E s \in Stopper : stop[s] = "awaited"
               PROVE  Alive = {} /\ tasks = <<>> /\ \A t \in Task : outcome[t] # "accepted"
    BY DEF StopMeansStopped
  <2>1. running = 0
    BY DEF IInv, StopProgress
  <2>2. Alive = {}
    <3>1. Alive \in SUBSET Worker
      BY DEF Alive
    <3> QED BY <3>1, <2>1, WorkerSets DEF IInv, CountersExact
  <2>3. tasks = <<>>
    BY <2>1 DEF IInv, NoOrphanTask
  <2>4. \A w \in Worker : pc[w] # "exec"
    BY <2>2 DEF Alive
  <2>5. \A t \in Task : outcome[t] # "accepted"
    BY <2>3, <2>4 DEF IInv, AcceptedPlaced
  <2> QED BY <2>2, <2>3, <2>5
<1> QED BY <1>1, Inductive, PTL
=============================================================================
