-------------------------- MODULE ApplicationProofs -------------------------
(***************************************************************************)
(* Proofs about the shutdown of the process and the use of its storage,    *)
(* for any number of clients, pool threads, queued tasks and signals.      *)
(***************************************************************************)
EXTENDS Application, FiniteSetTheorems, TLAPS

(* Who is inside the storage, and that its lock is held by one only.       *)
StorageUse ==
  /\ inside = {c \in Client : conn[c] = "store"}
  /\ storage = "mt_lru" => \A c, d \in inside : c = d
  /\ \A c \in Client : conn[c] = "store" => left[c] > 0

(* The tasks of the pool are the connections that wait for a thread, each  *)
(* of them once.                                                           *)
TasksQueued ==
  /\ \A i \in 1..Len(tasks) : conn[tasks[i]] = "queued"
  /\ \A i, j \in 1..Len(tasks) : tasks[i] = tasks[j] => i = j
  /\ \A c \in Client : conn[c] = "queued" => \E i \in 1..Len(tasks) : tasks[i] = c

(* A connection that is accepted and neither queued nor served is in the   *)
(* acceptor's hands.                                                       *)
AcceptedHeld ==
  /\ acc = "got" => got \in Client
  /\ \A c \in Client : conn[c] = "accepted" <=> acc = "got" /\ got = c

(* st_blocking serves one connection, inside its acceptor.                 *)
ServedInline ==
  SingleThreaded =>
    /\ acc # "drain" /\ tasks = <<>>
    /\ Serving # {} => acc = "serve"
    /\ \A c, d \in Serving : c = d

(* How far the shutdown has got: main waits for the acceptor, and the      *)
(* acceptor for the pool.                                                  *)
ShutdownOrder ==
  /\ acc = "none" <=> listener = "none"
  /\ acc = "none" => main \in {"start", "exit"} /\ Drained
  /\ main = "start" => acc = "none"
  /\ acc = "done" => Drained
  /\ acc = "serve" => SingleThreaded
  /\ acc \in {"drain", "done"} /\ ~SingleThreaded => listener = "closed"
  /\ main = "drain" => acc = "done" /\ ~SingleThreaded
  /\ main = "exit" => acc = "none" \/ (acc = "done" /\ listener = "closed")

IInv ==
  /\ TypeOK /\ sem <= signals
  /\ StorageUse /\ TasksQueued /\ AcceptedHeld /\ ServedInline /\ ShutdownOrder

(* The initial states.                                                     *)
LEMMA InitIInv == Init => IInv
<1> SUFFICES ASSUME Init PROVE IInv
  OBVIOUS
<1> USE SizesAssumption DEF Init
<1>1. TypeOK /\ sem <= signals
  <2>1. tasks \in Seq(Client) /\ Len(tasks) <= QueueMax
    OBVIOUS
  <2>2. sem \in 0..MaxSignals /\ signals \in 0..MaxSignals /\ sem <= signals
    OBVIOUS
  <2>3. left \in [Client -> 0..MaxBatch]
    OBVIOUS
  <2>4. /\ cmd \in [Client -> BOOLEAN] /\ data \in [Client -> BOOLEAN]
        /\ stalled \in [Client -> BOOLEAN]
    BY Zenon
  <2>5. conn \in [Client -> {"none", "backlog", "accepted", "queued", "read", "run",
                             "store", "send", "closed"}]
    OBVIOUS
  <2>6. stop_reason \in BOOLEAN /\ running \in BOOLEAN
    BY Zenon
  <2>7. TypeOK
    BY <2>1, <2>2, <2>3, <2>4, <2>5, <2>6, Zenon DEF TypeOK
  <2> QED BY <2>2, <2>7
<1>2. StorageUse /\ TasksQueued /\ AcceptedHeld
  BY DEF StorageUse, TasksQueued, AcceptedHeld
<1>3. ServedInline /\ ShutdownOrder
  BY DEF ServedInline, ShutdownOrder, Serving, Drained
<1> QED BY <1>1, <1>2, <1>3 DEF IInv

(* A step that leaves the connections alone and in which the acceptor      *)
(* neither takes nor drops one.                                            *)
LEMMA QuietKeeps ==
  ASSUME IInv, UNCHANGED <<options, conn, left, inside, tasks, got>>,
         acc' = acc \/ (acc \notin {"got", "serve"} /\ acc' \notin {"got", "serve"})
  PROVE  /\ StorageUse' /\ TasksQueued' /\ AcceptedHeld'
         /\ (SingleThreaded => acc' # "drain") => ServedInline'
<1>1. StorageUse' /\ TasksQueued'
  BY DEF IInv, StorageUse, TasksQueued, options
<1>2. AcceptedHeld'
  BY DEF IInv, AcceptedHeld
<1>3. (SingleThreaded => acc' # "drain") => ServedInline'
  BY DEF IInv, ServedInline, SingleThreaded, Serving, options
<1> QED BY <1>1, <1>2, <1>3

(* The main thread.                                                        *)
LEMMA MainKeeps == ASSUME IInv, MainThread PROVE IInv'
<1> USE SizesAssumption DEF options, signalled, server, session, clients
<1>1. CASE Start
  <2> USE <1>1 DEF Start, Listens
  <2>1. TypeOK' /\ sem' <= signals'
    BY DEF IInv, TypeOK
  <2>2. ShutdownOrder'
    BY DEF IInv, TypeOK, ShutdownOrder, ServedInline, Drained, SingleThreaded, Serving
  <2>3. (SingleThreaded => acc' # "drain")
    BY DEF IInv, ServedInline, SingleThreaded
  <2> QED BY <2>1, <2>2, <2>3, QuietKeeps DEF IInv, ShutdownOrder
<1>2. CASE StartFails
  <2> USE <1>2 DEF StartFails
  <2>1. TypeOK' /\ sem' <= signals'
    BY DEF IInv, TypeOK
  <2>2. ShutdownOrder'
    BY DEF IInv, TypeOK, ShutdownOrder, ServedInline, Drained, SingleThreaded, Serving
  <2>3. (SingleThreaded => acc' # "drain")
    BY DEF IInv, ServedInline, SingleThreaded
  <2> QED BY <2>1, <2>2, <2>3, QuietKeeps DEF IInv, ShutdownOrder
<1>3. CASE CheckReason
  <2> USE <1>3 DEF CheckReason
  <2>1. TypeOK' /\ sem' <= signals'
    BY DEF IInv, TypeOK
  <2>2. ShutdownOrder'
    BY DEF IInv, TypeOK, ShutdownOrder, ServedInline, Drained, SingleThreaded, Serving
  <2>3. (SingleThreaded => acc' # "drain")
    BY DEF IInv, ServedInline, SingleThreaded
  <2> QED BY <2>1, <2>2, <2>3, QuietKeeps DEF IInv, ShutdownOrder
<1>4. CASE SemWait
  <2> USE <1>4 DEF SemWait
  <2>1. TypeOK' /\ sem' <= signals'
    BY DEF IInv, TypeOK
  <2>2. ShutdownOrder'
    BY DEF IInv, TypeOK, ShutdownOrder, ServedInline, Drained, SingleThreaded, Serving
  <2>3. (SingleThreaded => acc' # "drain")
    BY DEF IInv, ServedInline, SingleThreaded
  <2> QED BY <2>1, <2>2, <2>3, QuietKeeps DEF IInv, ShutdownOrder
<1>5. CASE Stop
  <2> USE <1>5 DEF Stop
  <2>1. TypeOK' /\ sem' <= signals'
    BY ZenonT(30) DEF IInv, TypeOK
  <2>2. ShutdownOrder'
    BY DEF IInv, TypeOK, ShutdownOrder, ServedInline, Drained, SingleThreaded, Serving
  <2>3. (SingleThreaded => acc' # "drain")
    BY DEF IInv, ServedInline, SingleThreaded
  <2> QED BY <2>1, <2>2, <2>3, QuietKeeps DEF IInv, ShutdownOrder
<1>6. CASE Shutdown
  <2> USE <1>6 DEF Shutdown
  <2>1. TypeOK' /\ sem' <= signals'
    BY DEF IInv, TypeOK
  <2>2. ShutdownOrder'
    BY DEF IInv, TypeOK, ShutdownOrder, ServedInline, Drained, SingleThreaded, Serving
  <2>3. (SingleThreaded => acc' # "drain")
    BY DEF IInv, ServedInline, SingleThreaded
  <2> QED BY <2>1, <2>2, <2>3, QuietKeeps DEF IInv, ShutdownOrder
<1>7. CASE JoinCloses
  <2> USE <1>7 DEF JoinCloses
  <2>1. TypeOK' /\ sem' <= signals'
    BY DEF IInv, TypeOK
  <2>2. ShutdownOrder'
    BY DEF IInv, TypeOK, ShutdownOrder, ServedInline, Drained, SingleThreaded, Serving
  <2>3. (SingleThreaded => acc' # "drain")
    BY DEF IInv, ServedInline, SingleThreaded
  <2> QED BY <2>1, <2>2, <2>3, QuietKeeps DEF IInv, ShutdownOrder
<1>8. CASE JoinStopsPool
  <2> USE <1>8 DEF JoinStopsPool
  <2>1. TypeOK' /\ sem' <= signals'
    BY DEF IInv, TypeOK
  <2>2. ShutdownOrder'
    BY DEF IInv, TypeOK, ShutdownOrder, ServedInline, Drained, SingleThreaded, Serving
  <2>3. (SingleThreaded => acc' # "drain")
    BY DEF IInv, ServedInline, SingleThreaded
  <2> QED BY <2>1, <2>2, <2>3, QuietKeeps DEF IInv, ShutdownOrder
<1>9. CASE JoinDrained
  <2> USE <1>9 DEF JoinDrained
  <2>1. TypeOK' /\ sem' <= signals'
    BY DEF IInv, TypeOK
  <2>2. ShutdownOrder'
    BY DEF IInv, TypeOK, ShutdownOrder, ServedInline, Drained, SingleThreaded, Serving
  <2>3. (SingleThreaded => acc' # "drain")
    BY DEF IInv, ServedInline, SingleThreaded
  <2> QED BY <2>1, <2>2, <2>3, QuietKeeps DEF IInv, ShutdownOrder
<1> QED BY <1>1, <1>2, <1>3, <1>4, <1>5, <1>6, <1>7, <1>8, <1>9 DEF MainThread

(* A signal that ends no connection.                                       *)
LEMMA SignalKeeps == ASSUME IInv, SignalMain \/ SignalAcceptor \/ SignalElsewhere PROVE IInv'
<1> USE SizesAssumption DEF options, signalled, server, session, clients
<1>1. CASE SignalMain
  <2> USE <1>1 DEF SignalMain, Signalled, on_term
  <2>1. TypeOK' /\ sem' <= signals'
    BY DEF IInv, TypeOK
  <2>2. ShutdownOrder'
    BY DEF IInv, TypeOK, ShutdownOrder, ServedInline, Drained, SingleThreaded, Serving
  <2>3. (SingleThreaded => acc' # "drain")
    BY DEF IInv, ServedInline, SingleThreaded
  <2> QED BY <2>1, <2>2, <2>3, QuietKeeps DEF IInv, ShutdownOrder
<1>2. CASE SignalAcceptor
  <2> USE <1>2 DEF SignalAcceptor, Signalled, on_term
  <2>1. TypeOK' /\ sem' <= signals'
    BY DEF IInv, TypeOK
  <2>2. ShutdownOrder'
    BY DEF IInv, TypeOK, ShutdownOrder, ServedInline, Drained, SingleThreaded, Serving
  <2>3. (SingleThreaded => acc' # "drain")
    BY DEF IInv, ServedInline, SingleThreaded
  <2> QED BY <2>1, <2>2, <2>3, QuietKeeps DEF IInv, ShutdownOrder
<1>3. CASE SignalElsewhere
  <2> USE <1>3 DEF SignalElsewhere, Signalled, on_term
  <2>1. TypeOK' /\ sem' <= signals'
    BY DEF IInv, TypeOK
  <2>2. ShutdownOrder'
    BY DEF IInv, TypeOK, ShutdownOrder, ServedInline, Drained, SingleThreaded, Serving
  <2>3. (SingleThreaded => acc' # "drain")
    BY DEF IInv, ServedInline, SingleThreaded
  <2> QED BY <2>1, <2>2, <2>3, QuietKeeps DEF IInv, ShutdownOrder
<1> QED BY <1>1, <1>2, <1>3

(* The acceptor, between two connections.                                  *)
LEMMA AcceptorLoopKeeps == ASSUME IInv, AcceptLoop \/ AcceptorEnds \/ AcceptorCleans \/ AcceptorDrained \/ AcceptFails PROVE IInv'
<1> USE SizesAssumption DEF options, signalled, server, session, clients
<1>1. CASE AcceptLoop
  <2> USE <1>1 DEF AcceptLoop
  <2>1. TypeOK' /\ sem' <= signals'
    BY DEF IInv, TypeOK
  <2>2. ShutdownOrder'
    BY DEF IInv, TypeOK, ShutdownOrder, ServedInline, Drained, SingleThreaded, Serving
  <2>3. (SingleThreaded => acc' # "drain")
    BY DEF IInv, ServedInline, SingleThreaded
  <2> QED BY <2>1, <2>2, <2>3, QuietKeeps DEF IInv, ShutdownOrder
<1>2. CASE AcceptorEnds
  <2> USE <1>2 DEF AcceptorEnds
  <2>1. TypeOK' /\ sem' <= signals'
    BY DEF IInv, TypeOK
  <2>2. ShutdownOrder'
    BY DEF IInv, TypeOK, ShutdownOrder, ServedInline, Drained, SingleThreaded, Serving
  <2>3. (SingleThreaded => acc' # "drain")
    BY DEF IInv, ServedInline, SingleThreaded
  <2> QED BY <2>1, <2>2, <2>3, QuietKeeps DEF IInv, ShutdownOrder
<1>3. CASE AcceptorCleans
  <2> USE <1>3 DEF AcceptorCleans
  <2>1. TypeOK' /\ sem' <= signals'
    BY DEF IInv, TypeOK
  <2>2. ShutdownOrder'
    BY DEF IInv, TypeOK, ShutdownOrder, ServedInline, Drained, SingleThreaded, Serving
  <2>3. (SingleThreaded => acc' # "drain")
    BY DEF IInv, ServedInline, SingleThreaded
  <2> QED BY <2>1, <2>2, <2>3, QuietKeeps DEF IInv, ShutdownOrder
<1>4. CASE AcceptorDrained
  <2> USE <1>4 DEF AcceptorDrained
  <2>1. TypeOK' /\ sem' <= signals'
    BY DEF IInv, TypeOK
  <2>2. ShutdownOrder'
    BY DEF IInv, TypeOK, ShutdownOrder, ServedInline, Drained, SingleThreaded, Serving
  <2>3. (SingleThreaded => acc' # "drain")
    BY DEF IInv, ServedInline, SingleThreaded
  <2> QED BY <2>1, <2>2, <2>3, QuietKeeps DEF IInv, ShutdownOrder
<1>5. CASE AcceptFails
  <2> USE <1>5 DEF AcceptFails
  <2>1. TypeOK' /\ sem' <= signals'
    BY DEF IInv, TypeOK
  <2>2. ShutdownOrder'
    BY DEF IInv, TypeOK, ShutdownOrder, ServedInline, Drained, SingleThreaded, Serving
  <2>3. (SingleThreaded => acc' # "drain")
    BY DEF IInv, ServedInline, SingleThreaded
  <2> QED BY <2>1, <2>2, <2>3, QuietKeeps DEF IInv, ShutdownOrder
<1> QED BY <1>1, <1>2, <1>3, <1>4, <1>5

(* The acceptor takes a connection.                                        *)
LEMMA AcceptKeeps == ASSUME IInv, NEW c \in Client, Accept(c) PROVE IInv'
<1> USE SizesAssumption DEF Accept, options, signalled, server, session, clients
<1>1. TypeOK' /\ sem' <= signals'
  BY DEF IInv, TypeOK, StorageUse
<1>2. StorageUse'
  BY DEF IInv, TypeOK, StorageUse
<1>3. TasksQueued'
  BY DEF IInv, TypeOK, TasksQueued, AcceptedHeld
<1>4. AcceptedHeld'
  BY DEF IInv, TypeOK, AcceptedHeld, TasksQueued
<1>5. ServedInline'
  BY DEF IInv, TypeOK, ServedInline, SingleThreaded, Serving, TasksQueued
<1>6. ShutdownOrder'
  BY DEF IInv, TypeOK, ShutdownOrder, ServedInline, Drained, SingleThreaded, Serving
<1> QED BY <1>1, <1>2, <1>3, <1>4, <1>5, <1>6 DEF IInv

(* st_blocking serves it.                                                  *)
LEMMA ServeInlineKeeps == ASSUME IInv, ServeInline PROVE IInv'
<1> USE SizesAssumption DEF ServeInline, options, signalled, server, session, clients
<1>1. TypeOK' /\ sem' <= signals'
  BY ZenonT(30) DEF IInv, TypeOK, StorageUse
<1>2. StorageUse'
  BY DEF IInv, TypeOK, StorageUse, AcceptedHeld
<1>3. TasksQueued'
  BY DEF IInv, TypeOK, TasksQueued, AcceptedHeld
<1>4. AcceptedHeld'
  BY DEF IInv, TypeOK, AcceptedHeld, TasksQueued
<1>5. ServedInline'
  BY DEF IInv, TypeOK, ServedInline, SingleThreaded, Serving, TasksQueued
<1>6. ShutdownOrder'
  BY DEF IInv, TypeOK, ShutdownOrder, ServedInline, Drained, SingleThreaded, Serving
<1> QED BY <1>1, <1>2, <1>3, <1>4, <1>5, <1>6 DEF IInv

(* mt_blocking hands it to the pool, or closes it.                         *)
LEMMA DispatchKeeps == ASSUME IInv, Dispatch PROVE IInv'
<1> USE SizesAssumption DEF Dispatch, DispatchOr, options, signalled, server, session,
        clients
<1>0. /\ got \in Client /\ conn[got] = "accepted" /\ tasks \in Seq(Client)
      /\ conn' = [conn EXCEPT ![got] = conn'[got]] /\ conn'[got] \in {"queued", "closed"}
  BY DEF IInv, TypeOK, AcceptedHeld
<1>1. TypeOK' /\ sem' <= signals'
  <2>1. tasks' \in Seq(Client) /\ Len(tasks') <= QueueMax
    BY <1>0 DEF IInv, TypeOK, PoolAccepts
  <2> QED BY <1>0, <2>1 DEF IInv, TypeOK
<1>2. StorageUse'
  BY <1>0 DEF IInv, TypeOK, StorageUse
<1>3. TasksQueued'
  <2>1. CASE PoolAccepts
    <3>1. Len(tasks') = Len(tasks) + 1 /\ tasks'[Len(tasks) + 1] = got
      BY <2>1, <1>0
    <3>2. \A i \in 1..Len(tasks) : tasks'[i] = tasks[i] /\ tasks[i] \in Client /\ tasks[i] # got
      BY <2>1, <1>0 DEF IInv, TasksQueued
    <3>3. conn'[got] = "queued" /\ \A c \in Client : c # got => conn'[c] = conn[c]
      BY <2>1, <1>0 DEF IInv, TypeOK
    <3>4. Len(tasks) \in Nat
      BY <1>0
    <3>5. \A c \in Client : conn'[c] = "queued" => \E i \in 1..Len(tasks') : tasks'[i] = c
      BY <3>1, <3>2, <3>3, <3>4 DEF IInv, TasksQueued
    <3>6. /\ \A i \in 1..Len(tasks') : conn'[tasks'[i]] = "queued"
          /\ \A i, j \in 1..Len(tasks') : tasks'[i] = tasks'[j] => i = j
      BY <3>1, <3>2, <3>3, <3>4 DEF IInv, TasksQueued
    <3> QED BY <3>5, <3>6 DEF TasksQueued
  <2>2. CASE ~PoolAccepts
    BY <2>2, <1>0 DEF IInv, TypeOK, TasksQueued
  <2> QED BY <2>1, <2>2
<1>4. AcceptedHeld'
  BY <1>0 DEF IInv, TypeOK, AcceptedHeld
<1>5. ServedInline'
  BY DEF IInv, ServedInline, SingleThreaded
<1>6. ShutdownOrder'
  BY DEF IInv, TypeOK, ShutdownOrder, SingleThreaded
<1> QED BY <1>1, <1>2, <1>3, <1>4, <1>5, <1>6 DEF IInv

(* A thread of the pool takes the first task.                              *)
LEMMA PoolTakesKeeps == ASSUME IInv, PoolTakes PROVE IInv'
<1> USE SizesAssumption DEF PoolTakes, options, signalled, server, session, clients
<1> DEFINE h == Head(tasks)
<1>0. /\ tasks \in Seq(Client) /\ Len(tasks) \in Nat \ {0} /\ h = tasks[1]
      /\ h \in Client /\ conn[h] = "queued"
      /\ Len(tasks') = Len(tasks) - 1
      /\ \A i \in 1..Len(tasks') : tasks'[i] = tasks[i + 1]
  BY DEF IInv, TypeOK, TasksQueued
<1>1. TypeOK' /\ sem' <= signals'
  BY <1>0 DEF IInv, TypeOK
<1>2. StorageUse'
  BY <1>0 DEF IInv, TypeOK, StorageUse
<1>3. TasksQueued'
  <2>1. /\ conn'[h] = "read" /\ \A c \in Client : c # h => conn'[c] = conn[c]
        /\ \A i \in 2..Len(tasks) : tasks[i] # h /\ tasks[i] \in Client
    BY <1>0 DEF IInv, TypeOK, TasksQueued
  <2>2. /\ \A i \in 1..Len(tasks') : conn'[tasks'[i]] = "queued"
        /\ \A i, j \in 1..Len(tasks') : tasks'[i] = tasks'[j] => i = j
    BY <1>0, <2>1 DEF IInv, TasksQueued
  <2>3. ASSUME NEW c \in Client, conn'[c] = "queued"
        PROVE  \E i \in 1..Len(tasks') : tasks'[i] = c
    <3>1. PICK i \in 1..Len(tasks) : tasks[i] = c
      BY <2>1, <2>3 DEF IInv, TasksQueued
    <3>2. i - 1 \in 1..Len(tasks') /\ tasks'[i - 1] = c
      BY <1>0, <2>1, <2>3, <3>1
    <3> QED BY <3>2
  <2> QED BY <2>2, <2>3 DEF TasksQueued
<1>4. AcceptedHeld'
  BY <1>0 DEF IInv, TypeOK, AcceptedHeld
<1>5. ServedInline'
  BY <1>0 DEF IInv, ServedInline, SingleThreaded
<1>6. ShutdownOrder'
  BY <1>0 DEF IInv, TypeOK, ShutdownOrder, Drained, SingleThreaded
<1> QED BY <1>1, <1>2, <1>3, <1>4, <1>5, <1>6 DEF IInv

(* A connection ends: by itself, or because a signal interrupts it.        *)
LEMMA CloseKeeps ==
  ASSUME IInv, NEW c \in Client, ReadEnds(c) \/ Throws(c) \/ SignalConnection(c) PROVE IInv'
<1> USE SizesAssumption DEF options, signalled, server, session, clients
<1>1. CASE ReadEnds(c)
  <2> USE <1>1 DEF ReadEnds, Close
  <2>1. TypeOK' /\ sem' <= signals'
    BY DEF IInv, TypeOK, StorageUse
  <2>2. StorageUse'
    BY DEF IInv, TypeOK, StorageUse
  <2>3. TasksQueued'
    BY DEF IInv, TypeOK, TasksQueued
  <2>4. AcceptedHeld'
    BY DEF IInv, TypeOK, AcceptedHeld, ServedInline, ShutdownOrder, SingleThreaded, Serving
  <2>5. ServedInline'
    BY DEF IInv, TypeOK, ServedInline, SingleThreaded, Serving
  <2>6. ShutdownOrder'
    BY DEF IInv, TypeOK, ShutdownOrder, ServedInline, Drained, SingleThreaded, Serving
  <2> QED BY <2>1, <2>2, <2>3, <2>4, <2>5, <2>6 DEF IInv
<1>2. CASE Throws(c)
  <2> USE <1>2 DEF Throws, Close
  <2>1. TypeOK' /\ sem' <= signals'
    BY DEF IInv, TypeOK, StorageUse
  <2>2. StorageUse'
    BY DEF IInv, TypeOK, StorageUse
  <2>3. TasksQueued'
    BY DEF IInv, TypeOK, TasksQueued
  <2>4. AcceptedHeld'
    BY DEF IInv, TypeOK, AcceptedHeld, ServedInline, ShutdownOrder, SingleThreaded, Serving
  <2>5. ServedInline'
    BY DEF IInv, TypeOK, ServedInline, SingleThreaded, Serving
  <2>6. ShutdownOrder'
    BY DEF IInv, TypeOK, ShutdownOrder, ServedInline, Drained, SingleThreaded, Serving
  <2> QED BY <2>1, <2>2, <2>3, <2>4, <2>5, <2>6 DEF IInv
<1>3. CASE SignalConnection(c)
  <2> USE <1>3 DEF SignalConnection, Signalled, on_term, Close
  <2>1. TypeOK' /\ sem' <= signals'
    BY DEF IInv, TypeOK, StorageUse
  <2>2. StorageUse'
    BY DEF IInv, TypeOK, StorageUse
  <2>3. TasksQueued'
    BY DEF IInv, TypeOK, TasksQueued
  <2>4. AcceptedHeld'
    BY DEF IInv, TypeOK, AcceptedHeld, ServedInline, ShutdownOrder, SingleThreaded, Serving
  <2>5. ServedInline'
    BY DEF IInv, TypeOK, ServedInline, SingleThreaded, Serving
  <2>6. ShutdownOrder'
    BY DEF IInv, TypeOK, ShutdownOrder, ServedInline, Drained, SingleThreaded, Serving
  <2> QED BY <2>1, <2>2, <2>3, <2>4, <2>5, <2>6 DEF IInv
<1> QED BY <1>1, <1>2, <1>3

(* A connection is served.                                                 *)
LEMMA WorksKeeps ==
  ASSUME IInv, NEW c \in Client, Works(c) PROVE IInv'
<1> USE SizesAssumption DEF options, signalled, server, session, clients
<1>1. CASE \E k \in 0..MaxBatch, more \in BOOLEAN : Read(c, k, more)
  <2> USE <1>1 DEF Read
  <2>1. TypeOK' /\ sem' <= signals'
    BY DEF IInv, TypeOK, StorageUse
  <2>2. StorageUse'
    BY DEF IInv, TypeOK, StorageUse
  <2>3. TasksQueued'
    BY DEF IInv, TypeOK, TasksQueued
  <2>4. AcceptedHeld'
    BY DEF IInv, TypeOK, AcceptedHeld
  <2>5. ServedInline'
    BY DEF IInv, TypeOK, ServedInline, SingleThreaded, Serving
  <2>6. ShutdownOrder'
    BY DEF IInv, TypeOK, ShutdownOrder, ServedInline, Drained, SingleThreaded, Serving
  <2> QED BY <2>1, <2>2, <2>3, <2>4, <2>5, <2>6 DEF IInv
<1>2. CASE ReadAgain(c)
  <2> USE <1>2 DEF ReadAgain
  <2>1. TypeOK' /\ sem' <= signals'
    BY DEF IInv, TypeOK, StorageUse
  <2>2. StorageUse'
    BY DEF IInv, TypeOK, StorageUse
  <2>3. TasksQueued'
    BY DEF IInv, TypeOK, TasksQueued
  <2>4. AcceptedHeld'
    BY DEF IInv, TypeOK, AcceptedHeld
  <2>5. ServedInline'
    BY DEF IInv, TypeOK, ServedInline, SingleThreaded, Serving
  <2>6. ShutdownOrder'
    BY DEF IInv, TypeOK, ShutdownOrder, ServedInline, Drained, SingleThreaded, Serving
  <2> QED BY <2>1, <2>2, <2>3, <2>4, <2>5, <2>6 DEF IInv
<1>3. CASE Execute(c)
  <2> USE <1>3 DEF Execute, Enters
  <2>1. TypeOK' /\ sem' <= signals'
    BY DEF IInv, TypeOK, StorageUse
  <2>2. StorageUse'
    BY DEF IInv, TypeOK, StorageUse
  <2>3. TasksQueued'
    BY DEF IInv, TypeOK, TasksQueued
  <2>4. AcceptedHeld'
    BY DEF IInv, TypeOK, AcceptedHeld
  <2>5. ServedInline'
    BY DEF IInv, TypeOK, ServedInline, SingleThreaded, Serving
  <2>6. ShutdownOrder'
    BY DEF IInv, TypeOK, ShutdownOrder, ServedInline, Drained, SingleThreaded, Serving
  <2> QED BY <2>1, <2>2, <2>3, <2>4, <2>5, <2>6 DEF IInv
<1>4. CASE Executed(c)
  <2> USE <1>4 DEF Executed
  <2>1. TypeOK' /\ sem' <= signals'
    BY DEF IInv, TypeOK, StorageUse
  <2>2. StorageUse'
    BY DEF IInv, TypeOK, StorageUse
  <2>3. TasksQueued'
    BY DEF IInv, TypeOK, TasksQueued
  <2>4. AcceptedHeld'
    BY DEF IInv, TypeOK, AcceptedHeld
  <2>5. ServedInline'
    BY DEF IInv, TypeOK, ServedInline, SingleThreaded, Serving
  <2>6. ShutdownOrder'
    BY DEF IInv, TypeOK, ShutdownOrder, ServedInline, Drained, SingleThreaded, Serving
  <2> QED BY <2>1, <2>2, <2>3, <2>4, <2>5, <2>6 DEF IInv
<1>5. CASE Reply(c)
  <2> USE <1>5 DEF Reply
  <2>1. TypeOK' /\ sem' <= signals'
    BY DEF IInv, TypeOK, StorageUse
  <2>2. StorageUse'
    BY DEF IInv, TypeOK, StorageUse
  <2>3. TasksQueued'
    BY DEF IInv, TypeOK, TasksQueued
  <2>4. AcceptedHeld'
    BY DEF IInv, TypeOK, AcceptedHeld
  <2>5. ServedInline'
    BY DEF IInv, TypeOK, ServedInline, SingleThreaded, Serving
  <2>6. ShutdownOrder'
    BY DEF IInv, TypeOK, ShutdownOrder, ServedInline, Drained, SingleThreaded, Serving
  <2> QED BY <2>1, <2>2, <2>3, <2>4, <2>5, <2>6 DEF IInv
<1> QED BY <1>1, <1>2, <1>3, <1>4, <1>5, CloseKeeps DEF Works

(* The clients.                                                            *)
LEMMA ClientKeeps ==
  ASSUME IInv, NEW c \in Client, ClientStep(c) PROVE IInv'
<1> USE SizesAssumption DEF options, signalled, server, session, clients
<1>1. CASE Connect(c)
  <2> USE <1>1 DEF Connect
  <2>1. TypeOK' /\ sem' <= signals'
    BY DEF IInv, TypeOK, StorageUse
  <2>2. StorageUse'
    BY DEF IInv, TypeOK, StorageUse
  <2>3. TasksQueued'
    BY DEF IInv, TypeOK, TasksQueued
  <2>4. AcceptedHeld'
    BY DEF IInv, TypeOK, AcceptedHeld
  <2>5. ServedInline'
    BY DEF IInv, TypeOK, ServedInline, SingleThreaded, Serving
  <2>6. ShutdownOrder'
    BY DEF IInv, TypeOK, ShutdownOrder, ServedInline, Drained, SingleThreaded, Serving
  <2> QED BY <2>1, <2>2, <2>3, <2>4, <2>5, <2>6 DEF IInv
<1>2. CASE Send(c)
  <2> USE <1>2 DEF Send
  <2>1. TypeOK' /\ sem' <= signals'
    BY DEF IInv, TypeOK, StorageUse
  <2>2. StorageUse'
    BY DEF IInv, TypeOK, StorageUse
  <2>3. TasksQueued'
    BY DEF IInv, TypeOK, TasksQueued
  <2>4. AcceptedHeld'
    BY DEF IInv, TypeOK, AcceptedHeld
  <2>5. ServedInline'
    BY DEF IInv, TypeOK, ServedInline, SingleThreaded, Serving
  <2>6. ShutdownOrder'
    BY DEF IInv, TypeOK, ShutdownOrder, ServedInline, Drained, SingleThreaded, Serving
  <2> QED BY <2>1, <2>2, <2>3, <2>4, <2>5, <2>6 DEF IInv
<1>3. CASE Stall(c)
  <2> USE <1>3 DEF Stall
  <2>1. TypeOK' /\ sem' <= signals'
    BY DEF IInv, TypeOK, StorageUse
  <2>2. StorageUse'
    BY DEF IInv, TypeOK, StorageUse
  <2>3. TasksQueued'
    BY DEF IInv, TypeOK, TasksQueued
  <2>4. AcceptedHeld'
    BY DEF IInv, TypeOK, AcceptedHeld
  <2>5. ServedInline'
    BY DEF IInv, TypeOK, ServedInline, SingleThreaded, Serving
  <2>6. ShutdownOrder'
    BY DEF IInv, TypeOK, ShutdownOrder, ServedInline, Drained, SingleThreaded, Serving
  <2> QED BY <2>1, <2>2, <2>3, <2>4, <2>5, <2>6 DEF IInv
<1> QED BY <1>1, <1>2, <1>3 DEF ClientStep

(* The invariant is inductive, and so holds throughout.                    *)
LEMMA NextIInv == IInv /\ [Next]_vars => IInv'
<1> SUFFICES ASSUME IInv, [Next]_vars PROVE IInv'
  OBVIOUS
<1>1. CASE Acceptor
  BY <1>1, AcceptorLoopKeeps, AcceptKeeps, ServeInlineKeeps, DispatchKeeps DEF Acceptor
<1>2. CASE \E c \in Client : Works(c) \/ Throws(c) \/ ClientStep(c) \/ SignalConnection(c)
  BY <1>2, WorksKeeps, CloseKeeps, ClientKeeps
<1>3. CASE UNCHANGED vars
  <2>1. TypeOK' /\ sem' <= signals'
    BY <1>3 DEF IInv, TypeOK, vars, options, signalled, server, session, clients
  <2>2. ShutdownOrder' /\ (SingleThreaded => acc' # "drain")
    BY <1>3 DEF IInv, ShutdownOrder, ServedInline, SingleThreaded, Serving, Drained, vars,
          options, server, session
  <2> QED BY <1>3, <2>1, <2>2, QuietKeeps DEF IInv, vars, server, session
<1> QED BY <1>1, <1>2, <1>3, MainKeeps, SignalKeeps, PoolTakesKeeps DEF Next

(* The whole process keeps the invariant above: who is in the storage, who *)
(* owns each accepted connection, and how far the shutdown has got.        *)
THEOREM Inductive == Spec => []IInv
BY InitIInv, NextIInv, PTL DEF Spec

(* Every variable keeps its type and the pool's queue its limit, for any   *)
(* number of clients, workers and signals.                                 *)
THEOREM TypeCorrect == Spec => []TypeOK
<1>1. IInv => TypeOK
  BY DEF IInv
<1> QED BY <1>1, Inductive, PTL

(* When main returns nothing of its server is left: the acceptor has ended *)
(* after the pool was drained, and main has waited for the acceptor.       *)
THEOREM ExitCorrect == Spec => []ExitClean
<1>1. IInv => ExitClean
  <2> SUFFICES ASSUME IInv, main = "exit" PROVE ExitClean
    BY DEF ExitClean
  <2>1. acc \in {"none", "done"} /\ listener \in {"none", "closed"} /\ Drained
    BY DEF IInv, ShutdownOrder
  <2>2. \A c \in Client : conn[c] \in {"none", "backlog", "closed"}
    BY <2>1 DEF IInv, TypeOK, Drained, Serving, TasksQueued, AcceptedHeld
  <2>3. inside = {}
    BY <2>2 DEF IInv, StorageUse
  <2> QED BY <2>1, <2>2, <2>3 DEF ExitClean
<1> QED BY <1>1, Inductive, PTL

(* No two threads are inside the storage at once, unless the storage       *)
(* without a lock was chosen for the multi-threaded server.                *)
THEOREM StorageCorrect == Spec => []StorageExclusive
<1>1. IInv => StorageExclusive
  <2> SUFFICES ASSUME IInv, ~(network = "mt_block" /\ storage = "st_lru")
               PROVE  ~(Cardinality(inside) > 1)
    BY DEF StorageExclusive
  <2>1. \A c, d \in inside : c = d
    BY DEF IInv, TypeOK, StorageUse, ServedInline, SingleThreaded, Serving
  <2>2. CASE inside = {}
    BY <2>2, FS_EmptySet
  <2>3. CASE inside # {}
    <3>1. PICK c : inside = {c}
      BY <2>1, <2>3
    <3> QED BY <3>1, FS_Singleton
  <2> QED BY <2>2, <2>3
<1> QED BY <1>1, Inductive, PTL

-----------------------------------------------------------------------------
(* Once Stop has returned the flag is off and the socket does not listen;  *)
(* nobody turns them on again.                                             *)
Stopped ==
  /\ main \in {"shutdown", "join", "drain"} => ~running
  /\ main \in {"join", "drain"} => listener # "open"

LEMMA StoppedStays == Spec => []Stopped
<1>1. Init => Stopped
  BY DEF Init, Stopped
<1>2. Stopped /\ [Next]_vars => Stopped'
  <2> SUFFICES ASSUME Stopped, [Next]_vars PROVE Stopped'
    OBVIOUS
  <2> USE DEF Stopped, options, signalled, server, session, clients
  <2>1. CASE MainThread
    BY <2>1 DEF MainThread, Start, StartFails, Listens, CheckReason, SemWait, Stop,
       Shutdown, JoinCloses, JoinStopsPool, JoinDrained
  <2>2. CASE Acceptor
    BY <2>2 DEF Acceptor, AcceptLoop, AcceptorEnds, AcceptorCleans, AcceptorDrained,
       AcceptFails, ServeInline, Dispatch, DispatchOr, Accept
  <2>3. CASE PoolTakes
    BY <2>3 DEF PoolTakes
  <2>4. ASSUME NEW c \in Client, Works(c) \/ Throws(c) \/ ClientStep(c) PROVE Stopped'
    BY <2>4 DEF Works, Read, ReadEnds, ReadAgain, Execute, Executed, Reply, Throws,
       ClientStep, Connect, Send, Stall
  <2>5. ASSUME NEW c \in Client, SignalConnection(c) PROVE Stopped'
    BY <2>5 DEF SignalConnection, Signalled
  <2>6. CASE SignalMain \/ SignalAcceptor \/ SignalElsewhere
    BY <2>6 DEF SignalMain, SignalAcceptor, SignalElsewhere, Signalled
  <2>7. CASE UNCHANGED vars
    BY <2>7 DEF vars
  <2> QED BY <2>1, <2>2, <2>3, <2>4, <2>5, <2>6, <2>7 DEF Next
<1> QED BY <1>1, <1>2, PTL DEF Spec

(* A step after Stop accepts nothing and lets no idle connection of        *)
(* mt_blocking take a command.                                             *)
LEMMA StoppedRefuses ==
  ASSUME IInv, Stopped, [Next]_vars, main \in {"join", "drain"}, NEW c \in Client
  PROVE  Refuses(c)
<1> USE DEF options, signalled, server, session, clients
<1>1. ~running /\ listener # "open"
  BY DEF Stopped
<1>2. conn \in [Client -> {"none", "backlog", "accepted", "queued", "read", "run",
                           "store", "send", "closed"}]
  BY DEF IInv, TypeOK
<1>3. CASE MainThread
  BY <1>3 DEF MainThread, Start, StartFails, CheckReason, SemWait, Stop, Shutdown,
     JoinCloses, JoinStopsPool, JoinDrained, Refuses
<1>4. CASE Acceptor
  <2>1. acc = "got" => got \in Client /\ conn[got] = "accepted"
    BY DEF IInv, AcceptedHeld
  <2>2. CASE ServeInline \/ Dispatch
    BY <1>2, <2>1, <2>2 DEF ServeInline, Dispatch, DispatchOr, Refuses
  <2> QED
    BY <1>1, <1>4, <2>2 DEF Acceptor, AcceptLoop, AcceptorEnds, AcceptorCleans,
       AcceptorDrained, AcceptFails, Accept, Refuses
<1>5. CASE PoolTakes
  <2>1. Head(tasks) \in Client /\ conn[Head(tasks)] = "queued"
    BY <1>5 DEF PoolTakes, IInv, TypeOK, TasksQueued
  <2> QED BY <1>2, <1>5, <2>1 DEF PoolTakes, Refuses
<1>6. ASSUME NEW d \in Client, Works(d) \/ Throws(d) PROVE Refuses(c)
  <2>1. ASSUME NEW k \in 0..MaxBatch, NEW more \in BOOLEAN, Read(d, k, more)
        PROVE  Refuses(c)
    BY <1>1, <1>2, <2>1 DEF Read, GoesOn, Refuses
  <2>2. CASE ReadEnds(d) \/ Throws(d)
    BY <1>2, <2>2 DEF ReadEnds, Throws, Close, Refuses
  <2>3. CASE ReadAgain(d) \/ Execute(d) \/ Executed(d) \/ Reply(d)
    BY <1>2, <2>3 DEF ReadAgain, Execute, Executed, Reply, Refuses
  <2> QED BY <1>6, <2>1, <2>2, <2>3 DEF Works
<1>7. ASSUME NEW d \in Client, ClientStep(d) PROVE Refuses(c)
  BY <1>2, <1>7 DEF ClientStep, Connect, Send, Stall, Refuses
<1>8. ASSUME NEW d \in Client, SignalConnection(d) PROVE Refuses(c)
  BY <1>2, <1>8 DEF SignalConnection, Close, Refuses
<1>9. CASE SignalMain \/ SignalAcceptor \/ SignalElsewhere
  BY <1>9 DEF SignalMain, SignalAcceptor, SignalElsewhere, Refuses
<1>10. CASE UNCHANGED vars
  BY <1>10 DEF vars, Refuses
<1> QED BY <1>3, <1>4, <1>5, <1>6, <1>7, <1>8, <1>9, <1>10 DEF Next

(* Once Stop has returned, both blocking servers accept no connection, and *)
(* a connection of mt_blocking that waits for input without a pending      *)
(* command starts no command any more.  Nothing is said of one with a      *)
(* pending command, which completes it and takes the commands that the     *)
(* same read brings, nor of st_blocking (ServerImpl.cpp:105-106 of         *)
(* mt_blocking, 171 of st_blocking, against Server.h:35).                  *)
THEOREM StopCorrect == Spec => StopRefuses
<1>1. IInv /\ Stopped /\ [Next]_vars
        => [\A c \in Client : main \in {"join", "drain"} => Refuses(c)]_vars
  BY StoppedRefuses
<1> QED BY <1>1, Inductive, StoppedStays, PTL DEF Spec, StopRefuses
=============================================================================
