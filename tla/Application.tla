----------------------------- MODULE Application ----------------------------
(***************************************************************************)
(* The process with a blocking server: the main thread of src/main.cpp,    *)
(* which starts the services, waits for a signal and stops them; the       *)
(* acceptor of src/network/st_blocking, which serves its connections       *)
(* itself, or of src/network/mt_blocking, which hands them to the thread   *)
(* pool; the connections being served; and the storage they share.         *)
(*                                                                         *)
(* The pool keeps what the module Executor shows of it: a task is queued   *)
(* or refused, a queued task is run, Stop(true) returns when all have run. *)
(* A connection is served as in BlockingSession, with the bytes left out:  *)
(* what a read returns completes some commands and may leave one waiting   *)
(* for its argument.                                                       *)
(***************************************************************************)
EXTENDS Integers, Sequences, FiniteSets

CONSTANTS
  Client,      \* peers; each opens at most one connection
  MaxWorkers,  \* hight_watermark of the pool
  QueueMax,    \* max_queue_size of the pool
  MaxBatch,    \* bound: commands that one read completes
  MaxSignals   \* bound: SIGINT and SIGTERM sent to the process

ASSUME SizesAssumption ==
  /\ MaxWorkers \in Nat \ {0} /\ QueueMax \in Nat \ {0}
  /\ MaxBatch \in Nat /\ MaxSignals \in Nat

VARIABLES
  network, storage,  \* the options of the command line
  main,              \* where the main thread is
  stop_reason, sem,  \* stop_reason # 0, the value of stop_semaphore
  signals,           \* signals sent so far
  running, listener, \* the server's flag and its socket
  acc, got,          \* where the acceptor is, the connection it has accepted
  pool, tasks,       \* the state of the pool and the queue of its tasks
  conn,              \* where a connection is
  left,              \* commands of the last read still to be executed
  cmd,               \* command_to_execute at the end of what was read
  inside,            \* connections inside a call of the storage
  data, stalled      \* a client has sent something; has stopped reading

options == <<network, storage>>
signalled == <<stop_reason, sem, signals>>
server == <<running, listener, acc, got, pool, tasks>>
session == <<conn, left, cmd, inside>>
clients == <<data, stalled>>
vars == <<options, main, signalled, server, session, clients>>

(* Every variable has its type, and the queue of the pool its limit.       *)
TypeOK ==
  /\ network \in {"st_block", "mt_block"} /\ storage \in {"st_lru", "mt_lru"}
  /\ main \in {"start", "check", "sem_wait", "stop", "shutdown", "join", "drain",
               "exit", "undefined"}
  /\ stop_reason \in BOOLEAN /\ sem \in 0..MaxSignals /\ signals \in 0..MaxSignals
  /\ running \in BOOLEAN /\ listener \in {"none", "open", "shut", "closed"}
  /\ acc \in {"none", "loop", "accept", "got", "serve", "drain", "done"}
  /\ got \in Client \cup {"none"} /\ pool \in {"run", "stopping"}
  /\ tasks \in Seq(Client) /\ Len(tasks) <= QueueMax
  /\ conn \in [Client -> {"none", "backlog", "accepted", "queued", "read", "run",
                          "store", "send", "closed"}]
  /\ left \in [Client -> 0..MaxBatch] /\ cmd \in [Client -> BOOLEAN]
  /\ inside \subseteq Client
  /\ data \in [Client -> BOOLEAN] /\ stalled \in [Client -> BOOLEAN]

(* Application::Configure, and the handlers are in place.                  *)
Init ==
  /\ network \in {"st_block", "mt_block"} /\ storage \in {"st_lru", "mt_lru"}
  /\ main = "start" /\ stop_reason = FALSE /\ sem = 0 /\ signals = 0
  /\ running = FALSE /\ listener = "none" /\ acc = "none" /\ got = "none"
  /\ pool = "run" /\ tasks = <<>>
  /\ conn = [c \in Client |-> "none"] /\ left = [c \in Client |-> 0]
  /\ cmd = [c \in Client |-> FALSE] /\ inside = {}
  /\ data = [c \in Client |-> FALSE] /\ stalled = [c \in Client |-> FALSE]

SingleThreaded == network = "st_block"
Up == main \notin {"exit", "undefined"}

(* The connections that a thread is serving.                               *)
Serving == {c \in Client : conn[c] \in {"read", "run", "store", "send"}}
Drained == tasks = <<>> /\ Serving = {}

-----------------------------------------------------------------------------
(* The clients.                                                            *)

Connect(c) ==
  /\ conn[c] = "none" /\ listener = "open"
  /\ conn' = [conn EXCEPT ![c] = "backlog"]
  /\ UNCHANGED <<options, main, signalled, server, left, cmd, inside, clients>>

Send(c) ==
  /\ conn[c] \notin {"none", "closed"} /\ ~data[c]
  /\ data' = [data EXCEPT ![c] = TRUE]
  /\ UNCHANGED <<options, main, signalled, server, session, stalled>>

(* The client does not read what it is sent any more.                      *)
Stall(c) ==
  /\ conn[c] \notin {"none", "closed"} /\ ~stalled[c]
  /\ stalled' = [stalled EXCEPT ![c] = TRUE]
  /\ UNCHANGED <<options, main, signalled, server, session, data>>

-----------------------------------------------------------------------------
(* The main thread.                                                        *)

(* The server's Start: the socket listens and the acceptor has its thread. *)
Listens == running' = TRUE /\ listener' = "open" /\ acc' = "loop"

Start ==
  /\ main = "start" /\ main' = "check" /\ Listens
  /\ UNCHANGED <<options, signalled, got, pool, tasks, session, clients>>

(* socket, bind or listen fails, which ends the process.                   *)
StartFails ==
  /\ main = "start" /\ main' = "exit"
  /\ UNCHANGED <<options, signalled, server, session, clients>>

(* The loop around sem_wait.                                               *)
CheckReason ==
  /\ main = "check" /\ main' = IF stop_reason THEN "stop" ELSE "sem_wait"
  /\ UNCHANGED <<options, signalled, server, session, clients>>

SemWait ==
  /\ main = "sem_wait" /\ sem > 0
  /\ sem' = sem - 1 /\ main' = "stop"
  /\ UNCHANGED <<options, stop_reason, signals, server, session, clients>>

Stop ==
  /\ main = "stop" /\ main' = "shutdown" /\ running' = FALSE
  /\ UNCHANGED <<options, signalled, listener, acc, got, pool, tasks, session,
        clients>>

(* Mutant: the socket is left alone.                                       *)
ShutdownNothing ==
  /\ main = "shutdown" /\ main' = "join"
  /\ UNCHANGED <<options, signalled, server, session, clients>>

(* The acceptor of mt_blocking may have closed the socket already.         *)
Shutdown ==
  /\ main = "shutdown" /\ main' = "join"
  /\ listener' = IF listener = "open" THEN "shut" ELSE listener
  /\ UNCHANGED <<options, signalled, running, acc, got, pool, tasks, session, clients>>

(* Join of st_blocking.                                                    *)
JoinCloses ==
  /\ main = "join" /\ acc = "done" /\ SingleThreaded
  /\ listener' = "closed" /\ main' = "exit"
  /\ UNCHANGED <<options, signalled, running, acc, got, pool, tasks, session, clients>>

(* Join of mt_blocking stops the pool once more.                           *)
JoinStopsPool ==
  /\ main = "join" /\ acc = "done" /\ ~SingleThreaded
  /\ pool' = "stopping" /\ main' = "drain"
  /\ UNCHANGED <<options, signalled, running, listener, acc, got, tasks, session,
        clients>>

(* Storage::Stop and ServiceImpl::Stop, which follow, do nothing.          *)
JoinDrained ==
  /\ main = "drain" /\ Drained /\ main' = "exit"
  /\ UNCHANGED <<options, signalled, server, session, clients>>

MainThread ==
  Start \/ StartFails \/ CheckReason \/ SemWait \/ Stop \/ Shutdown \/ JoinCloses
    \/ JoinStopsPool \/ JoinDrained

-----------------------------------------------------------------------------
(* The acceptor: OnRun of either server.                                   *)

AcceptLoop ==
  /\ acc = "loop" /\ running /\ acc' = "accept"
  /\ UNCHANGED <<options, main, signalled, running, listener, got, pool, tasks,
        session, clients>>

AcceptorEnds ==
  /\ acc = "loop" /\ ~running /\ SingleThreaded /\ acc' = "done"
  /\ UNCHANGED <<options, main, signalled, running, listener, got, pool, tasks,
        session, clients>>

(* Cleanup on exit of mt_blocking, which closes the socket and waits for   *)
(* the pool.                                                               *)
AcceptorCleans ==
  /\ acc = "loop" /\ ~running /\ ~SingleThreaded
  /\ acc' = "drain" /\ listener' = "closed" /\ pool' = "stopping"
  /\ UNCHANGED <<options, main, signalled, running, got, tasks, session, clients>>

AcceptorDrained ==
  /\ acc = "drain" /\ Drained /\ acc' = "done"
  /\ UNCHANGED <<options, main, signalled, running, listener, got, pool, tasks,
        session, clients>>

(* accept fails on a socket that is shut down.                             *)
AcceptFails ==
  /\ acc = "accept" /\ listener # "open" /\ acc' = "loop"
  /\ UNCHANGED <<options, main, signalled, running, listener, got, pool, tasks,
        session, clients>>

Accept(c) ==
  /\ acc = "accept" /\ listener = "open" /\ conn[c] = "backlog"
  /\ acc' = "got" /\ got' = c /\ conn' = [conn EXCEPT ![c] = "accepted"]
  /\ UNCHANGED <<options, main, signalled, running, listener, pool, tasks, left, cmd,
        inside, clients>>

(* st_blocking serves the connection before it accepts another.            *)
ServeInline ==
  /\ acc = "got" /\ SingleThreaded
  /\ acc' = "serve" /\ got' = "none" /\ conn' = [conn EXCEPT ![got] = "read"]
  /\ UNCHANGED <<options, main, signalled, running, listener, pool, tasks, left, cmd,
        inside, clients>>

(* Mutant: the queue takes one task too many.                              *)
PoolAcceptsOneMore == pool = "run" /\ Len(tasks) <= QueueMax

PoolAccepts == pool = "run" /\ Len(tasks) < QueueMax

(* Executor::Execute; a connection that it refuses is dropped with reason  *)
(* how.                                                                    *)
DispatchOr(how) ==
  /\ acc = "got" /\ ~SingleThreaded /\ acc' = "loop" /\ got' = "none"
  /\ tasks' = IF PoolAccepts THEN Append(tasks, got) ELSE tasks
  /\ conn' = [conn EXCEPT ![got] = IF PoolAccepts THEN "queued" ELSE how]
  /\ UNCHANGED <<options, main, signalled, running, listener, pool, left, cmd, inside,
        clients>>

(* Mutant: the refused connection is not closed.                           *)
DispatchLeaks == DispatchOr("accepted")

Dispatch == DispatchOr("closed")

Acceptor ==
  AcceptLoop \/ AcceptorEnds \/ AcceptorCleans \/ AcceptorDrained \/ AcceptFails
    \/ ServeInline \/ Dispatch \/ \E c \in Client : Accept(c)

(* A thread of the pool takes the first task.                              *)
PoolTakes ==
  /\ tasks # <<>> /\ Cardinality(Serving) < MaxWorkers
  /\ conn' = [conn EXCEPT ![Head(tasks)] = "read"] /\ tasks' = Tail(tasks)
  /\ UNCHANGED <<options, main, signalled, running, listener, acc, got, pool, left,
        cmd, inside, clients>>

-----------------------------------------------------------------------------
(* The connections: the inner loop of OnRun, or ProcessConnection.         *)

(* The socket is closed and the state of the connection reset; its client  *)
(* does not matter any more.                                               *)
Close(c) ==
  /\ conn' = [conn EXCEPT ![c] = "closed"] /\ left' = [left EXCEPT ![c] = 0]
  /\ cmd' = [cmd EXCEPT ![c] = FALSE]
  /\ data' = [data EXCEPT ![c] = FALSE] /\ stalled' = [stalled EXCEPT ![c] = FALSE]
  /\ acc' = IF SingleThreaded THEN "loop" ELSE acc

(* read has returned; mt_blocking looks at running and goes on only to     *)
(* complete a command.                                                     *)
GoesOn(c) == SingleThreaded \/ running \/ cmd[c]

(* What was read completes k commands and leaves a command or none.        *)
Read(c, k, more) ==
  /\ conn[c] = "read" /\ data[c] /\ data' = [data EXCEPT ![c] = FALSE]
  /\ GoesOn(c) /\ (cmd[c] /\ k = 0 => more)
  /\ conn' = [conn EXCEPT ![c] = "run"]
  /\ left' = [left EXCEPT ![c] = k] /\ cmd' = [cmd EXCEPT ![c] = more]
  /\ UNCHANGED <<options, main, signalled, server, inside, stalled>>

(* End of file, an error, the receive timeout, or the server stops.        *)
ReadEnds(c) ==
  /\ conn[c] = "read" /\ Close(c)
  /\ UNCHANGED <<options, main, signalled, running, listener, got, pool, tasks, inside>>

(* The buffer is used up.                                                  *)
ReadAgain(c) ==
  /\ conn[c] = "run" /\ left[c] = 0 /\ conn' = [conn EXCEPT ![c] = "read"]
  /\ UNCHANGED <<options, main, signalled, server, left, cmd, inside, clients>>

(* Parse or Build throws, Execute throws, or send fails.                   *)
Throws(c) ==
  /\ conn[c] \in {"run", "send"} /\ Close(c)
  /\ UNCHANGED <<options, main, signalled, running, listener, got, pool, tasks, inside>>

(* Mutant: the lock is not taken.                                          *)
EntersUnlocked(c) == TRUE

(* A call of ThreadSafeSimplLRU takes its mutex, one of SimpleLRU none.    *)
Enters(c) == storage = "mt_lru" => inside = {}

(* Two threads inside SimpleLRU race: the process may be lost.             *)
Execute(c) ==
  /\ conn[c] = "run" /\ left[c] > 0 /\ Enters(c)
  /\ conn' = [conn EXCEPT ![c] = "store"] /\ inside' = inside \cup {c}
  /\ main' \in IF inside = {} THEN {main} ELSE {main, "undefined"}
  /\ UNCHANGED <<options, signalled, server, left, cmd, clients>>

Executed(c) ==
  /\ conn[c] = "store" /\ conn' = [conn EXCEPT ![c] = "send"]
  /\ inside' = inside \ {c} /\ left' = [left EXCEPT ![c] = @ - 1]
  /\ UNCHANGED <<options, main, signalled, server, cmd, clients>>

(* send blocks as long as the client does not read.                        *)
Reply(c) ==
  /\ conn[c] = "send" /\ ~stalled[c] /\ conn' = [conn EXCEPT ![c] = "run"]
  /\ UNCHANGED <<options, main, signalled, server, left, cmd, inside, clients>>

(* What the thread of a connection does in any case.                       *)
Works(c) ==
  \/ \E k \in 0..MaxBatch, more \in BOOLEAN : Read(c, k, more)
  \/ ReadEnds(c) \/ ReadAgain(c) \/ Execute(c) \/ Executed(c) \/ Reply(c)

-----------------------------------------------------------------------------
(* Mutant: the handler does not post the semaphore.                        *)
on_termSilent == stop_reason' = TRUE /\ UNCHANGED sem

on_term == stop_reason' = TRUE /\ sem' = sem + 1

Signalled == Up /\ signals < MaxSignals /\ signals' = signals + 1 /\ on_term

(* The kernel runs the handler on any thread: on the main thread it        *)
(* interrupts sem_wait, on the acceptor accept, on the thread of a         *)
(* connection read or send, which ends the connection; and none of these   *)
(* if the thread is not blocked.                                           *)
SignalMain ==
  /\ Signalled /\ main' = IF main = "sem_wait" THEN "check" ELSE main
  /\ UNCHANGED <<options, server, session, clients>>

SignalAcceptor ==
  /\ Signalled /\ acc = "accept" /\ acc' = "loop"
  /\ UNCHANGED <<options, main, running, listener, got, pool, tasks, session, clients>>

SignalConnection(c) ==
  /\ Signalled /\ conn[c] \in {"read", "send"} /\ Close(c)
  /\ UNCHANGED <<options, main, running, listener, got, pool, tasks, inside>>

SignalElsewhere ==
  /\ Signalled /\ UNCHANGED <<options, main, server, session, clients>>

ClientStep(c) == Connect(c) \/ Send(c) \/ Stall(c)

Next ==
  \/ MainThread \/ Acceptor \/ PoolTakes
  \/ \E c \in Client : Works(c) \/ Throws(c) \/ ClientStep(c) \/ SignalConnection(c)
  \/ SignalMain \/ SignalAcceptor \/ SignalElsewhere

(* Every thread runs, and a read returns at the latest with the receive    *)
(* timeout; nobody has to connect, to send, or to send a signal.           *)
Fairness ==
  /\ WF_vars(MainThread) /\ WF_vars(Acceptor) /\ WF_vars(PoolTakes)
  /\ \A c \in Client : WF_vars(Works(c))

Spec == Init /\ [][Next]_vars /\ Fairness

-----------------------------------------------------------------------------
(* When main returns, its server has let go of everything, whatever the    *)
(* signals have interrupted: the listening socket is closed, every         *)
(* connection that was accepted too, no thread is left and nobody is in    *)
(* the storage (main.cpp:96-104, Server.h:44-45).                          *)
ExitClean ==
  main = "exit" =>
    /\ listener \in {"none", "closed"} /\ acc \in {"none", "done"}
    /\ Drained /\ inside = {}
    /\ \A c \in Client : conn[c] \in {"none", "backlog", "closed"}

(* A signal ends the process, whichever thread it is delivered to and      *)
(* wherever main is between its test and sem_wait (main.cpp:119-122,       *)
(* 172-177).  That takes clients that do not send for ever and a thread    *)
(* that is not stuck in send with a client that does not read.             *)
SignalStops ==
  \/ \E c \in Client : []<><<Send(c)>>_vars
  \/ stop_reason ~> \/ ~Up
                    \/ \E c \in Client : conn[c] = "send" /\ stalled[c]

(* What a step leaves alone once Stop has returned.                        *)
Refuses(c) ==
  /\ conn[c] = "backlog" => conn'[c] = "backlog"
  /\ ~SingleThreaded /\ conn[c] = "read" /\ ~cmd[c] => conn'[c] # "run"

(* What is left of Server.h:34-36 once Stop has returned.  Both servers    *)
(* accept no connection.  One of mt_blocking that waits for input and has  *)
(* not begun a command begins none; one that holds a command whose         *)
(* argument is still to come reads on, and takes what the same read brings *)
(* after it (mt_blocking/ServerImpl.cpp:105-106; CommandFinished of        *)
(* BlockingSession).  One of st_blocking goes on for as long as its client *)
(* sends.                                                                  *)
StopRefuses ==
  [][\A c \in Client : main \in {"join", "drain"} => Refuses(c)]_vars

(* No two threads are ever inside the storage at once, except with the     *)
(* combination that main.cpp:48-75 accepts although it has no lock: the    *)
(* multi-threaded server on the default storage.                           *)
StorageExclusive ==
  Cardinality(inside) > 1 => network = "mt_block" /\ storage = "st_lru"
=============================================================================
