# A verification of afina

`Multithreading C++/afina` is a memcached-like caching server: a C++ program
that accepts TCP connections, parses a subset of the memcached text protocol
and runs the commands on an in-memory LRU storage. This directory holds TLA+
models of its parts, the TLC configurations that check them on small instances
and TLAPS proofs of the results that should hold for every instance.
Paths below are relative to `src/Multithreading C++/afina/`. The rest of the
repository (lecture notes, notebooks, information-retrieval homework, vendored
libraries) is not part of that program.

## 1. Inventory

| Component | Source | State it keeps | Operations |
|---|---|---|---|
| Storage interface | `include/afina/Storage.h` | - | Put, PutIfAbsent, Set, Delete, Get |
| LRU storage | `src/storage/SimpleLRU.{h,cpp}` | doubly linked list (owning `next`, raw `prev`), `_lru_tail`, index by key, `_free_size` | the five operations, destructor |
| Locked storage | `src/storage/ThreadSafeSimpleLRU.h` | one mutex | the five operations under the mutex |
| Thread pool | `include/afina/concurrency/Executor.h`, `src/concurrency/Executor.cpp` | state, task deque, `running_threads`, `sleeping_workers` | Execute, perform (worker loop), Stop |
| Commands | `src/execute/*.cpp` | the command's key(s) | Set, Add, Append, Get, Replace, Stats |
| Protocol parser | `src/protocol/Parser.{h,cpp}` | parser state, name, keys, numbers | Parse, Build, Reset |
| Blocking servers | `src/network/st_blocking`, `src/network/mt_blocking` | `running`, sockets, the pool | Start, Stop, Join, OnRun, ProcessConnection |
| Non-blocking servers | `src/network/st_nonblocking`, `src/network/mt_nonblocking` | epoll sets, connections and their pending responses | Start, Stop, Join, OnRun, DoRead, DoWrite, OnClose, OnError |
| Coroutines | `include/afina/coroutine/Engine.h`, `src/coroutine/Engine.cpp` | context list, saved stacks | start, run, yield, sched, Store, Restore |
| Logging | `src/logging/ServiceImpl.cpp` | configured loggers and appenders | Start, select, create |
| Application | `src/main.cpp` | storage, server, signal semaphore | Start, Stop |
| Allocator | `src/allocator/*` | - | unimplemented stubs |

How they interact. `main.cpp` builds a storage and a server by name and waits
for a signal; it starts the server with two acceptors and two workers and, by
default, the unlocked storage (`main.cpp:53,92`). A server owns the sockets;
each connection owns a parser and at most one command under construction; a
complete command calls the storage. `mt_blocking` runs each connection as one
task of the thread pool. `mt_nonblocking` shares connections between acceptors
and several epoll workers through one epoll set with one-shot events, and with
`Join` through the set `conns`. All connections share one storage, locked (if
at all) only for the duration of one storage call.

What is hard, and what makes each part correct:

- **LRU storage.** Ownership (`unique_ptr`) and raw pointers are rewired in five
  places, sizes are unsigned and differences signed. Correct means: one acyclic
  chain in which every node has one owner, an index that agrees with it, free
  space that is exact, evictions that take the least recently used entry and
  never the one in use, and a destructor that frees every node once.
- **Thread pool.** Idle timeouts race with new tasks, one condition variable
  serves workers and callers of `Stop(true)`. Correct means: exact counters, no
  task left without a thread, the low watermark kept, and `Stop(true)` that
  returns, after every accepted task has run.
- **Commands.** A command makes several storage calls and other connections get
  in between. Correct means: the condition of `add` and `replace` holds when
  they take effect, `get` never shows one key's value under another,
  `append` extends the value that is there.
- **Parser and connection loop.** Input is cut anywhere by the reads, requests
  are pipelined, one parser object is reused. Correct means: what is executed
  depends only on what was sent.
- **Single-threaded epoll server.** Level-triggered events, masks that are set in
  one turn and used in the next, a loop that has to drain its connections after
  Stop, and a sweep that closes connections while it walks over them. Correct
  means: no closed connection is handled, `DoWrite` always has something to
  write, clients are answered, and `Join` returns.
- **The process and the blocking servers.** A signal may reach any thread and
  interrupt whatever it waits for; main, acceptor, pool and connections wait for
  each other during shutdown. Correct means: a signal ends the process, wherever
  it strikes, nothing is left behind, and a stopped server takes no more work.
- **Multi-threaded epoll server.** Workers take events of the same set; pointers in events
  outlive a `delete`; one-shot events have to be armed again with the right
  mask; writes are partial; `Stop` and `Join` run beside everything else.
  Correct means: one worker per connection, no use after free, no byte lost or
  repeated, every request answered, and a `Join` that returns.

## 2. Modules

| Module | Models | Composes |
|---|---|---|
| `SimpleLRU` | the LRU storage, pointer by pointer | - |
| `LRUCache` | abstract specification: a cache as a sequence of entries, most recent first | - |
| `StorageOps`, `Storage` | abstract specification: the contract of `Storage.h` over a map | - |
| `LRURefinement` | the mappings from the list to `LRUCache` and to `Storage` | `SimpleLRU`, `LRUCache`, `Storage` |
| `Executor` | the thread pool | - |
| `Commands` | the commands of concurrent clients, one step per storage call | `StorageOps` |
| `Parser` | the parser's automaton | - |
| `BlockingSession` | the loop of `mt_blocking` over one connection, with Stop | `Parser` |
| `STNonblock` | the event loop, connections, sweep, Stop and Join of `st_nonblocking` | - |
| `Application` | `main.cpp` with signals, both blocking servers, the connections they serve and the storage they share | the promises of `Executor` and `BlockingSession`, and the lock of the storage, as single steps |
| `MTNonblock` | acceptors, workers, connections, Stop and Join of `mt_nonblocking` | - |
| `MC*` | values of the constants | |
| `*Proofs` | the TLAPS proofs about the module of that name | |
| `SequenceLemmas` | facts about numbers, sequences and `FlattenSeq`, proved for the others | |

`SimpleLRU` is shown to implement `LRUCache`, and through it `Storage`, until a
value first shrinks under its key (both mappings in `LRURefinement`), so that
`Commands` may use the contract in place of the list. The mapping reads the
entries off the list from head to tail; a call that evicts over several steps
takes effect at its first one, so while it runs the abstract cache is what the
call will leave, `Store` of the entries still there, and its turns are invisible.

Correspondence with the code:

- `SimpleLRU`: `head`, `tail`, `next`, `prev`, `key`, `value`, `index`, `free`
  are `_lru_head`, `_lru_tail`, the fields of `lru_node`, `_lru_index` and
  `_free_size`; `live` is the set of allocated nodes. `Put`, `PutIfAbsent`,
  `Set`, `Delete`, `Get` are one step up to an eviction loop, each turn of
  which is a step (`EvictTail`), followed by `InsertNode` or `UpdateNode`.
  `size_t` is arithmetic modulo `WORD`; the signed/unsigned comparison of lines
  69 and 98 is `AsSizeT`. The state `undefined` stands for a null dereference.
- `Executor`: each region that holds the mutex is a step. `notify_one` picks any
  waiter or, as the condition variable is shared, a caller of `Stop(true)`;
  spurious wakeups and timeouts are possible at any time (`expired`).
- `Commands`: `store` is the map inside the storage, each call of it is atomic
  (`ThreadSafeSimpleLRU.h`). `hung` is the storage call that shrinks a value
  (see finding 1): it never returns and keeps the lock. `replace` is modelled
  although no command line reaches it (`Parser.cpp:171-183`).
- `Parser`: one action per `case` of `Parse`; the record `parser` has the
  object's fields. A command word is one symbol of the input, the other symbols
  are letters, digits, the minus sign, SP, CR and LF. `flags` and `bytes` are
  taken modulo `Modulus`, with the code's own overflow test.
- `BlockingSession`: `pc` walks through the two nested loops of
  `ProcessConnection` (`mt_blocking/ServerImpl.cpp:95-175`). `read` returns any
  number of the bytes that are left, or ends (closed, failed, timed out).
  `st_blocking` runs the same loop without the test of `running`; the DoRead of
  the epoll servers cuts its input in the same way.
- `MTNonblock`: `armed` is the connection's entry in the workers' epoll set,
  `batch`/`todo` what a worker has still to handle, `ev` the mask last asked
  for. A request is good or bad and a response has `RespLen` bytes; `writev`
  takes any number of bytes of the first `BufSize` responses. `DoRead` is one
  step, because it holds the connection's mutex and nobody else uses the
  connection (`OneHandler`, which is checked). A race on `conns` is an update
  that gets lost; an erase from the set that `Join` iterates over leads to the
  state `undefined`. `run` has no initial value in the code and is arbitrary
  at the start. `late` is a history: the acceptors that started, and turned
  `run` on, after another one had taken the stop event.

- `STNonblock`: `conn` is the Connection object, `kmask` the mask epoll knows,
  `batch` and `todo` what a turn has still to handle, `rest` where the walk over
  `conns` stands. Input comes in pieces: a whole command, a line that announces
  data, the data, or a line that makes Parse or Build throw. A wait may be
  interrupted by a signal (`WaitInterrupted`): no event, and a sweep all the
  same. Only the loop's thread uses a connection, so `DoRead` and `DoWrite` are one step each.
  `DeleteConnection` inside a range-for frees the node the walk stands on: the
  walk goes on, misses connections, or the process is lost (`undefined`).
- `Application`: `main`, `acc` and `conn` are where the main thread, the acceptor
  and the threads of the connections stand; `st_block` serves inside the
  acceptor, `mt_block` through the pool's queue `tasks`. Of the pool it keeps
  what `Executor` shows (a task is refused or run, at most `MaxWorkers` at once,
  `Stop(true)` returns when all are done); of a connection what
  `BlockingSession` shows, a read that completes some commands and may leave one
  waiting for its argument (`cmd`), after which `mt_block` reads on even when
  stopped. `SignalMain`, `SignalAcceptor`, `SignalConnection` and
  `SignalElsewhere` are the thread the kernel picks for the handler. Two threads
  inside the unlocked storage are a data race (`undefined`).

## 3. Runs

| Run | Specification and bounds | Distinct states |
|---|---|---|
| `lru` | 3 keys of 1, 1, 2 bytes, values of 0, 1, 4 bytes, 5 bytes in all, 3 addresses, words of 4 bits | 27,000 |
| `lru_shrink` | the same (violation) | - |
| `executor` | 3 threads, 4 tasks, 2 calls of Stop, watermarks 1 and 3, queue of 2 | 137,000 |
| `commands_safety` | 2 clients, 2 keys, 3 arguments, one of them too large | 544,000 |
| `session` | up to 2 pipelined requests of 10 kinds, reads of 1 to 8 bytes, numbers of 4 bits | 231,000 |
| `session_protocol` | the same with 1 request (violation) | - |
| `mt_safety` | 2 acceptors, 1 worker, 1 connection, 2 requests, good and bad, responses of 2 bytes, failing `epoll_ctl` | 1,089,000 |
| `mt_serving` | 1 acceptor, 2 workers, 1 connection, 2 requests, good and bad, responses of 2 bytes, 2 of them per write, no Stop | 31,000 |
| `mt_join` | 1 worker, 1 silent client (violation) | - |
| `st_epoll` | 2 clients, one of them sends 3 pieces, responses of 2 bytes, 2 of them per write, a buffer of 2, failing `epoll_ctl`, interrupted waits | 417,000 |
| `st_answered` | 2 clients, one piece each (violation) | - |
| `application` | both servers, both storages, 2 clients that send without end, 2 pool threads, a queue of 1, 2 signals | 328,000 |

What the passing runs show:

- `lru`: no pointer dangles, each node has one owner, `prev` mirrors `next`, the
  index and the list agree (`ListSound`), the free space is exact
  (`ChainAndSpace`), eviction never runs out of nodes nor takes the node in use,
  for values that do not shrink (`EvictionSafe`), the destructor never destroys
  a chain recursively (`DestructorFlat`). As long as no value has shrunk, the
  list is call by call an LRU cache (`ImplementsLRU`), keeps the contract of
  `Storage.h` (`ImplementsStorage`), and every call returns (`CallReturns`).
- `executor`: exact counters and kept watermarks (`PoolAccounted`),
  `NoOrphanTask` and `StopMeansStopped`; every accepted task is run
  (`AcceptedTasksRun`) and every `Stop(true)` returns (`StopReturns`).
- `commands_safety`: `GetFresh` and `ConditionsKept` between any two storage
  calls of two clients.
- `session`: for every cut of the input, what is executed is a prefix of what
  was sent, each command with its own keys and data and with every number that
  fits its field (`FramingKept`); nothing stays behind in the buffer
  (`NothingLost`); Parse is never called on a complete parser (`ParserReady`); a
  command whose line has been read is executed even when the server stops
  (`CommandFinished`), and between two commands a stop ends the connection
  (`StopCloses`). `FramingKept` is about framing only: it admits the argument
  with and without its delimiter, and says nothing about flags that are too large
  and an `exprtime` of several digits. What the protocol wants there is
  `ProtocolKept`, which the code violates (finding 4).
- `mt_safety`: `WriteHasData` (the assertion of `DoWrite`), with a client that
  closes or resets at any moment, Stop and Join. `RepeatsBounded` says exactly what
  becomes of the command that `DoRead` leaves behind when the server stops
  (`Connection.cpp:98`): it is repeated only if an acceptor starts after the stop
  and turns `run` on again (`ServerImpl.cpp:173`), at most once for each such
  acceptor. So with the two acceptors of `main.cpp:92` a command can run twice,
  once before and once after the late start: the stronger `ExecutedOnce` fails
  with two acceptors, and is proved for as long as `late` is empty.
- `mt_serving`: two workers never handle the connection at once (`OneHandler`),
  none has it, nor can be given it, once it is deleted (`NoUseAfterFree`), and the
  cursor agrees with the bytes the kernel has taken (`CursorExact`), with a client
  that closes or resets at any moment; no wakeup is lost for a client that keeps
  its connection open (`Served`). A client that shuts down its sending end after
  the request, as `itest/network_test.pl:59` does, is outside `Served` (see below).
- `st_epoll`: the loop never touches a closed connection, whatever its earlier
  events and sweeps have closed (`NoUseAfterFree`), the assertion of `DoWrite`
  holds although the mask was set a turn before (`WriteHasData`), and Join
  returns (`JoinReturns`), with two exceptions that the property names: a walk
  over `conns` that has gone astray, and a connection that failed, whose buffer
  is full and whose client does not read, which is ready for ever.
- `application`: a signal ends the process whichever thread it strikes
  (`SignalStops`), main leaves nothing open, running or inside the storage
  (`ExitClean`), and storage calls overlap only for the unlocked storage under
  the multi-threaded server (`StorageExclusive`). `StopRefuses` is what is left
  of `Server.h:34-36`: once Stop has returned neither server accepts a
  connection, and a connection of `mt_block` that waits for input without a
  command begun takes none. It does not say that no command is taken any more: a
  connection of `mt_block` that waits for an argument reads on, completes that
  command and takes the ones that the same read brings after it
  (`mt_blocking/ServerImpl.cpp:105-106`), and `st_block` goes on for as long as
  its client sends. `SignalStops` names what the code cannot withstand: a
  client that sends for ever, and a thread stuck in `send`, which has no
  timeout, with a client that does not read.

Findings (the runs that end in a violation, each of one documented promise):

1. `lru_shrink`: a Put or Set that shrinks the value of a stored key compares a
   negative difference as an unsigned number, evicts everything, the key's own
   node included, and follows a null pointer (`SimpleLRU.cpp:69,98`).
2. `mt_join`: after Stop, a worker stays in its loop as long as a connection is
   in `conns`, and an idle connection stays there for ever: Join does not return
   (`Worker.cpp:74`). The model contains other ways to the same end, which this
   run does not get to: `OnClose`/`OnError` called under the connection's own
   mutex (`Connection.cpp:144,167`), which already the last response of a stopped
   server leads to; a late acceptor that turns `run` on again while the other one
   goes back to an epoll without entries (`ServerImpl.cpp:173`); an unlocked
   insertion into `conns` (223); a `delete` before the erasure of the pointer (34).
3. `st_answered`: the sweep closes every connection without a command or a
   response, the one just accepted too, before its first command is read
   (`st_nonblocking/ServerImpl.cpp:196-206`); `itest/network_test.pl:88` expects
   an answer.
4. `session_protocol`: the argument of every storing command is stored with the
   delimiter of its data block (`mt_blocking/ServerImpl.cpp:117`), which
   `Parser.h:86-87` excludes, so that `get` sends two bytes more than
   `itest/network_test.pl:90` expects. `ProtocolKept` has four named parts, and
   TLC stops at the one that fails first (`ArgumentIsBlock`); the others fail too,
   each on its own: flags that wrap to a larger number pass the test `f < flags`
   of `Parser.cpp:87` and the command runs with others than were sent
   (`FlagsAsSent`); digits of `exprtime` after the first are added up
   (`ExprTimeAsSent`, `Parser.cpp:112-124`); and a data block of zero bytes, which
   `Parser.h:87-88` allows, costs the client its connection, as its delimiter is
   parsed as a command (`RefusedForCause`, `mt_blocking/ServerImpl.cpp:116`).

Seen while modelling and contained in the models, without a run of their own:
append is a Get followed by a Put, so that what another connection stores in
between is overwritten and an evicted key comes back (`Append.cpp:12-18`); the
command left behind by a stop that runs twice (`RepeatsBounded` above); both
epoll servers close the connection of a client that shuts down its sending end
before its request is handled, although `itest/network_test.pl:59-67` does so and
reads on (`mt_nonblocking/Worker.cpp:93`); a stopped `st_blocking` goes on taking
commands (`st_blocking/ServerImpl.cpp:171`, against `Server.h:35`); the default
storage has no lock also under the multi-threaded servers (`main.cpp:53`); `Set`
answers STORED also when the storage refuses (`Set.cpp:12`); the overflow test of
`bytes` (`Parser.cpp:135`) is the one of `flags`; `gets` and `prepend` pass Parse
and are refused by Build.

Why the bounds are enough. In the LRU runs three keys give a head, a middle and
a tail, the sizes make each insertion evict none, one or all entries, and one
pair exactly fills or exceeds the storage. In the pool three threads allow one
to retire, one to take its task and one to stop them; a queue of two gets full.
Two clients suffice for commands, whose steps depend on one other writer. Two
pipelined requests show every leak from one into the next; eight bytes hold the
end of one request and the whole of another, and 16 as the width puts 12, 16 and
20 on either side of the overflow test. One connection with two workers covers
the sharing of a connection, since connections do not interact except through
`conns`; two acceptors are what it takes for one to start after the stop, and two
requests for one to be repeated: a single worker is enough for that. In `STNonblock` a connection survives the sweep
only if the walk misses it, which takes a second connection; three pieces are a command that is answered,
one that fails and one that fills the buffer. In `Application` two connections
meet in the storage, one fills the queue while the other is refused, and of two
signals one interrupts a connection while the other stops main; clients send
without a bound, since input is only there or not. Bounds that cut behaviour are
named constants: `MaxReq`, `BufSize`, `MaxEvents`, `MaxQueue`, `MaxSend`,
`ClientBuf`, `MaxBatch`, `MaxSignals`, and the finite sets of threads, tasks and
addresses.

Deadlock is checked except where the system may stop: after Join
(`MTNonblock`, `STNonblock`), after main has returned (`Application`) and when a
connection has been closed (`BlockingSession`).
Symmetry is used only in runs without temporal properties, except that the
action properties of `Commands` are symmetric in the clients.

Fairness.

- `SimpleLRU`: WF on a call in progress; the calling thread runs on.
- `Executor`: WF on each worker (tasks end, waits time out) and on a caller of
  Stop that has been notified. Nobody has to submit or stop.
- `BlockingSession`: WF on the thread of the connection; each read returns, at
  the latest with the receive timeout (60 s by default, `Server.h:31`).
- `STNonblock`: WF on the loop's thread and on the thread in Stop and Join; SF on
  a write that epoll has invited, which goes through now and then, and on a wait
  that returns events, as signals do not interrupt every wait. Whether epoll ever
  finds a connection writable is up to its client.
- `Application`: WF on main, the acceptor, the pool and each connection's thread,
  whose read returns at the latest with the receive timeout. No client has to
  send or to read.
- `MTNonblock`: WF on each acceptor, worker and the thread in Join. `SpecServing`
  adds SF for the kernel: epoll does not pass over a ready connection for ever,
  and a client that reads lets a write through now and then. `mt_join` uses the
  first part only: the counterexample is not a thread that stands still.

## 4. Proofs

TLAPS checks these for every value of the constants that satisfies the named
ASSUMEs; the assumptions say that allocation and thread creation do not fail,
that lengths are natural numbers, that `WORD` exceeds twice the storage's size,
that a client is not one of the server's own names (`NamesAssumption` of
`STNonblock`), that the acceptors of `MTNonblock` are finitely
many, and that requests are well-formed lines (`RequestAssumption` of
`BlockingSession`: no delimiter inside a key, digits in the numbers, and a data
block whose size fits two digits and its field).

- `SimpleLRUProofs`: `TypeCorrect` (the free space never wraps),
  `ChainAndSpaceCorrect`, `ListCorrect`, `EvictionCorrect`,
  `DestructorCorrect`. The inductive invariant is `TypeOK`,
  `ChainAndSpace`, `NodesFilled`, `IndexMatchesList`, `CallInProgress`. The
  difficulty is a linked list without recursion: `ChainAndSpace` says that there
  is an order, a bijection from `1..n` to the nodes that `next` and `prev`
  follow, and a prefix sum of sizes along it. Each list operation has a lemma
  that gives the new order (`MoveToHeadListed`, `DeleteNodeListed`,
  `InsertNodeListed`, `UpdateNodeListed`), and the other facts follow from it.
  `CallInProgress` carries through an eviction loop what the call computed
  before it: without it the update's iterator could have been freed.
  `ImplementsLRUCorrect` and `ImplementsStorageCorrect` are the refinements. The
  new order that each list operation yields (`Forward`, `Closed`, `Prepended`)
  gives the entries after it, which are those of the abstract operation
  (`MoveEntries`, `DeleteEntries`, `InsertEntries`, `UpdateEntries`); `CallRest`
  says what the entries that a call leaves untouched take too much, so that the
  tail it evicts is one that `Store` drops (`EvictEntries`, from `FitDropsLast`).
  For `Storage`, a cache with one entry per key takes as many bytes as its map
  (`UsedIs`), and the keys it drops are an allowed eviction (`StoreMap`).
- `ExecutorProofs`: `TypeCorrect`, `AccountingCorrect`, `PoolCorrect`,
  `StopCorrect`, from `TypeOK`, `CountersExact`, `NoOrphanTask`,
  `WatermarksKept`, `AcceptedPlaced` (an accepted task is queued, held by a
  worker, or has run) and `StopProgress` (what a caller of Stop may conclude
  where it stands), by cases on who holds the mutex.
- `CommandsProofs`: `TypeCorrect`, `ConditionsCorrect`, `GetCorrect`, from
  `TypeOK` and `OneKey` (all commands but get and stats have one key).
- `BlockingSessionProofs`: `ParserReadyCorrect` (a complete line stays in the
  parser only while there is a command, `IInv`), `StopClosesCorrect` (a
  connection that waits between two commands of a stopped server is `Over`),
  `TypeCorrect` (`Typed`, `Places`), and three results about the byte stream,
  `FramingKeptCorrect`, `NothingLostCorrect` and `RefusalsExplained`. The last one
  says in full what a refused connection comes from: a request that is not
  supported, or the command before it, whose data block was empty; so the defect
  in `RefusedForCause` is the only one of its kind. Its `Outcomes` says for each
  command what the code makes of its numbers and its delimiter, and
  `FramingKept` follows (`OutcomeFrames`). What
  the server has still to look at is `Rest`, the buffer followed by what has not
  been read, which a read does not change: so the cuts drop out of the argument.
  `Aligned` says that `Rest` is exactly the end of the encoded requests, from the
  place in the current one that the parser's state stands for (`InName`,
  `InFlags`, ..., `Filling`, `Between`: one definition per state, with what the
  fields hold by then). One lemma per state shows that a byte moves the parser
  to the next such place, an error, or the end of the line.
- `SequenceLemmas`: what those proofs need of numbers and sequences. Induction is
  stated for a set of numbers, not for a predicate, as a consequence of
  well-foundedness, and from it come what `FlattenSeq` and the recursive functions
  behind `Value` and `TotalSize` give for every input. (The flags are read modulo
  `Modulus`, digit by digit; `ShiftedModulo` of `BlockingSessionProofs` shows that
  this is the value modulo `Modulus`.)
- `MTNonblockProofs`: `TypeCorrect`, `OneHandlerCorrect`,
  `NoUseAfterFreeCorrect`, `WriteHasDataCorrect`, `CursorCorrect`, from one
  invariant about who has a connection: `OwnedOnce` (epoll, one batch or one
  handler), `BatchOnce` (one event of it in a batch), `LifeCycle` (where it is in
  its life decides who may know of it), `OutHasData` (a write is asked for only
  with a response pending, all the way from the mask to the handler) and
  `CursorExact`. `RepeatsBoundedCorrect` has an invariant of
  its own: a connection with a command that was executed but not reset is read
  again only when an acceptor is late, and each late one gives one credit
  (`StaleCredit`), while a connection holds such a command only once an acceptor
  has stopped (`StopSeen`). It needs that `Acceptor` is finite, and nothing about how
  many there are; with no late acceptor it is `ExecutedOnce`.
- `STNonblockProofs`: `TypeCorrect`, `NoUseAfterFreeCorrect`,
  `WriteHasDataCorrect`, from `Turn` (what the loop has at hand where it stands),
  `BatchOnce`, `Connected`, `Answerable` (a response has used up a piece of
  input) and `OutHasData`.
- `ApplicationProofs`: `TypeCorrect`, `ExitCorrect`, `StorageCorrect`. That main
  has returned says nothing by itself about the threads it started, so the
  inductive invariant follows the shutdown: `ShutdownOrder` (main waits for the
  acceptor, the acceptor for the pool), `AcceptedHeld` and `TasksQueued` (an
  accepted connection is in the acceptor's hands, queued once, or served),
  `ServedInline` (st_blocking serves one connection, inside its acceptor) and
  `StorageUse` (who is inside the storage), with `TypeOK` and `sem <= signals`.
  `StopCorrect` adds `Stopped`: nobody turns the flag or the listener on again. It
  says as much as `StopRefuses` does and no more.

Only model-checked: liveness under fairness (`CallReturns`, `AcceptedTasksRun`,
`StopReturns`, `Served`, `CommandFinished`, `JoinReturns`, `SignalStops`), which
with ENABLED is out of the prover's reach. The safety parts of all runs that pass,
refinements included, are proved.

## 5. Limits

- Allocation and thread creation do not fail in the models; `epoll_ctl`, reads and writes may.
- A bad request in `MTNonblock` is a command that Parse or Build refuses now and
  for ever. Errors inside numbers, after which the parser could recover in the
  middle of a line, are left out there.
- Two workers and a Stop are not in one run of `MTNonblock`, nor are two workers
  and an `epoll_ctl` that fails; the proofs of its safety properties have both,
  and any number of acceptors, workers and clients.
- `DoRead` of `MTNonblock` leaves out a failed connection whose buffer of 4096
  bytes is full, for which `read` is asked for no bytes (`Connection.cpp:42`);
  `STNonblock` has that state (`Clogged`).
- A race on `conns` of `mt_nonblocking` loses entries in the model; in C++ it is
  undefined and may do anything. Likewise an iterator used after its node has
  been freed leads to the state `undefined` or on to some of the nodes, and no
  property says more of it.
- `JoinReturns` of `STNonblock` excuses `Clogged` and `undefined`; with both left
  out, nothing is claimed of them.
- The requests of `BlockingSession` are well-formed lines; a number of data
  bytes that wraps its width, an overflow of `exprtime` and a `get` without keys
  are not among them.
- `Application` has the blocking servers only; with an epoll server main does the
  same, and `MTNonblock` and `STNonblock` have a Stop and Join of their own. It
  takes the pool and the connection as their own modules describe them, without
  a refinement in between: the pool's Stop is its call and its return there (the
  notification is `Executor`'s), and a call of the storage always ends (finding 1
  is not part of it).
- In `STNonblock`, set-up calls of OnRun that throw end the process and are left
  out; a piece of input is never split between two reads.

Not modelled:

- The coroutine engine: Store copies the saved buffer over the live stack
  (`Engine.cpp:28`), so already its first run has no defined behaviour that a
  model could follow; no server uses it.
- Logging: configuration of a vendored library from a fixed description; `create`
  and `reopen_all` are called nowhere.
- Socket helpers (one `fcntl`), the allocator and the concurrency placeholders
  (stubs), lecture material, the other courses' homework, vendored code.

## 6. Plan

Every safety property of a passing run has a proof. What would add most is
a refinement where composition is still by description: `Application` takes the
pool and the connections at their word, and could be related to `Executor` and
`BlockingSession` as `SimpleLRU` is to `Storage`.
