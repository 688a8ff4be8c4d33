----------------------------- MODULE MTNonblock -----------------------------
(***************************************************************************)
(* The epoll server of src/network/mt_nonblocking: acceptor threads        *)
(* (ServerImpl::OnRun), worker threads (Worker::OnRun), the connections    *)
(* they share, and the thread that calls Stop and Join.                    *)
(*                                                                         *)
(* Each client opens at most one connection.  A request is good (a whole   *)
(* command) or bad (an unknown or unsupported command, for which Parse or  *)
(* Build throws now and on every later call); its text is not modelled,    *)
(* and every response has RespLen bytes.  DoRead is one step: it holds the *)
(* connection's mutex, nobody else uses the connection meanwhile           *)
(* (OneHandler), and a change of run between two of its commands is the    *)
(* same as one before it with the first requests read by an earlier call.  *)
(***************************************************************************)
EXTENDS Integers, Sequences, FiniteSets

CONSTANTS
  Acceptor, Worker,  \* threads
  Client,            \* peers
  Addr,              \* addresses that `new Connection' may return
  None,              \* no address, no connection
  MaxReq,            \* bound: requests a client sends
  RespLen,           \* bytes of a response
  BufSize,           \* resp_buf_size
  MaxEvents,         \* mod_list.size(), the most events of one epoll_wait
  BadInput,          \* whether clients may send bad requests
  EpollFails         \* whether epoll_ctl may fail

ASSUME SizesAssumption ==
  /\ MaxReq \in Nat /\ RespLen \in Nat \ {0} /\ BufSize \in Nat \ {0}
  /\ MaxEvents \in Nat \ {0} /\ BadInput \in BOOLEAN /\ EpollFails \in BOOLEAN
ASSUME ThreadAssumption ==
  /\ Acceptor \cap Worker = {} /\ None \notin Client \cup Addr
  /\ IsFiniteSet(Acceptor)
(* `new' never fails.                                                      *)
ASSUME MemoryAssumption ==
  /\ IsFiniteSet(Client) /\ IsFiniteSet(Addr)
  /\ Cardinality(Client) <= Cardinality(Addr)

VARIABLES
  \* the peers and the kernel
  peer,       \* a client: not connected, connected, closed, or reset
  inq,        \* requests in the socket's receive buffer
  sent,       \* response bytes the kernel has taken for the client
  asked,      \* requests the client has sent
  armed,      \* the connection in the workers' epoll: "no", "armed", or
              \* "fired" once its EPOLLONESHOT event has been delivered
  efd,        \* _event_fd has been written
  shut,       \* _server_socket has been shut down
  \* the connection objects
  conn,       \* "none", "backlog", "new" (with an acceptor), "live", "freed"
  addr,       \* where the object is
  alive, ev,  \* its fields alive and _event.events
  nresp,      \* responses.size()
  start,      \* data_start
  executed,   \* history: commands executed
  stale,      \* command_to_execute was left behind when the server stopped
  poisoned,   \* the parser has thrown and will throw again
  buffered,   \* requests left in client_buffer
  \* the server
  run, isRunning, conns,
  busy,       \* the threads inside an insertion into conns or an erasure
  apc, aev, acur, areg,        \* an acceptor: pc, events to handle,
                               \* connection at hand, its epoll has entries
  late,       \* history: acceptors that started after one had stopped
  wpc, batch, todo, cur, nmod, \* a worker: pc, events to handle, what is
                               \* left of the current one, nmod > 0
  mpc         \* the thread that calls Stop and Join

kernel == <<peer, inq, sent, asked, armed, efd, shut>>
session == <<nresp, start, executed, stale, poisoned, buffered>>
object == <<conn, addr, alive, ev, session>>
server == <<run, isRunning, conns, busy>>
accept == <<apc, aev, acur, areg, late>>
work == <<wpc, batch, todo, cur, nmod>>
vars == <<kernel, object, server, accept, work, mpc>>

Flag == {"in", "out", "rdhup", "err"}
Request == {"good", "bad"}

(* Every variable has its type; data_start is always inside the first      *)
(* pending response (Connection.cpp:155-160).                              *)
TypeOK ==
  /\ peer \in [Client -> {"off", "up", "fin", "rst"}]
  /\ inq \in [Client -> Seq(Request)] /\ buffered \in [Client -> Seq(Request)]
  /\ sent \in [Client -> Nat] /\ asked \in [Client -> 0..MaxReq]
  /\ armed \in [Client -> {"no", "armed", "fired"}]
  /\ efd \in BOOLEAN /\ shut \in BOOLEAN
  /\ conn \in [Client -> {"none", "backlog", "new", "live", "freed"}]
  /\ addr \in [Client -> Addr \cup {None}]
  /\ alive \in [Client -> BOOLEAN] /\ ev \in [Client -> {"rd", "wr", "rdwr"}]
  /\ nresp \in [Client -> Nat] /\ executed \in [Client -> Nat]
  /\ start \in [Client -> 0..(RespLen - 1)]
  /\ stale \in [Client -> BOOLEAN] /\ poisoned \in [Client -> BOOLEAN]
  /\ run \in BOOLEAN /\ isRunning \in [Worker -> BOOLEAN]
  /\ conns \subseteq Addr /\ busy \subseteq Acceptor \cup Worker
  /\ apc \in [Acceptor -> {"start", "loop", "wait", "events", "accept",
                           "inserting", "register", "lock", "erase", "exit"}]
  /\ aev \in [Acceptor -> SUBSET {"srv", "efd"}]
  /\ acur \in [Acceptor -> Client \cup {None}]
  /\ areg \in [Acceptor -> BOOLEAN] /\ late \subseteq Acceptor
  /\ wpc \in [Worker -> {"loop", "wait", "events", "handle", "lock", "erase",
                         "stuck", "exit"}]
  /\ batch \in [Worker -> SUBSET (Client \X SUBSET Flag)]
  /\ todo \in [Worker -> SUBSET Flag]
  /\ cur \in [Worker -> Client \cup {None}]
  /\ nmod \in [Worker -> BOOLEAN]
  /\ mpc \in {"serving", "flags", "wakeup", "shutdown", "join", "joined",
              "undefined"}

(* Start has returned.  run has no initial value.                          *)
Init ==
  /\ peer = [c \in Client |-> "off"] /\ conn = [c \in Client |-> "none"]
  /\ inq = [c \in Client |-> <<>>] /\ buffered = [c \in Client |-> <<>>]
  /\ sent = [c \in Client |-> 0] /\ asked = [c \in Client |-> 0]
  /\ armed = [c \in Client |-> "no"] /\ efd = FALSE /\ shut = FALSE
  /\ addr = [c \in Client |-> None] /\ alive = [c \in Client |-> FALSE]
  /\ ev = [c \in Client |-> "rd"] /\ nresp = [c \in Client |-> 0]
  /\ start = [c \in Client |-> 0] /\ executed = [c \in Client |-> 0]
  /\ stale = [c \in Client |-> FALSE] /\ poisoned = [c \in Client |-> FALSE]
  /\ run \in BOOLEAN /\ isRunning = [w \in Worker |-> TRUE]
  /\ conns = {} /\ busy = {}
  /\ apc = [a \in Acceptor |-> "start"] /\ aev = [a \in Acceptor |-> {}]
  /\ acur = [a \in Acceptor |-> None] /\ areg = [a \in Acceptor |-> TRUE]
  /\ late = {}
  /\ wpc = [w \in Worker |-> "loop"] /\ batch = [w \in Worker |-> {}]
  /\ todo = [w \in Worker |-> {}] /\ cur = [w \in Worker |-> None]
  /\ nmod = [w \in Worker |-> FALSE]
  /\ mpc = "serving"

-----------------------------------------------------------------------------
(* The clients.                                                            *)

Connect(c) ==
  /\ peer[c] = "off" /\ ~shut
  /\ peer' = [peer EXCEPT ![c] = "up"]
  /\ conn' = [conn EXCEPT ![c] = "backlog"]
  /\ UNCHANGED <<inq, sent, asked, armed, efd, shut, addr, alive, ev, session,
        server, accept, work, mpc>>

Send(c, r) ==
  /\ peer[c] = "up" /\ asked[c] < MaxReq
  /\ conn[c] \in {"backlog", "new", "live"}
  /\ r = "bad" => BadInput
  /\ asked' = [asked EXCEPT ![c] = @ + 1]
  /\ inq' = [inq EXCEPT ![c] = Append(@, r)]
  /\ UNCHANGED <<peer, sent, armed, efd, shut, object, server, accept, work,
        mpc>>

(* The client closes its end, or its end is reset.                         *)
Leave(c, how) ==
  /\ peer[c] = "up"
  /\ peer' = [peer EXCEPT ![c] = how]
  /\ UNCHANGED <<inq, sent, asked, armed, efd, shut, object, server, accept,
        work, mpc>>

-----------------------------------------------------------------------------
(* The set of connections.  An acceptor inserts without the lock, so an    *)
(* insertion may overlap another one or an erasure; what ends while        *)
(* another is under way may leave out any of the entries.                  *)

ConnsUpdated(t, new) ==
  /\ conns' \in IF busy = {t} THEN {new} ELSE SUBSET (conns \cup new)
  /\ busy' = busy \ {t}

(* The threads that hold ServerImpl::mu, which only erasures take.         *)
Erasing ==
  {a \in Acceptor : apc[a] = "erase"} \cup {w \in Worker : wpc[w] = "erase"}

(* Mutant: the descriptor stays in the epoll set.                          *)
FreedStillArmed(c) ==
  /\ conn' = [conn EXCEPT ![c] = "freed"]
  /\ alive' = [alive EXCEPT ![c] = FALSE]
  /\ UNCHANGED armed

(* close(), delete: the object is gone, its address is free again.         *)
Freed(c) ==
  /\ conn' = [conn EXCEPT ![c] = "freed"]
  /\ armed' = [armed EXCEPT ![c] = "no"]
  /\ alive' = [alive EXCEPT ![c] = FALSE]

-----------------------------------------------------------------------------
(* ServerImpl::OnRun.                                                      *)

AcceptorStart(a) ==
  /\ apc[a] = "start"
  /\ run' = TRUE
  /\ apc' = [apc EXCEPT ![a] = "loop"]
  /\ late' = IF \E b \in Acceptor : ~areg[b] THEN late \cup {a} ELSE late
  /\ UNCHANGED <<kernel, object, isRunning, conns, busy, aev, acur, areg, work,
        mpc>>

AcceptorLoop(a) ==
  /\ apc[a] = "loop"
  /\ apc' = [apc EXCEPT ![a] = IF run THEN "wait" ELSE "exit"]
  /\ UNCHANGED <<kernel, object, server, aev, acur, areg, late, work, mpc>>

Backlog == {c \in Client : conn[c] = "backlog"}

AcceptorReady ==
  (IF Backlog # {} \/ shut THEN {"srv"} ELSE {}) \cup (IF efd THEN {"efd"} ELSE {})

(* epoll_wait has no timeout: without entries it never returns.            *)
AcceptorWake(a) ==
  /\ apc[a] = "wait" /\ areg[a] /\ AcceptorReady # {}
  /\ aev' = [aev EXCEPT ![a] = AcceptorReady]
  /\ apc' = [apc EXCEPT ![a] = "events"]
  /\ UNCHANGED <<kernel, object, server, acur, areg, late, work, mpc>>

AcceptorStopped(a) ==
  /\ apc[a] = "events" /\ "efd" \in aev[a]
  /\ run' = FALSE
  /\ areg' = [areg EXCEPT ![a] = FALSE]
  /\ aev' = [aev EXCEPT ![a] = @ \ {"efd"}]
  /\ UNCHANGED <<kernel, object, isRunning, conns, busy, apc, acur, late, work,
        mpc>>

AcceptorAccepts(a) ==
  /\ apc[a] = "events" /\ "srv" \in aev[a]
  /\ aev' = [aev EXCEPT ![a] = @ \ {"srv"}]
  /\ apc' = [apc EXCEPT ![a] = "accept"]
  /\ UNCHANGED <<kernel, object, server, acur, areg, late, work, mpc>>

AcceptorDone(a) ==
  /\ apc[a] = "events" /\ aev[a] = {}
  /\ apc' = [apc EXCEPT ![a] = "loop"]
  /\ UNCHANGED <<kernel, object, server, aev, acur, areg, late, work, mpc>>

InUse == {addr[c] : c \in {d \in Client : conn[d] \in {"new", "live"}}}

(* accept4 and new Connection, then into conns.insert.                     *)
Accept(a, c) ==
  /\ apc[a] = "accept" /\ ~shut /\ c \in Backlog
  /\ conn' = [conn EXCEPT ![c] = "new"]
  /\ \E x \in Addr \ InUse : addr' = [addr EXCEPT ![c] = x]
  /\ acur' = [acur EXCEPT ![a] = c]
  /\ apc' = [apc EXCEPT ![a] = "inserting"]
  /\ busy' = busy \cup {a}
  /\ UNCHANGED <<kernel, alive, ev, session, run, isRunning, conns, aev, areg,
        late, work, mpc>>

(* Nothing to accept, or the socket is shut down.                          *)
AcceptNone(a) ==
  /\ apc[a] = "accept" /\ (shut \/ Backlog = {})
  /\ apc' = [apc EXCEPT ![a] = "events"]
  /\ UNCHANGED <<kernel, object, server, aev, acur, areg, late, work, mpc>>

(* conns.insert returns; Connection::Start.                                *)
Inserted(a) ==
  /\ apc[a] = "inserting"
  /\ ConnsUpdated(a, conns \cup {addr[acur[a]]})
  /\ alive' = [alive EXCEPT ![acur[a]] = TRUE]
  /\ ev' = [ev EXCEPT ![acur[a]] = "rd"]
  /\ apc' = [apc EXCEPT ![a] = "register"]
  /\ UNCHANGED <<kernel, conn, addr, session, run, isRunning, aev, acur, areg,
        late, work, mpc>>

Register(a) ==
  /\ apc[a] = "register"
  /\ armed' = [armed EXCEPT ![acur[a]] = "armed"]
  /\ conn' = [conn EXCEPT ![acur[a]] = "live"]
  /\ acur' = [acur EXCEPT ![a] = None]
  /\ apc' = [apc EXCEPT ![a] = "accept"]
  /\ UNCHANGED <<peer, inq, sent, asked, efd, shut, addr, alive, ev, session,
        server, aev, areg, late, work, mpc>>

(* epoll_ctl fails: OnError, DeleteConnection.                             *)
RegisterFails(a) ==
  /\ apc[a] = "register" /\ EpollFails
  /\ Freed(acur[a])
  /\ apc' = [apc EXCEPT ![a] = "lock"]
  /\ UNCHANGED <<peer, inq, sent, asked, efd, shut, addr, ev, session, server,
        aev, acur, areg, late, work, mpc>>

AcceptorErase(a) ==
  /\ apc[a] = "lock" /\ Erasing = {}
  /\ busy' = busy \cup {a}
  /\ apc' = [apc EXCEPT ![a] = "erase"]
  /\ UNCHANGED <<kernel, object, run, isRunning, conns, aev, acur, areg, late,
        work, mpc>>

AcceptorErased(a) ==
  /\ apc[a] = "erase"
  /\ ConnsUpdated(a, conns \ {addr[acur[a]]})
  /\ acur' = [acur EXCEPT ![a] = None]
  /\ apc' = [apc EXCEPT ![a] = "accept"]
  /\ UNCHANGED <<kernel, object, run, isRunning, aev, areg, late, work, mpc>>

AcceptorStep(a) ==
  \/ AcceptorStart(a) \/ AcceptorLoop(a) \/ AcceptorWake(a) \/ AcceptorStopped(a)
  \/ AcceptorAccepts(a) \/ AcceptorDone(a) \/ (\E c \in Client : Accept(a, c))
  \/ AcceptNone(a) \/ Inserted(a) \/ Register(a) \/ RegisterFails(a)
  \/ AcceptorErase(a) \/ AcceptorErased(a)

-----------------------------------------------------------------------------
(* Worker::OnRun.                                                          *)

WorkerLoop(w) ==
  /\ wpc[w] = "loop"
  /\ wpc' = [wpc EXCEPT ![w] =
         IF isRunning[w] \/ (nmod[w] /\ conns # {}) THEN "wait" ELSE "exit"]
  /\ UNCHANGED <<kernel, object, server, accept, batch, todo, cur, nmod, mpc>>

(* What epoll reports of a connection with the events it waits for.  A     *)
(* socket the peer has left is also readable.                              *)
Events(c) ==
  {f \in Flag :
     \/ f = "in" /\ ev[c] \in {"rd", "rdwr"} /\ (inq[c] # <<>> \/ peer[c] # "up")
     \/ f = "out" /\ ev[c] \in {"wr", "rdwr"}
     \/ f = "rdhup" /\ peer[c] # "up"
     \/ f = "err" /\ peer[c] = "rst"}

(* The data.ptr of what epoll_wait can report: None is the nullptr of      *)
(* _event_fd, which nobody ever reads, so that it stays ready.             *)
Ready ==
  {c \in Client : armed[c] = "armed" /\ Events(c) # {}}
    \cup (IF efd THEN {None} ELSE {})

(* All that is ready, or as much as mod_list has room for.                 *)
Reported ==
  {S \in SUBSET Ready :
     IF Cardinality(Ready) <= MaxEvents THEN S = Ready
     ELSE Cardinality(S) = MaxEvents}

(* Mutant: the masks lack EPOLLONESHOT.                                    *)
StillArmed(S) == armed

(* EPOLLONESHOT disarms what is reported.                                  *)
Disarmed(S) == [c \in Client |-> IF c \in S THEN "fired" ELSE armed[c]]

(* epoll_wait returns S; nullptr is skipped.                               *)
WorkerWake(w, S) ==
  /\ wpc[w] = "wait" /\ S # {}
  /\ armed' = Disarmed(S)
  /\ batch' = [batch EXCEPT ![w] = {<<c, Events(c)>> : c \in S \ {None}}]
  /\ nmod' = [nmod EXCEPT ![w] = TRUE]
  /\ wpc' = [wpc EXCEPT ![w] = "events"]
  /\ UNCHANGED <<peer, inq, sent, asked, efd, shut, object, server, accept, todo,
        cur, mpc>>

WorkerTimeout(w) ==
  /\ wpc[w] = "wait" /\ Ready = {}
  /\ nmod' = [nmod EXCEPT ![w] = FALSE]
  /\ wpc' = [wpc EXCEPT ![w] = "loop"]
  /\ UNCHANGED <<kernel, object, server, accept, batch, todo, cur, mpc>>

(* The order in which the events of one wakeup are handled is free.        *)
WorkerNext(w) ==
  /\ wpc[w] = "events"
  /\ \E e \in batch[w] :
       /\ batch' = [batch EXCEPT ![w] = @ \ {e}]
       /\ cur' = [cur EXCEPT ![w] = e[1]]
       /\ todo' = [todo EXCEPT ![w] = e[2]]
  /\ wpc' = [wpc EXCEPT ![w] = "handle"]
  /\ UNCHANGED <<kernel, object, server, accept, nmod, mpc>>

WorkerDone(w) ==
  /\ wpc[w] = "events" /\ batch[w] = {}
  /\ wpc' = [wpc EXCEPT ![w] = "loop"]
  /\ UNCHANGED <<kernel, object, server, accept, batch, todo, cur, nmod, mpc>>

(* OnError and OnClose: an error or a hangup comes before any data.        *)
HandleLeft(w) ==
  /\ wpc[w] = "handle" /\ todo[w] \cap {"err", "rdhup"} # {}
  /\ alive' = [alive EXCEPT ![cur[w]] = FALSE]
  /\ todo' = [todo EXCEPT ![w] = {}]
  /\ UNCHANGED <<kernel, conn, addr, ev, session, server, accept, wpc, batch, cur,
        nmod, mpc>>

Handles(w, f) ==
  /\ wpc[w] = "handle" /\ f \in todo[w] /\ todo[w] \cap {"err", "rdhup"} = {}
  /\ todo' = [todo EXCEPT ![w] = @ \ {f}]

(*-------------------------- Connection::DoRead ---------------------------*)

(* What is waited for once the responses have changed.                     *)
MaskRead(c) == IF nresp'[c] = 0 THEN "rd" ELSE "rdwr"
MaskWrite == IF run THEN "rdwr" ELSE "wr"

(* Commands at the start of q before the first that throws.                *)
Goods(q) == Cardinality({n \in 1..Len(q) : \A i \in 1..n : q[i] = "good"})

(* x commands are executed and their responses queued.                     *)
Executes(c, x) ==
  /\ nresp' = [nresp EXCEPT ![c] = @ + x]
  /\ executed' = [executed EXCEPT ![c] = @ + x]

(* Reads everything; a command that throws ends the call before the mask   *)
(* is set.  A command left behind by an earlier call runs once more.       *)
ReadAll(c) ==
  LET q == buffered[c] \o inq[c]
      g == IF poisoned[c] THEN 0 ELSE Goods(q)
  IN /\ run
     /\ Executes(c, g + IF stale[c] THEN 1 ELSE 0)
     /\ stale' = [stale EXCEPT ![c] = FALSE]
     /\ poisoned' = [poisoned EXCEPT ![c] = g < Len(q)]
     /\ buffered' = [buffered EXCEPT ![c] = <<>>]
     /\ ev' = [ev EXCEPT ![c] = IF g < Len(q) THEN @ ELSE MaskRead(c)]

(* Mutant: the server goes on reading while it is stopping.                *)
MaskStoppingReads == "rdwr"

(* A stopping server reads no more from the connection.                    *)
MaskStopping == "wr"

(* When the server is stopping the call ends with the first command.       *)
ReadOne(c) ==
  LET q == buffered[c] \o inq[c]
  IN /\ ~run
     /\ IF stale[c] \/ (~poisoned[c] /\ Head(q) = "good")
          THEN /\ Executes(c, 1)
               /\ stale' = [stale EXCEPT ![c] = TRUE]
               /\ buffered' = [buffered EXCEPT ![c] =
                                 IF stale[c] THEN q ELSE Tail(q)]
               /\ ev' = [ev EXCEPT ![c] = MaskStopping]
               /\ UNCHANGED poisoned
          ELSE /\ poisoned' = [poisoned EXCEPT ![c] = TRUE]
               /\ buffered' = [buffered EXCEPT ![c] = <<>>]
               /\ UNCHANGED <<nresp, executed, stale, ev>>

ReadNothing(c) ==
  /\ UNCHANGED <<nresp, executed, stale, poisoned, buffered>>
  /\ ev' = [ev EXCEPT ![c] = MaskRead(c)]

DoRead(w) ==
  /\ Handles(w, "in")
  /\ IF inq[cur[w]] = <<>> THEN ReadNothing(cur[w])
       ELSE ReadAll(cur[w]) \/ ReadOne(cur[w])
  /\ inq' = [inq EXCEPT ![cur[w]] = <<>>]
  /\ UNCHANGED <<peer, sent, asked, armed, efd, shut, conn, addr, alive, start,
        server, accept, wpc, batch, cur, nmod, mpc>>

(*-------------------------- Connection::DoWrite --------------------------*)

Writes(w) == Handles(w, "out") /\ "in" \notin todo[w]

(* The bytes handed to writev.                                             *)
Pending(c) ==
  (IF nresp[c] < BufSize THEN nresp[c] ELSE BufSize) * RespLen - start[c]

(* Mutant: data_start is not reduced by the responses dropped.             *)
AdvanceUnreduced(c, n) ==
  /\ nresp' = [nresp EXCEPT ![c] = @ - (start[c] + n) \div RespLen]
  /\ start' = [start EXCEPT ![c] = @ + n]

(* Mutant: a response that is partly sent is dropped.                      *)
AdvanceWhole(c, n) ==
  /\ nresp' = [nresp EXCEPT ![c] = @ - 1]
  /\ start' = [start EXCEPT ![c] = 0]

(* The kernel takes n bytes; whole responses are dropped.                  *)
Advance(c, n) ==
  LET popped == (start[c] + n) \div RespLen
  IN /\ nresp' = [nresp EXCEPT ![c] = @ - popped]
     /\ start' = [start EXCEPT ![c] = @ + n - popped * RespLen]

(* Mutant: EPOLLOUT stays in the mask with nothing left to write.          *)
MaskWrittenKeepsOut(c) == MaskWrite

(* What is waited for after a write.                                       *)
MaskWritten(c) ==
  IF nresp'[c] > 0 THEN MaskWrite ELSE IF run THEN "rd" ELSE ev[c]

(* With nothing left and the server stopped, OnClose locks the mutex that  *)
(* DoWrite already holds: the worker is stuck.                             *)
WriteSome(w, n) ==
  LET c == cur[w]
  IN /\ Writes(w) /\ peer[c] # "rst" /\ n <= Pending(c)
     /\ Advance(c, n)
     /\ sent' = [sent EXCEPT ![c] = @ + n]
     /\ ev' = [ev EXCEPT ![c] = MaskWritten(c)]
     /\ wpc' = [wpc EXCEPT ![w] = IF nresp'[c] = 0 /\ ~run THEN "stuck" ELSE @]
     /\ UNCHANGED <<peer, inq, asked, armed, efd, shut, conn, addr, alive,
           executed, stale, poisoned, buffered, server, accept, batch, cur, nmod,
           mpc>>

(* EAGAIN.                                                                 *)
WriteAgain(w) ==
  /\ Writes(w) /\ peer[cur[w]] # "rst"
  /\ ev' = [ev EXCEPT ![cur[w]] = MaskWrite]
  /\ UNCHANGED <<kernel, conn, addr, alive, session, server, accept, wpc, batch,
        cur, nmod, mpc>>

(* The peer has left: OnError locks the mutex a second time.               *)
WriteFails(w) ==
  /\ Writes(w) /\ peer[cur[w]] # "up"
  /\ wpc' = [wpc EXCEPT ![w] = "stuck"]
  /\ UNCHANGED <<kernel, object, server, accept, batch, cur, nmod, mpc>>

(*------------------------- back in Worker::OnRun -------------------------*)

(* Mutant: a connection that waits to write is not armed again.            *)
RearmedToRead(c) == IF ev[c] = "rd" THEN "armed" ELSE armed[c]

Rearmed(c) == "armed"

Rearm(w) ==
  /\ wpc[w] = "handle" /\ todo[w] = {} /\ alive[cur[w]]
  /\ armed' = [armed EXCEPT ![cur[w]] = Rearmed(cur[w])]
  /\ cur' = [cur EXCEPT ![w] = None]
  /\ wpc' = [wpc EXCEPT ![w] = "events"]
  /\ UNCHANGED <<peer, inq, sent, asked, efd, shut, object, server, accept, batch,
        todo, nmod, mpc>>

(* The connection is dead, or epoll_ctl fails: DeleteConnection.           *)
Discard(w) ==
  /\ wpc[w] = "handle" /\ todo[w] = {}
  /\ Freed(cur[w])
  /\ wpc' = [wpc EXCEPT ![w] = "lock"]
  /\ UNCHANGED <<peer, inq, sent, asked, efd, shut, addr, ev, session, server,
        accept, batch, todo, cur, nmod, mpc>>

Drop(w) == Discard(w) /\ ~alive[cur[w]]
RearmFails(w) == Discard(w) /\ alive[cur[w]] /\ EpollFails

WorkerErase(w) ==
  /\ wpc[w] = "lock" /\ Erasing = {}
  /\ busy' = busy \cup {w}
  /\ wpc' = [wpc EXCEPT ![w] = "erase"]
  /\ UNCHANGED <<kernel, object, run, isRunning, conns, accept, batch, todo, cur,
        nmod, mpc>>

WorkerErased(w) ==
  /\ wpc[w] = "erase"
  /\ ConnsUpdated(w, conns \ {addr[cur[w]]})
  /\ cur' = [cur EXCEPT ![w] = None]
  /\ wpc' = [wpc EXCEPT ![w] = "events"]
  /\ UNCHANGED <<kernel, object, run, isRunning, accept, batch, todo, nmod, mpc>>

WorkerWrites(w) == \E n \in 1..(BufSize * RespLen) : WriteSome(w, n)

WorkerStep(w) ==
  \/ WorkerLoop(w) \/ (\E S \in Reported : WorkerWake(w, S))
  \/ WorkerTimeout(w) \/ WorkerNext(w) \/ WorkerDone(w) \/ HandleLeft(w)
  \/ DoRead(w) \/ WorkerWrites(w) \/ WriteAgain(w) \/ WriteFails(w)
  \/ Rearm(w) \/ RearmFails(w) \/ Drop(w) \/ WorkerErase(w) \/ WorkerErased(w)

-----------------------------------------------------------------------------
(* ServerImpl::Stop, then ServerImpl::Join.                                *)

StopStarts ==
  /\ mpc = "serving" /\ mpc' = "flags"
  /\ UNCHANGED <<kernel, object, server, accept, work>>

StopWorker(w) ==
  /\ mpc = "flags" /\ isRunning[w]
  /\ isRunning' = [isRunning EXCEPT ![w] = FALSE]
  /\ UNCHANGED <<kernel, object, run, conns, busy, accept, work, mpc>>

StopWakes ==
  /\ mpc = "flags" /\ \A w \in Worker : ~isRunning[w]
  /\ efd' = TRUE /\ mpc' = "shutdown"
  /\ UNCHANGED <<peer, inq, sent, asked, armed, shut, object, server, accept, work>>

StopShuts ==
  /\ mpc = "shutdown"
  /\ shut' = TRUE /\ mpc' = "join"
  /\ UNCHANGED <<peer, inq, sent, asked, armed, efd, object, server, accept, work>>

(* The range-for over conns erases the element it stands on.               *)
Join ==
  /\ mpc = "join"
  /\ \A a \in Acceptor : apc[a] = "exit"
  /\ \A w \in Worker : wpc[w] = "exit"
  /\ mpc' = IF conns = {} THEN "joined" ELSE "undefined"
  /\ UNCHANGED <<kernel, object, server, accept, work>>

MainStep == (\E w \in Worker : StopWorker(w)) \/ StopWakes \/ StopShuts \/ Join

-----------------------------------------------------------------------------
ClientStep(c) ==
  \/ Connect(c) \/ (\E r \in Request : Send(c, r))
  \/ (\E how \in {"fin", "rst"} : Leave(c, how))

Next ==
  \/ \E c \in Client : ClientStep(c)
  \/ \E a \in Acceptor : AcceptorStep(a)
  \/ \E w \in Worker : WorkerStep(w)
  \/ StopStarts \/ MainStep

(* Every thread keeps running; nobody has to connect, send or stop.        *)
ThreadFairness ==
  /\ \A a \in Acceptor : WF_vars(AcceptorStep(a))
  /\ \A w \in Worker : WF_vars(WorkerStep(w))
  /\ WF_vars(MainStep)

Spec == Init /\ [][Next]_vars /\ ThreadFairness

(* The server before Stop, its clients and all that they may do.           *)
NextServing ==
  \/ \E c \in Client :
       \/ Connect(c) \/ (\E r \in Request : Send(c, r))
       \/ (\E how \in {"fin", "rst"} : Leave(c, how))
  \/ \E a \in Acceptor : AcceptorStep(a)
  \/ \E w \in Worker : WorkerStep(w)

(* epoll does not forget a ready connection for ever, and a peer that      *)
(* reads lets a write through now and then.                                *)
KernelFairness ==
  /\ \A c \in Client :
       SF_vars(\E w \in Worker : \E S \in Reported : c \in S /\ WorkerWake(w, S))
  /\ \A w \in Worker : SF_vars(WorkerWrites(w))

SpecServing == Init /\ [][NextServing]_vars /\ ThreadFairness /\ KernelFairness

-----------------------------------------------------------------------------
(* Properties.                                                             *)

(* The connections a worker is using, or has an event of.                  *)
Held(w) ==
  {e[1] : e \in batch[w]} \cup
  (IF wpc[w] \in {"handle", "stuck"} THEN {cur[w]} ELSE {})

(* A connection is never used by two workers at once, nor can epoll hand   *)
(* it to another one while a worker has it: EPOLLONESHOT in every mask     *)
(* (Connection.h:55-57) and the rearm only after the last use              *)
(* (Worker.cpp:109-112).                                                   *)
OneHandler ==
  \A v, w \in Worker :
    /\ v # w => Held(v) \cap Held(w) = {}
    /\ \A c \in Held(w) : armed[c] = "fired"

(* No worker has, and epoll can report, a connection that has been         *)
(* deleted (ServerImpl.cpp:32-37, Worker.cpp:109-124).                     *)
NoUseAfterFree ==
  /\ \A w \in Worker : \A c \in Held(w) : conn[c] = "live"
  /\ \A c \in Client : armed[c] # "no" => conn[c] = "live"

(* assert(responses.size() > 0) of DoWrite (Connection.cpp:127): EPOLLOUT  *)
(* is handled only with a response pending, also when DoRead ran since the *)
(* event was delivered.                                                    *)
WriteHasData ==
  \A w \in Worker :
    wpc[w] = "handle" /\ "out" \in todo[w] => nresp[cur[w]] > 0

(* What the kernel has taken is exactly the responses already dropped and  *)
(* the first data_start bytes of the next one, whatever writev accepted    *)
(* (Connection.cpp:128-162): no byte is lost or sent twice.                *)
CursorExact ==
  \A c \in Client :
    sent[c] = (executed[c] - nresp[c]) * RespLen + start[c]

(* A request is executed at most once: what has been executed and what     *)
(* waits to be are together no more than the client has sent.  DoRead does *)
(* not reset the command that it executes last when the server stops       *)
(* (Connection.cpp:98-101); the write-only mask it then sets (99) is all   *)
(* that keeps the command from running again.                              *)
ExecutedOnce ==
  \A c \in Client : executed[c] + Len(buffered[c]) + Len(inq[c]) <= asked[c]

(* The command that is left behind runs again only for an acceptor that    *)
(* starts after the stop and turns run on once more (ServerImpl.cpp:173):  *)
(* each such acceptor costs a connection at most one repetition, whatever  *)
(* the workers, the clients and the kernel do meanwhile                    *)
(* (Connection.cpp:98-101, 163-173).                                       *)
RepeatsBounded ==
  \A c \in Client :
    executed[c] + Len(buffered[c]) + Len(inq[c])
      <= asked[c] + Cardinality(late)

(* While the server is not stopped every request of a client that stays is *)
(* answered in full: whatever EPOLLONESHOT has disarmed is armed again,    *)
(* with a mask that covers the pending work (Worker.cpp:109-117,           *)
(* Connection.cpp:112-171).  A client that shuts down its sending end      *)
(* before it has the answer, as itest/network_test.pl:59 does, is left     *)
(* out: Worker.cpp:93 closes its connection first.                         *)
Served ==
  \A c \in Client : \A n \in 1..MaxReq :
    asked[c] >= n ~> sent[c] >= n * RespLen \/ peer[c] # "up" \/ poisoned[c]

(* Join comes to the end of its waits, and when it returns every           *)
(* connection is released (Server.h:38-39, 44-45): drained connections are *)
(* closed, no worker waits for a mutex it holds itself, no acceptor is     *)
(* left waiting, and every connection is found in conns.                   *)
JoinReturns ==
  mpc = "join" ~> \/ mpc = "undefined"
                  \/ mpc = "joined" /\ \A c \in Client : conn[c] # "live"
=============================================================================
