----------------------------- MODULE STNonblock -----------------------------
(***************************************************************************)
(* The epoll server of src/network/st_nonblocking: one thread that accepts *)
(* and serves (ServerImpl::OnRun), its connections, and the thread that    *)
(* calls Stop and Join.  epoll is level-triggered here, and every turn of  *)
(* the loop ends with a sweep that closes the connections that have        *)
(* nothing to do.                                                          *)
(*                                                                         *)
(* Input arrives in pieces: "get", a whole command; "set", a command line  *)
(* that announces a data block; "data", that block; "bad", a line for      *)
(* which Parse or Build throws, now and on every later call.  Only the     *)
(* loop's thread uses a connection, so DoRead and DoWrite are one step     *)
(* each; a response has RespLen bytes.                                     *)
(***************************************************************************)
EXTENDS Integers, Sequences, FiniteSets

CONSTANTS
  Client,     \* peers; each opens at most one connection
  Sender,     \* the clients that send
  MaxSend,    \* bound: pieces such a client sends
  RespLen,    \* bytes of a response
  RespBuf,    \* resp_buf_size
  ClientBuf,  \* size of client_buffer
  EpollFails  \* whether epoll_ctl may fail

ASSUME SizesAssumption ==
  /\ Sender \subseteq Client
  /\ MaxSend \in Nat /\ RespLen \in Nat \ {0} /\ RespBuf \in Nat \ {0}
  /\ ClientBuf \in Nat \ {0} /\ EpollFails \in BOOLEAN
ASSUME NamesAssumption == {"efd", "srv", "none"} \cap Client = {}

VARIABLES
  peer,      \* a client: not connected, connected, closed, or reset
  sends,     \* pieces it has sent
  last,      \* the last of them
  inq,       \* pieces in the socket's receive buffer
  answered,  \* responses it has been sent in full
  sock,      \* its connection: none, in the backlog, open (in conns), closed
  kmask,     \* the events epoll watches on it
  conn,      \* the Connection object
  efd, shut, \* _event_fd is written, _server_socket is shut down
  watch,     \* both of them are in the epoll set
  run, nmod, \* run, nmod > 0
  batch,     \* events of this turn still to be handled
  cur, todo, \* the connection at hand and its events still to be handled
  rest,      \* connections the walk over conns has still to visit
  pc, mpc    \* the loop's thread, the thread in Stop and Join

clients == <<peer, sends, last>>
kernel == <<inq, answered, sock, kmask, efd, shut, watch>>
loop == <<run, nmod, batch, cur, todo, rest>>
vars == <<clients, kernel, conn, loop, pc, mpc>>

Piece == {"get", "set", "data", "bad"}
Flag == {"in", "out", "rdhup", "err"}
Mask == {"rd", "wr", "rdwr"}

Connection ==
  [alive : BOOLEAN, mask : Mask, cmd : BOOLEAN, failed : BOOLEAN,
   held : 0..ClientBuf, nresp : 0..MaxSend, start : 0..(RespLen - 1)]

(* Constructor and Connection::Start: no command, no response.             *)
NewConnection ==
  [alive |-> TRUE, mask |-> "rd", cmd |-> FALSE, failed |-> FALSE,
   held |-> 0, nresp |-> 0, start |-> 0]

(* Every variable has its type; data_start stays inside the first pending  *)
(* response (Connection.cpp:144-152) and client_buffer is never overrun.   *)
TypeOK ==
  /\ peer \in [Client -> {"off", "up", "fin", "rst"}]
  /\ sends \in [Client -> 0..MaxSend] /\ last \in [Client -> Piece]
  /\ inq \in [Client -> Seq(Piece)] /\ answered \in [Client -> Nat]
  /\ sock \in [Client -> {"none", "backlog", "open", "closed"}]
  /\ kmask \in [Client -> Mask] /\ conn \in [Client -> Connection]
  /\ efd \in BOOLEAN /\ shut \in BOOLEAN /\ watch \in BOOLEAN
  /\ run \in BOOLEAN /\ nmod \in BOOLEAN
  /\ batch \subseteq (Client \cup {"efd", "srv"}) \X SUBSET Flag
  /\ cur \in Client \cup {"none"} /\ todo \subseteq Flag /\ rest \subseteq Client
  /\ pc \in {"loop", "wait", "events", "handle", "sweep", "exit", "undefined"}
  /\ mpc \in {"serving", "shutdown", "join", "closing", "joined", "undefined"}

(* Start has returned and OnRun has set up epoll.                          *)
Init ==
  /\ peer = [c \in Client |-> "off"] /\ sends = [c \in Client |-> 0]
  /\ last = [c \in Client |-> "get"] /\ inq = [c \in Client |-> <<>>]
  /\ answered = [c \in Client |-> 0] /\ sock = [c \in Client |-> "none"]
  /\ kmask = [c \in Client |-> "rd"] /\ conn = [c \in Client |-> NewConnection]
  /\ efd = FALSE /\ shut = FALSE /\ watch = TRUE
  /\ run = TRUE /\ nmod = FALSE /\ batch = {} /\ cur = "none" /\ todo = {}
  /\ rest = {} /\ pc = "loop" /\ mpc = "serving"

Open == {c \in Client : sock[c] = "open"}
Backlog == {c \in Client : sock[c] = "backlog"}

-----------------------------------------------------------------------------
(* The clients.                                                            *)

Connect(c) ==
  /\ peer[c] = "off" /\ ~shut
  /\ peer' = [peer EXCEPT ![c] = "up"]
  /\ sock' = [sock EXCEPT ![c] = "backlog"]
  /\ UNCHANGED <<sends, last, inq, answered, kmask, efd, shut, watch, conn, loop,
        pc, mpc>>

(* A data block follows the line that announces it, and only that.         *)
Send(c, p) ==
  /\ c \in Sender /\ peer[c] = "up" /\ sock[c] # "closed" /\ sends[c] < MaxSend
  /\ p = "data" <=> last[c] = "set"
  /\ sends' = [sends EXCEPT ![c] = @ + 1] /\ last' = [last EXCEPT ![c] = p]
  /\ inq' = [inq EXCEPT ![c] = Append(@, p)]
  /\ UNCHANGED <<peer, answered, sock, kmask, efd, shut, watch, conn, loop, pc,
        mpc>>

Leave(c, how) ==
  /\ peer[c] = "up" /\ peer' = [peer EXCEPT ![c] = how]
  /\ UNCHANGED <<sends, last, kernel, conn, loop, pc, mpc>>

-----------------------------------------------------------------------------
(* ServerImpl::OnRun.                                                      *)

Loop ==
  /\ pc = "loop"
  /\ pc' = IF run \/ (nmod /\ Open # {}) THEN "wait" ELSE "exit"
  /\ UNCHANGED <<clients, kernel, conn, loop, mpc>>

(* What epoll reports of a connection, given the ones with room to write.  *)
Events(c, W) ==
  {f \in Flag :
     \/ f = "in" /\ kmask[c] # "wr" /\ (inq[c] # <<>> \/ peer[c] # "up")
     \/ f = "out" /\ kmask[c] # "rd" /\ c \in W
     \/ f = "rdhup" /\ peer[c] # "up"
     \/ f = "err" /\ peer[c] = "rst"}

Ready(W) ==
  {e \in {<<c, Events(c, W)>> : c \in Open} : e[2] # {}}
    \cup (IF watch /\ efd THEN {<<"efd", {}>>} ELSE {})
    \cup (IF watch /\ (Backlog # {} \/ shut) THEN {<<"srv", {}>>} ELSE {})

(* epoll_wait returns what is ready, or nothing after its timeout.         *)
Wait(W) ==
  /\ pc = "wait" /\ pc' = "events"
  /\ batch' = Ready(W) /\ nmod' = (Ready(W) # {})
  /\ UNCHANGED <<clients, kernel, conn, run, cur, todo, rest, mpc>>

(* A signal interrupts epoll_wait, which returns -1: there are no events,  *)
(* and a loop that drains its connections ends with them open.             *)
WaitInterrupted ==
  /\ pc = "wait" /\ pc' = "events"
  /\ batch' = {} /\ nmod' = FALSE
  /\ UNCHANGED <<clients, kernel, conn, run, cur, todo, rest, mpc>>

StopEvent ==
  /\ pc = "events" /\ <<"efd", {}>> \in batch
  /\ batch' = batch \ {<<"efd", {}>>}
  /\ run' = FALSE /\ watch' = FALSE
  /\ UNCHANGED <<clients, inq, answered, sock, kmask, efd, shut, conn, nmod, cur,
        todo, rest, pc, mpc>>

(* Accepts all there is; the connections of F cannot be added to epoll and *)
(* are deleted at once.  A socket that is shut down accepts none.          *)
OnNewConnection(F) ==
  LET new == IF shut THEN {} ELSE Backlog
  IN /\ pc = "events" /\ <<"srv", {}>> \in batch
     /\ F \subseteq new /\ (EpollFails \/ F = {})
     /\ batch' = batch \ {<<"srv", {}>>}
     /\ sock' = [c \in Client |-> IF c \in F THEN "closed"
                                  ELSE IF c \in new THEN "open" ELSE sock[c]]
     /\ conn' = [c \in Client |-> IF c \in new THEN NewConnection ELSE conn[c]]
     /\ kmask' = [c \in Client |-> IF c \in new THEN "rd" ELSE kmask[c]]
     /\ UNCHANGED <<clients, inq, answered, efd, shut, watch, run, nmod, cur, todo,
           rest, pc, mpc>>

ConnectionEvent(c) ==
  /\ pc = "events"
  /\ \E e \in batch : e[1] = c /\ batch' = batch \ {e} /\ todo' = e[2]
  /\ cur' = c /\ pc' = "handle"
  /\ UNCHANGED <<clients, kernel, conn, run, nmod, rest, mpc>>

EventsDone ==
  /\ pc = "events" /\ batch = {}
  /\ pc' = "sweep" /\ rest' = Open
  /\ UNCHANGED <<clients, kernel, conn, run, nmod, batch, cur, todo, mpc>>

Left == todo \cap {"err", "rdhup"} # {}

(* OnError, OnClose: before any data that came with the hangup.            *)
HandleLeft ==
  /\ pc = "handle" /\ Left
  /\ conn' = [conn EXCEPT ![cur].alive = FALSE]
  /\ todo' = {}
  /\ UNCHANGED <<clients, kernel, run, nmod, batch, cur, rest, pc, mpc>>

(*-------------------------- Connection::DoRead ---------------------------*)

(* The pieces of q before the first that throws, and those of them that    *)
(* complete a command.                                                     *)
Parsed(q) == {i \in 1..Len(q) : \A j \in 1..i : q[j] # "bad"}
Commands(q) == {i \in Parsed(q) : q[i] # "set"}

ReadMask(n) == IF n = 0 THEN "rd" ELSE "rdwr"

(* Everything there is to read is parsed and run.                          *)
ReadAll(c) ==
  LET q == inq[c]
      n == conn[c].nresp + Cardinality(Commands(q))
  IN /\ ~conn[c].failed /\ Parsed(q) = DOMAIN q
     /\ run \/ Commands(q) = {}
     /\ conn' = [conn EXCEPT ![c].nresp = n, ![c].mask = ReadMask(n),
                             ![c].cmd = q[Len(q)] = "set"]
     /\ inq' = [inq EXCEPT ![c] = <<>>]

MaskStopping(c) == "wr"

(* A stopping server runs one command, then only writes; the rest of the   *)
(* input is never looked at again.                                         *)
ReadOne(c) ==
  /\ ~conn[c].failed /\ ~run
  /\ \E i \in Commands(inq[c]) :
       /\ \A j \in Commands(inq[c]) : i <= j
       /\ inq' = [inq EXCEPT ![c] = SubSeq(@, i + 1, Len(@))]
  /\ conn' = [conn EXCEPT ![c].nresp = @ + 1, ![c].cmd = FALSE,
                          ![c].mask = MaskStopping(c)]

(* Parse or Build throws: the commands before that have run and the mask   *)
(* is left alone.  The read that met the bad line took k pieces, all there *)
(* were or as many as client_buffer had room for, and they stay in it,     *)
(* filling it up to h.                                                     *)
ReadThrows(c, h, k) ==
  LET q == inq[c]
      g == Cardinality(Parsed(q))
  IN /\ ~conn[c].failed /\ g + k <= Len(q) /\ (h = ClientBuf \/ g + k = Len(q))
     /\ run \/ Commands(q) = {}
     /\ conn' = [conn EXCEPT ![c].nresp = @ + Cardinality(Commands(q)),
                             ![c].cmd = FALSE, ![c].failed = TRUE, ![c].held = h]
     /\ inq' = [inq EXCEPT ![c] = SubSeq(@, g + k + 1, Len(@))]

(* The parser fails again on what is added to the buffer.                  *)
ReadFailed(c, h, k) ==
  /\ conn[c].failed /\ conn[c].held < h
  /\ k <= Len(inq[c]) /\ (h = ClientBuf \/ k = Len(inq[c]))
  /\ conn' = [conn EXCEPT ![c].held = h]
  /\ inq' = [inq EXCEPT ![c] = SubSeq(@, k + 1, Len(@))]

(* client_buffer is full: read of zero bytes returns 0.                    *)
ReadFull(c) ==
  /\ conn[c].failed /\ conn[c].held = ClientBuf
  /\ conn' = [conn EXCEPT ![c].mask = ReadMask(conn[c].nresp)]
  /\ UNCHANGED inq

DoRead ==
  /\ pc = "handle" /\ ~Left /\ "in" \in todo
  /\ \/ ReadAll(cur) \/ ReadOne(cur) \/ ReadFull(cur)
     \/ \E h \in 1..ClientBuf, k \in 1..MaxSend :
          ReadThrows(cur, h, k) \/ ReadFailed(cur, h, k)
  /\ todo' = todo \ {"in"}
  /\ UNCHANGED <<clients, answered, sock, kmask, efd, shut, watch, run, nmod, batch,
        cur, rest, pc, mpc>>

(*-------------------------- Connection::DoWrite --------------------------*)

Writes(c) == pc = "handle" /\ cur = c /\ ~Left /\ todo = {"out"} /\ todo' = {}

WriteMask == IF run THEN "rdwr" ELSE "wr"

(* Mutant: EPOLLOUT stays in the mask with nothing left to write.          *)
WrittenKeepsOut(c, n) == [conn[c] EXCEPT !.nresp = n, !.mask = WriteMask]

(* The connection with n responses left: with none it waits for input, or  *)
(* is closed if the server is stopping.                                    *)
Written(c, n) ==
  [conn[c] EXCEPT !.nresp = n,
                  !.mask = IF n > 0 THEN WriteMask ELSE IF run THEN "rd" ELSE @,
                  !.alive = n > 0 \/ run]

(* Mutant: data_start is not reduced by the responses dropped.             *)
AdvanceUnreduced(c, b) == conn[c].start + b

(* data_start, after b more bytes and without the responses dropped.       *)
Advance(c, b) == (conn[c].start + b) % RespLen

(* The kernel takes b bytes of at most RespBuf responses.                  *)
WriteSome(c, b) ==
  LET n == conn[c].nresp
      gone == (conn[c].start + b) \div RespLen
  IN /\ Writes(c) /\ peer[c] # "rst"
     /\ conn[c].start + b <= RespLen * IF n < RespBuf THEN n ELSE RespBuf
     /\ conn' = [conn EXCEPT ![c] = [Written(c, n - gone) EXCEPT !.start = Advance(c, b)]]
     /\ answered' = [answered EXCEPT ![c] = @ + gone]
     /\ UNCHANGED <<clients, inq, sock, kmask, efd, shut, watch, run, nmod, batch, cur,
           rest, pc, mpc>>

(* EAGAIN keeps the responses, any other failure is an error.              *)
WriteFails(c) ==
  /\ Writes(c)
  /\ \/ peer[c] # "rst" /\ conn' = [conn EXCEPT ![c].mask = WriteMask]
     \/ peer[c] # "up" /\ conn' = [conn EXCEPT ![c].alive = FALSE]
  /\ UNCHANGED <<clients, kernel, run, nmod, batch, cur, rest, pc, mpc>>

DoWrite(c) == \E b \in 1..(RespBuf * RespLen) : WriteSome(c, b)

(*----------------------- back in ServerImpl::OnRun -----------------------*)

(* close, delete, erase; closing takes the socket out of epoll.            *)
DeleteConnection(c) == sock' = [sock EXCEPT ![c] = "closed"]

EventDone(closes) ==
  /\ pc = "handle" /\ todo = {} /\ pc' = "events" /\ cur' = "none"
  /\ IF closes THEN DeleteConnection(cur) /\ UNCHANGED kmask
     ELSE UNCHANGED sock /\ kmask' = [kmask EXCEPT ![cur] = conn[cur].mask]
  /\ UNCHANGED <<clients, inq, answered, efd, shut, watch, conn, run, nmod, batch,
        todo, rest, mpc>>

(* A dead connection is deleted, a changed mask is handed to epoll; if     *)
(* that fails the connection is deleted too.                               *)
Finish == pc = "handle" /\ EventDone(~conn[cur].alive)

ModFails ==
  /\ pc = "handle" /\ EpollFails /\ conn[cur].alive /\ conn[cur].mask # kmask[cur]
  /\ EventDone(TRUE)

(* The sweep closes what has neither a command nor a response.             *)
Idle(c) == ~conn[c].cmd /\ conn[c].nresp = 0

(* Mutant: the sweep runs after every event.                               *)
SweepsEarly == pc \in {"events", "sweep"}

Sweeps == pc = "sweep"

(* The range-for stands on the node that DeleteConnection frees: the step  *)
(* to the next node reads freed memory.  The walk goes on with the nodes   *)
(* after it, misses some or all of them, or the process is lost.           *)
Sweep(c) ==
  /\ Sweeps /\ Idle(c) /\ c \in IF pc = "sweep" THEN rest ELSE Open
  /\ DeleteConnection(c)
  /\ rest' \in SUBSET (rest \ {c})
  /\ pc' \in {pc, "undefined"}
  /\ UNCHANGED <<clients, inq, answered, kmask, efd, shut, watch, conn, run, nmod,
        batch, cur, todo, mpc>>

SweepDone ==
  /\ pc = "sweep" /\ \A c \in rest : ~Idle(c)
  /\ pc' = "loop" /\ rest' = {}
  /\ UNCHANGED <<clients, kernel, conn, run, nmod, batch, cur, todo, mpc>>

OnRun ==
  \/ Loop \/ (\E W \in SUBSET Client : Wait(W)) \/ WaitInterrupted \/ StopEvent
  \/ (\E F \in SUBSET Client : OnNewConnection(F)) \/ EventsDone \/ HandleLeft
  \/ DoRead \/ Finish \/ ModFails \/ SweepDone
  \/ \E c \in Client : ConnectionEvent(c) \/ DoWrite(c) \/ WriteFails(c) \/ Sweep(c)

-----------------------------------------------------------------------------
(* ServerImpl::Stop and ServerImpl::Join.                                  *)

(* Mutant: nothing wakes the loop.                                         *)
StopSilent ==
  /\ mpc = "serving" /\ mpc' = "shutdown"
  /\ UNCHANGED <<clients, kernel, conn, loop, pc>>

Stop ==
  /\ mpc = "serving" /\ mpc' = "shutdown" /\ efd' = TRUE
  /\ UNCHANGED <<clients, inq, answered, sock, kmask, shut, watch, conn, loop, pc>>

StopShuts ==
  /\ mpc = "shutdown" /\ mpc' = "join" /\ shut' = TRUE
  /\ UNCHANGED <<clients, inq, answered, sock, kmask, efd, watch, conn, loop, pc>>

Join ==
  /\ mpc = "join" /\ pc = "exit" /\ mpc' = "closing" /\ rest' = Open
  /\ UNCHANGED <<clients, kernel, conn, run, nmod, batch, cur, todo, pc>>

(* The same walk over conns, with the same erasure under its feet.         *)
JoinCloses(c) ==
  /\ mpc = "closing" /\ c \in rest
  /\ DeleteConnection(c)
  /\ rest' \in SUBSET (rest \ {c})
  /\ mpc' \in {"closing", "undefined"}
  /\ UNCHANGED <<clients, inq, answered, kmask, efd, shut, watch, conn, run, nmod,
        batch, cur, todo, pc>>

Joined ==
  /\ mpc = "closing" /\ rest = {} /\ mpc' = "joined"
  /\ UNCHANGED <<clients, kernel, conn, loop, pc>>

MainStep == StopShuts \/ Join \/ (\E c \in Client : JoinCloses(c)) \/ Joined

-----------------------------------------------------------------------------
ClientStep(c) ==
  \/ Connect(c) \/ (\E p \in Piece : Send(c, p))
  \/ (\E how \in {"fin", "rst"} : Leave(c, how))

Next == (\E c \in Client : ClientStep(c)) \/ OnRun \/ Stop \/ MainStep

(* Both threads keep running, a wait is not interrupted for ever, and a    *)
(* write that epoll invites goes through now and then; nobody has to       *)
(* connect, to send or to stop.                                            *)
Fairness ==
  /\ WF_vars(OnRun) /\ WF_vars(MainStep)
  /\ SF_vars(\E W \in SUBSET Client : Wait(W))
  /\ \A c \in Client : SF_vars(DoWrite(c))

Spec == Init /\ [][Next]_vars /\ Fairness
-----------------------------------------------------------------------------
(* The loop never touches a connection after DeleteConnection: what a turn *)
(* has still to handle, and the one at hand, are open, whatever the events *)
(* before them and the sweep have closed (ServerImpl.cpp:164-206).         *)
NoUseAfterFree ==
  /\ \A e \in batch : e[1] \in Client => sock[e[1]] = "open"
  /\ pc = "handle" => sock[cur] = "open"
  /\ pc = "sweep" => rest \subseteq Open

(* The assert of DoWrite (Connection.cpp:118): when a connection is told   *)
(* that it can write it has something to write, although the mask epoll    *)
(* goes by was set in an earlier turn and a read may come in between.      *)
WriteHasData ==
  pc = "handle" /\ ~Left /\ "out" \in todo => conn[cur].nresp > 0

(* A connection that failed, whose client_buffer is full, reads nothing    *)
(* any more; with input left in the socket it is ready for ever.           *)
Clogged(c) ==
  /\ sock[c] = "open" /\ conn[c].failed /\ conn[c].held = ClientBuf
  /\ inq[c] # <<>>

(* Join returns: once the server is told to stop, the loop drains its      *)
(* connections and ends (ServerImpl.cpp:143), unless the walk over conns   *)
(* has gone astray or a client that does not read has clogged its          *)
(* connection.                                                             *)
JoinReturns ==
  mpc = "join" ~> \/ mpc \in {"joined", "undefined"} \/ pc = "undefined"
                  \/ \E c \in Client : Clogged(c)

(* What the tests of the server expect (itest/network_test.pl:88): a       *)
(* client that connects, sends a command and waits is answered, as long as *)
(* nobody stops the server.  ServerImpl.cpp:196-206 closes its connection  *)
(* in the turn that accepts it.                                            *)
Answered ==
  \A c \in Client :
    peer[c] = "up" /\ sends[c] = 1 /\ last[c] = "get"
      ~> answered[c] > 0 \/ peer[c] # "up" \/ mpc # "serving" \/ pc = "undefined"
=============================================================================
