-------------------------- MODULE MTNonblockProofs --------------------------
(***************************************************************************)
(* Proofs about the multi-threaded epoll server, for any number of         *)
(* acceptors, workers, clients and addresses, and any size of requests,    *)
(* responses and buffers.                                                  *)
(***************************************************************************)
EXTENDS MTNonblock, FiniteSetTheorems, TLAPS

(* Worker w has an event of connection c, or is handling it.               *)
Owns(w, c) ==
  \/ \E e \in batch[w] : e[1] = c
  \/ wpc[w] \in {"handle", "stuck"} /\ cur[w] = c

(* Acceptor a has accepted a connection that is not registered yet.        *)
Accepting(a) == apc[a] \in {"inserting", "register"}

(* A batch has one event of a connection, and none of the one at hand.     *)
BatchOnce ==
  \A w \in Worker :
    /\ wpc[w] \in {"handle", "stuck"} => cur[w] \in Client
    /\ \A e, f \in batch[w] : e[1] = f[1] => e = f
    /\ wpc[w] \in {"handle", "stuck"} => \A e \in batch[w] : e[1] # cur[w]

(* A connection has one owner, and epoll is quiet about it meanwhile.      *)
OwnedOnce ==
  \A w \in Worker, c \in Client :
    Owns(w, c) => armed[c] = "fired" /\ \A v \in Worker : Owns(v, c) => v = w

(* Where a connection is in its life decides who may know of it.           *)
LifeCycle ==
  /\ \A c \in Client : armed[c] # "no" => conn[c] = "live"
  /\ \A c \in Client : peer[c] = "off" => conn[c] = "none"
  /\ \A a \in Acceptor : Accepting(a) =>
       acur[a] \in Client /\ conn[acur[a]] = "new" /\ addr[acur[a]] \in Addr
  /\ \A a, b \in Acceptor :
       Accepting(a) /\ Accepting(b) /\ acur[a] = acur[b] => a = b

(* EPOLLOUT is waited for, reported and handled only with a response       *)
(* pending; the one exception is a worker that is stuck with it.           *)
OutHasData ==
  /\ \A c \in Client : ev[c] # "rd" =>
       nresp[c] > 0 \/ \E w \in Worker : wpc[w] = "stuck" /\ cur[w] = c
  /\ \A w \in Worker : \A e \in batch[w] : "out" \in e[2] => nresp[e[1]] > 0
  /\ \A w \in Worker : wpc[w] = "handle" /\ "out" \in todo[w] => nresp[cur[w]] > 0

IInv ==
  /\ TypeOK
  /\ BatchOnce /\ OwnedOnce /\ LifeCycle /\ OutHasData /\ CursorExact

-----------------------------------------------------------------------------
(* What the division by the length of a response gives (Connection.cpp:    *)
(* 144-160).                                                               *)
LEMMA DivMod ==
  ASSUME NEW x \in Nat, NEW m \in Nat \ {0}
  PROVE  /\ x \div m \in Nat
         /\ x - (x \div m) * m \in 0..(m - 1)
OBVIOUS

LEMMA Remainder ==
  ASSUME NEW s \in Nat, NEW n \in Nat, NEW m \in Nat \ {0}
  PROVE  s + n - ((s + n) \div m) * m \in 0..(m - 1)
OBVIOUS

LEMMA DivBound ==
  ASSUME NEW x \in Nat, NEW m \in Nat \ {0}, NEW k \in Nat, x <= k * m
  PROVE  x \div m <= k
<1>1. (x \div m) \in Nat /\ (x \div m) * m <= x
  BY DivMod
<1>2. CASE x \div m >= k + 1
  <2>1. (x \div m) * m >= (k + 1) * m
    BY <1>1, <1>2
  <2> QED BY <1>1, <2>1
<1> QED BY <1>1, <1>2

(* The commands before the first that throws are among those there are.    *)
LEMMA GoodsBound ==
  ASSUME NEW q \in Seq(Request)
  PROVE  Goods(q) \in Nat /\ Goods(q) <= Len(q)
<1> DEFINE G == {n \in 1..Len(q) : \A i \in 1..n : q[i] = "good"}
<1>1. IsFiniteSet(1..Len(q)) /\ Cardinality(1..Len(q)) = Len(q)
  <2>1. PICK l \in Nat : l = Len(q)
    OBVIOUS
  <2>2. IsFiniteSet(1..l) /\ Cardinality(1..l) = l
    BY FS_Interval
  <2> QED BY <2>1, <2>2
<1>2. IsFiniteSet(G) /\ Cardinality(G) <= Len(q)
  BY <1>1, FS_Subset
<1> QED BY <1>2, FS_CardinalityType DEF Goods

(* The initial states.                                                     *)
LEMMA InitIInv == Init => IInv
<1> SUFFICES ASSUME Init PROVE IInv
  OBVIOUS
<1> USE SizesAssumption, ThreadAssumption DEF Init
<1>1. TypeOK
  <2>1. /\ inq \in [Client -> Seq(Request)] /\ buffered \in [Client -> Seq(Request)]
        /\ start \in [Client -> 0..(RespLen - 1)]
        /\ batch \in [Worker -> SUBSET (Client \X SUBSET Flag)]
    OBVIOUS
  <2>2. /\ sent \in [Client -> Nat] /\ asked \in [Client -> 0..MaxReq]
        /\ nresp \in [Client -> Nat] /\ executed \in [Client -> Nat]
        /\ todo \in [Worker -> SUBSET Flag] /\ aev \in [Acceptor -> SUBSET {"srv", "efd"}]
        /\ conns \subseteq Addr /\ busy \subseteq Acceptor \cup Worker
    OBVIOUS
  <2>3. /\ alive \in [Client -> BOOLEAN] /\ stale \in [Client -> BOOLEAN]
        /\ poisoned \in [Client -> BOOLEAN] /\ isRunning \in [Worker -> BOOLEAN]
        /\ areg \in [Acceptor -> BOOLEAN] /\ nmod \in [Worker -> BOOLEAN]
        /\ efd \in BOOLEAN /\ shut \in BOOLEAN /\ run \in BOOLEAN
    BY Zenon
  <2> QED BY <2>1, <2>2, <2>3 DEF TypeOK
<1>2. BatchOnce /\ OwnedOnce
  BY DEF BatchOnce, OwnedOnce, Owns
<1>3. LifeCycle /\ OutHasData /\ CursorExact
  BY DEF LifeCycle, Accepting, OutHasData, CursorExact
<1> QED BY <1>1, <1>2, <1>3 DEF IInv

(* A step that leaves alone what the connections are and who has them.     *)
Quiet ==
  /\ UNCHANGED <<conn, addr, armed, ev, nresp, sent, executed, start, batch, todo>>
  /\ \A c \in Client : peer'[c] = "off" => peer[c] = "off"
  /\ \A w \in Worker :
       wpc'[w] \in {"handle", "stuck"} \/ wpc[w] \in {"handle", "stuck"} =>
         wpc'[w] = wpc[w] /\ cur'[w] = cur[w]
  /\ \A a \in Acceptor : Accepting(a)' => Accepting(a) /\ acur'[a] = acur[a]

LEMMA QuietKeeps == ASSUME IInv, TypeOK', Quiet PROVE IInv'
<1>1. BatchOnce'
  BY DEF Quiet, IInv, TypeOK, BatchOnce
<1>2. OwnedOnce'
  <2>1. \A w \in Worker, c \in Client : Owns(w, c)' <=> Owns(w, c)
    BY DEF Quiet, Owns
  <2>2. armed' = armed
    BY DEF Quiet
  <2> QED BY <2>1, <2>2 DEF IInv, OwnedOnce
<1>3. LifeCycle'
  BY DEF Quiet, IInv, LifeCycle
<1>4. OutHasData'
  <2>1. \A w \in Worker : wpc[w] = "stuck" => wpc'[w] = "stuck" /\ cur'[w] = cur[w]
    BY DEF Quiet
  <2>2. \A w \in Worker : wpc'[w] = "handle" => wpc[w] = "handle" /\ cur'[w] = cur[w]
    BY DEF Quiet
  <2> QED BY <2>1, <2>2 DEF Quiet, IInv, OutHasData
<1>5. CursorExact'
  BY DEF Quiet, IInv, CursorExact
<1> QED BY <1>1, <1>2, <1>3, <1>4, <1>5 DEF IInv

(* A client connects: its connection was not in anybody's hands.           *)
LEMMA ConnectKeeps == ASSUME IInv, NEW c \in Client, Connect(c) PROVE IInv'
<1> USE SizesAssumption, ThreadAssumption DEF kernel, session, object, server, accept, work
<1>1. TypeOK'
  BY DEF IInv, TypeOK, Connect
<1>2. BatchOnce'
  BY DEF IInv, TypeOK, BatchOnce, Connect
<1>3. OwnedOnce'
  <2>1. \A w \in Worker, d \in Client : Owns(w, d)' <=> Owns(w, d)
    BY DEF Connect, Owns
  <2>2. armed' = armed
    BY DEF Connect
  <2> QED BY <2>1, <2>2 DEF IInv, OwnedOnce
<1>4. LifeCycle'
  BY DEF IInv, TypeOK, LifeCycle, Accepting, Connect
<1>5. OutHasData'
  BY DEF IInv, TypeOK, OutHasData, Connect
<1>6. CursorExact'
  BY DEF IInv, TypeOK, CursorExact, Connect
<1> QED BY <1>1, <1>2, <1>3, <1>4, <1>5, <1>6 DEF IInv

(* A client sends a request, or leaves.                                    *)
LEMMA SendKeeps ==
  ASSUME IInv, NEW c \in Client, NEW r \in Request, Send(c, r)
  PROVE  IInv'
<1> USE DEF object, server, accept, work
<1>1. TypeOK'
  <2>1. inq[c] \in Seq(Request) /\ Append(inq[c], r) \in Seq(Request)
    BY DEF IInv, TypeOK
  <2>2. inq' = [inq EXCEPT ![c] = Append(inq[c], r)]
    BY DEF Send
  <2>3. inq' \in [Client -> Seq(Request)]
    BY <2>1, <2>2 DEF IInv, TypeOK
  <2>4. asked' \in [Client -> 0..MaxReq]
    BY SizesAssumption DEF Send, IInv, TypeOK
  <2> QED BY <2>3, <2>4 DEF Send, IInv, TypeOK, session
<1>2. Quiet
  BY DEF IInv, TypeOK, Quiet, Accepting, Send, session
<1> QED BY <1>1, <1>2, QuietKeeps

LEMMA LeaveKeeps == ASSUME IInv, NEW c \in Client, NEW how \in {"fin", "rst"}, Leave(c, how) PROVE IInv'
<1> USE SizesAssumption, ThreadAssumption DEF kernel, session, object, server, accept, work
<1>1. TypeOK'
  BY DEF IInv, TypeOK, Leave
<1>2. Quiet
  BY DEF IInv, TypeOK, Quiet, Accepting, Leave
<1> QED BY <1>1, <1>2, QuietKeeps

(* The steps of an acceptor that have no connection in their hands.        *)
LEMMA AcceptorStartKeeps == ASSUME IInv, NEW a \in Acceptor, AcceptorStart(a) PROVE IInv'
<1> USE SizesAssumption, ThreadAssumption DEF kernel, session, object, server, accept, work
<1>1. TypeOK'
  BY DEF IInv, TypeOK, AcceptorStart
<1>2. Quiet
  BY DEF IInv, TypeOK, Quiet, Accepting, AcceptorStart
<1> QED BY <1>1, <1>2, QuietKeeps

LEMMA AcceptorLoopKeeps == ASSUME IInv, NEW a \in Acceptor, AcceptorLoop(a) PROVE IInv'
<1> USE SizesAssumption, ThreadAssumption DEF kernel, session, object, server, accept, work
<1>1. TypeOK'
  BY DEF IInv, TypeOK, AcceptorLoop
<1>2. Quiet
  BY DEF IInv, TypeOK, Quiet, Accepting, AcceptorLoop
<1> QED BY <1>1, <1>2, QuietKeeps

LEMMA AcceptorWakeKeeps == ASSUME IInv, NEW a \in Acceptor, AcceptorWake(a) PROVE IInv'
<1> USE SizesAssumption, ThreadAssumption DEF kernel, session, object, server, accept, work
<1>1. TypeOK'
  BY DEF IInv, TypeOK, AcceptorWake, AcceptorReady
<1>2. Quiet
  BY DEF IInv, TypeOK, Quiet, Accepting, AcceptorWake, AcceptorReady
<1> QED BY <1>1, <1>2, QuietKeeps

LEMMA AcceptorStoppedKeeps == ASSUME IInv, NEW a \in Acceptor, AcceptorStopped(a) PROVE IInv'
<1> USE SizesAssumption, ThreadAssumption DEF kernel, session, object, server, accept, work
<1>1. TypeOK'
  BY DEF IInv, TypeOK, AcceptorStopped
<1>2. Quiet
  BY DEF IInv, TypeOK, Quiet, Accepting, AcceptorStopped
<1> QED BY <1>1, <1>2, QuietKeeps

LEMMA AcceptorAcceptsKeeps == ASSUME IInv, NEW a \in Acceptor, AcceptorAccepts(a) PROVE IInv'
<1> USE SizesAssumption, ThreadAssumption DEF kernel, session, object, server, accept, work
<1>1. TypeOK'
  BY DEF IInv, TypeOK, AcceptorAccepts
<1>2. Quiet
  BY DEF IInv, TypeOK, Quiet, Accepting, AcceptorAccepts
<1> QED BY <1>1, <1>2, QuietKeeps

LEMMA AcceptorDoneKeeps == ASSUME IInv, NEW a \in Acceptor, AcceptorDone(a) PROVE IInv'
<1> USE SizesAssumption, ThreadAssumption DEF kernel, session, object, server, accept, work
<1>1. TypeOK'
  BY DEF IInv, TypeOK, AcceptorDone
<1>2. Quiet
  BY DEF IInv, TypeOK, Quiet, Accepting, AcceptorDone
<1> QED BY <1>1, <1>2, QuietKeeps

LEMMA AcceptNoneKeeps == ASSUME IInv, NEW a \in Acceptor, AcceptNone(a) PROVE IInv'
<1> USE SizesAssumption, ThreadAssumption DEF kernel, session, object, server, accept, work
<1>1. TypeOK'
  BY DEF IInv, TypeOK, AcceptNone
<1>2. Quiet
  BY DEF IInv, TypeOK, Quiet, Accepting, AcceptNone
<1> QED BY <1>1, <1>2, QuietKeeps

(* A connection leaves the backlog into the hands of one acceptor.         *)
LEMMA AcceptKeeps == ASSUME IInv, NEW a \in Acceptor, NEW c \in Client, Accept(a, c) PROVE IInv'
<1> USE SizesAssumption, ThreadAssumption DEF kernel, session, object, server, accept, work
<1>1. TypeOK'
  <2>1. addr' \in [Client -> Addr \cup {None}]
    BY DEF IInv, TypeOK, Accept
  <2>2. conn' \in [Client -> {"none", "backlog", "new", "live", "freed"}]
    BY DEF IInv, TypeOK, Accept
  <2>3. /\ apc' \in [Acceptor -> {"start", "loop", "wait", "events", "accept",
                                 "inserting", "register", "lock", "erase", "exit"}]
        /\ acur' \in [Acceptor -> Client \cup {None}]
        /\ busy' \subseteq Acceptor \cup Worker
    BY DEF IInv, TypeOK, Accept
  <2> QED BY <2>1, <2>2, <2>3 DEF IInv, TypeOK, Accept
<1>2. BatchOnce'
  BY DEF IInv, BatchOnce, Accept
<1>3. OwnedOnce'
  <2>1. \A w \in Worker, d \in Client : Owns(w, d)' <=> Owns(w, d)
    BY DEF Accept, Owns
  <2>2. armed' = armed
    BY DEF Accept
  <2> QED BY <2>1, <2>2 DEF IInv, OwnedOnce
<1>4. LifeCycle'
  BY SMTT(30) DEF IInv, TypeOK, LifeCycle, Accepting, Accept, Backlog
<1>5. OutHasData'
  BY DEF IInv, TypeOK, OutHasData, Accept, Backlog
<1>6. CursorExact'
  BY DEF IInv, TypeOK, CursorExact, Accept, Backlog
<1> QED BY <1>1, <1>2, <1>3, <1>4, <1>5, <1>6 DEF IInv

(* Connection::Start: the first mask has no EPOLLOUT.                      *)
LEMMA InsertedKeeps == ASSUME IInv, NEW a \in Acceptor, Inserted(a) PROVE IInv'
<1> USE DEF kernel, session, server, work
<1>1. acur[a] \in Client /\ addr[acur[a]] \in Addr /\ apc[a] = "inserting"
  BY DEF Inserted, IInv, LifeCycle, Accepting
<1>2. TypeOK'
  <2>1. conns' \subseteq Addr /\ busy' \subseteq Acceptor \cup Worker
    BY <1>1 DEF Inserted, ConnsUpdated, IInv, TypeOK
  <2> QED BY <1>1, <2>1 DEF Inserted, IInv, TypeOK
<1>3. \A b \in Acceptor : Accepting(b)' <=> Accepting(b)
  BY <1>1 DEF Inserted, Accepting, IInv, TypeOK
<1>4. BatchOnce' /\ OwnedOnce'
  BY DEF Inserted, IInv, BatchOnce, OwnedOnce, Owns
<1>5. LifeCycle'
  BY <1>3 DEF Inserted, IInv, LifeCycle
<1>6. OutHasData'
  BY <1>1 DEF Inserted, IInv, TypeOK, OutHasData
<1>7. CursorExact'
  BY DEF Inserted, IInv, CursorExact
<1> QED BY <1>2, <1>4, <1>5, <1>6, <1>7 DEF IInv

(* The connection becomes live, and no worker has known it before.         *)
LEMMA RegisterKeeps == ASSUME IInv, NEW a \in Acceptor, Register(a) PROVE IInv'
<1> USE SizesAssumption, ThreadAssumption DEF kernel, session, object, server, accept, work
<1>1. TypeOK'
  BY DEF IInv, TypeOK, LifeCycle, Accepting, Register
<1>2. BatchOnce'
  BY DEF IInv, TypeOK, BatchOnce, Register
<1>3. OwnedOnce'
  <2>1. acur[a] \in Client /\ conn[acur[a]] = "new"
    BY DEF Register, IInv, LifeCycle, Accepting
  <2>2. \A w \in Worker, c \in Client : Owns(w, c)' => Owns(w, c)
    BY DEF Register, Owns
  <2>3. \A w \in Worker : ~Owns(w, acur[a])
    BY <2>1 DEF IInv, OwnedOnce, LifeCycle
  <2>4. \A c \in Client : c # acur[a] => armed'[c] = armed[c]
    BY DEF Register, IInv, TypeOK
  <2> QED BY <2>1, <2>2, <2>3, <2>4 DEF IInv, OwnedOnce
<1>4. LifeCycle'
  BY SMTT(30) DEF IInv, TypeOK, LifeCycle, Accepting, Register
<1>5. OutHasData'
  BY DEF IInv, TypeOK, OutHasData, Register
<1>6. CursorExact'
  BY DEF IInv, TypeOK, CursorExact, Register
<1> QED BY <1>1, <1>2, <1>3, <1>4, <1>5, <1>6 DEF IInv

(* It is deleted instead, and no worker has known it either.               *)
LEMMA RegisterFailsKeeps == ASSUME IInv, NEW a \in Acceptor, RegisterFails(a) PROVE IInv'
<1> USE SizesAssumption, ThreadAssumption DEF kernel, session, object, server, accept, work
<1>1. TypeOK'
  BY DEF IInv, TypeOK, LifeCycle, Accepting, RegisterFails, Freed
<1>2. BatchOnce'
  BY DEF IInv, TypeOK, BatchOnce, RegisterFails, Freed
<1>3. OwnedOnce'
  <2>1. acur[a] \in Client /\ conn[acur[a]] = "new"
    BY DEF RegisterFails, IInv, LifeCycle, Accepting
  <2>2. \A w \in Worker, c \in Client : Owns(w, c)' => Owns(w, c)
    BY DEF RegisterFails, Owns
  <2>3. \A w \in Worker : ~Owns(w, acur[a])
    BY <2>1 DEF IInv, OwnedOnce, LifeCycle
  <2>4. \A c \in Client : c # acur[a] => armed'[c] = armed[c]
    BY DEF RegisterFails, Freed, IInv, TypeOK
  <2> QED BY <2>1, <2>2, <2>3, <2>4 DEF IInv, OwnedOnce
<1>4. LifeCycle'
  BY DEF IInv, TypeOK, LifeCycle, Accepting, RegisterFails, Freed
<1>5. OutHasData'
  BY DEF IInv, TypeOK, OutHasData, RegisterFails, Freed
<1>6. CursorExact'
  BY DEF IInv, TypeOK, CursorExact, RegisterFails, Freed
<1> QED BY <1>1, <1>2, <1>3, <1>4, <1>5, <1>6 DEF IInv

(* DeleteConnection takes the address out of conns.                        *)
LEMMA AcceptorEraseKeeps == ASSUME IInv, NEW a \in Acceptor, AcceptorErase(a) PROVE IInv'
<1> USE SizesAssumption, ThreadAssumption DEF kernel, session, object, server, accept, work
<1>1. TypeOK'
  BY DEF IInv, TypeOK, AcceptorErase
<1>2. Quiet
  BY DEF IInv, TypeOK, Quiet, Accepting, AcceptorErase
<1> QED BY <1>1, <1>2, QuietKeeps

LEMMA AcceptorErasedKeeps == ASSUME IInv, NEW a \in Acceptor, AcceptorErased(a) PROVE IInv'
<1> USE SizesAssumption, ThreadAssumption DEF kernel, session, object, server, accept, work
<1>1. TypeOK'
  BY SMTT(30) DEF IInv, TypeOK, AcceptorErased, ConnsUpdated
<1>2. Quiet
  BY DEF IInv, TypeOK, Quiet, Accepting, AcceptorErased, ConnsUpdated
<1> QED BY <1>1, <1>2, QuietKeeps

(* The steps of a worker between two connections.                          *)
LEMMA WorkerLoopKeeps == ASSUME IInv, NEW w \in Worker, WorkerLoop(w) PROVE IInv'
<1> USE SizesAssumption, ThreadAssumption DEF kernel, session, object, server, accept, work
<1>1. TypeOK'
  BY DEF IInv, TypeOK, WorkerLoop
<1>2. Quiet
  BY DEF IInv, TypeOK, Quiet, Accepting, WorkerLoop
<1> QED BY <1>1, <1>2, QuietKeeps

LEMMA WorkerTimeoutKeeps == ASSUME IInv, NEW w \in Worker, WorkerTimeout(w) PROVE IInv'
<1> USE SizesAssumption, ThreadAssumption DEF kernel, session, object, server, accept, work
<1>1. TypeOK'
  BY DEF IInv, TypeOK, WorkerTimeout
<1>2. Quiet
  BY DEF IInv, TypeOK, Quiet, Accepting, WorkerTimeout
<1> QED BY <1>1, <1>2, QuietKeeps

LEMMA WorkerDoneKeeps == ASSUME IInv, NEW w \in Worker, WorkerDone(w) PROVE IInv'
<1> USE SizesAssumption, ThreadAssumption DEF kernel, session, object, server, accept, work
<1>1. TypeOK'
  BY DEF IInv, TypeOK, WorkerDone
<1>2. Quiet
  BY DEF IInv, TypeOK, Quiet, Accepting, WorkerDone
<1> QED BY <1>1, <1>2, QuietKeeps

LEMMA WorkerEraseKeeps == ASSUME IInv, NEW w \in Worker, WorkerErase(w) PROVE IInv'
<1> USE SizesAssumption, ThreadAssumption DEF kernel, session, object, server, accept, work
<1>1. TypeOK'
  BY DEF IInv, TypeOK, WorkerErase
<1>2. Quiet
  BY DEF IInv, TypeOK, Quiet, Accepting, WorkerErase
<1> QED BY <1>1, <1>2, QuietKeeps

LEMMA WorkerErasedKeeps == ASSUME IInv, NEW w \in Worker, WorkerErased(w) PROVE IInv'
<1> USE SizesAssumption, ThreadAssumption DEF kernel, session, object, server, accept, work
<1>1. TypeOK'
  BY SMTT(30) DEF IInv, TypeOK, WorkerErased, ConnsUpdated
<1>2. Quiet
  BY DEF IInv, TypeOK, Quiet, Accepting, WorkerErased, ConnsUpdated
<1> QED BY <1>1, <1>2, QuietKeeps

(* An event of the batch becomes the one at hand.                          *)
LEMMA WorkerNextKeeps == ASSUME IInv, NEW w \in Worker, WorkerNext(w) PROVE IInv'
<1> USE SizesAssumption, ThreadAssumption DEF kernel, session, object, server, accept, work
<1>1. TypeOK'
  <2>1. PICK f \in batch[w] :
          /\ batch' = [batch EXCEPT ![w] = @ \ {f}]
          /\ cur' = [cur EXCEPT ![w] = f[1]] /\ todo' = [todo EXCEPT ![w] = f[2]]
          /\ wpc' = [wpc EXCEPT ![w] = "handle"]
    BY DEF WorkerNext
  <2>2. f \in Client \X SUBSET Flag
    BY DEF IInv, TypeOK
  <2>3. f[1] \in Client /\ f[2] \in SUBSET Flag
    BY <2>2
  <2>4. batch' \in [Worker -> SUBSET (Client \X SUBSET Flag)]
    BY <2>1 DEF IInv, TypeOK
  <2>5. cur' \in [Worker -> Client \cup {None}] /\ todo' \in [Worker -> SUBSET Flag]
    BY <2>1, <2>3 DEF IInv, TypeOK
  <2>6. wpc' \in [Worker -> {"loop", "wait", "events", "handle", "lock", "erase",
                            "stuck", "exit"}]
    BY <2>1 DEF IInv, TypeOK
  <2> QED BY <2>4, <2>5, <2>6 DEF IInv, TypeOK, WorkerNext
<1>2. BatchOnce'
  BY DEF IInv, TypeOK, BatchOnce, WorkerNext
<1>3. OwnedOnce'
  BY SMTT(30) DEF IInv, TypeOK, OwnedOnce, Owns, WorkerNext
<1>4. LifeCycle'
  BY DEF IInv, TypeOK, LifeCycle, Accepting, WorkerNext
<1>5. OutHasData'
  BY DEF IInv, TypeOK, OutHasData, WorkerNext
<1>6. CursorExact'
  BY DEF IInv, TypeOK, CursorExact, WorkerNext
<1> QED BY <1>1, <1>2, <1>3, <1>4, <1>5, <1>6 DEF IInv

(* OnError, OnClose.                                                       *)
LEMMA HandleLeftKeeps == ASSUME IInv, NEW w \in Worker, HandleLeft(w) PROVE IInv'
<1> USE SizesAssumption, ThreadAssumption DEF kernel, session, object, server, accept, work
<1>1. TypeOK'
  BY DEF IInv, TypeOK, HandleLeft
<1>2. BatchOnce'
  BY DEF IInv, TypeOK, BatchOnce, HandleLeft
<1>3. OwnedOnce'
  BY DEF IInv, TypeOK, OwnedOnce, Owns, HandleLeft
<1>4. LifeCycle'
  BY DEF IInv, TypeOK, LifeCycle, Accepting, HandleLeft
<1>5. OutHasData'
  BY DEF IInv, TypeOK, OutHasData, HandleLeft
<1>6. CursorExact'
  BY DEF IInv, TypeOK, CursorExact, HandleLeft
<1> QED BY <1>1, <1>2, <1>3, <1>4, <1>5, <1>6 DEF IInv

(* epoll_wait: what it reports nobody owns, and EPOLLOUT is reported only  *)
(* of a connection with a response.                                        *)
LEMMA WorkerWakeKeeps ==
  ASSUME IInv, NEW w \in Worker, NEW S \in Reported, WorkerWake(w, S)
  PROVE  IInv'
<1> USE SizesAssumption, ThreadAssumption DEF object, session, server, accept
<1>1. \A c \in S \ {None} : c \in Client /\ armed[c] = "armed"
  BY DEF Reported, Ready
<1>2. \A c \in Client : Events(c) \subseteq Flag /\ ("out" \in Events(c) => ev[c] # "rd")
  BY DEF Events, Flag
<1>3. /\ batch' = [batch EXCEPT ![w] = {<<c, Events(c)>> : c \in S \ {None}}]
      /\ armed' = [c \in Client |-> IF c \in S THEN "fired" ELSE armed[c]]
      /\ wpc[w] = "wait" /\ wpc' = [wpc EXCEPT ![w] = "events"]
      /\ nmod' = [nmod EXCEPT ![w] = TRUE]
      /\ UNCHANGED <<peer, inq, sent, asked, efd, shut, object, server, accept, todo,
            cur, mpc>>
  BY DEF WorkerWake, Disarmed
<1> HIDE DEF Events
<1>4. TypeOK'
  <2>1. {<<c, Events(c)>> : c \in S \ {None}} \subseteq Client \X SUBSET Flag
    BY <1>1, <1>2
  <2> QED BY <1>3, <2>1 DEF IInv, TypeOK
<1>5. \A e \in batch'[w] : e[1] \in S \ {None} /\ e[2] = Events(e[1]) /\ e = <<e[1], e[2]>>
  BY <1>3 DEF IInv, TypeOK
<1>6. \A v \in Worker : v # w => batch'[v] = batch[v] /\ wpc'[v] = wpc[v]
  BY <1>3 DEF IInv, TypeOK
<1>7. BatchOnce'
  <2>1. \A e, f \in batch'[w] : e[1] = f[1] => e = f
    BY <1>5
  <2>2. wpc'[w] = "events" /\ UNCHANGED cur
    BY <1>3 DEF IInv, TypeOK
  <2> QED BY <1>6, <2>1, <2>2 DEF IInv, BatchOnce
<1>8. OwnedOnce'
  <2> SUFFICES ASSUME NEW v \in Worker, NEW c \in Client, Owns(v, c)'
               PROVE  armed'[c] = "fired" /\ \A u \in Worker : Owns(u, c)' => u = v
    BY DEF OwnedOnce
  <2>1. \A u \in Worker : Owns(u, c)' => (u = w /\ c \in S) \/ (u # w /\ Owns(u, c))
    BY <1>3, <1>5, <1>6 DEF Owns, IInv, TypeOK
  <2>2. CASE c \in S
    BY <1>1, <1>3, <2>1, <2>2 DEF IInv, OwnedOnce
  <2>3. CASE c \notin S
    BY <1>3, <2>1, <2>3 DEF IInv, OwnedOnce
  <2> QED BY <2>2, <2>3
<1>9. LifeCycle'
  <2>1. \A c \in Client : armed'[c] # "no" => armed[c] # "no"
    BY <1>1, <1>3
  <2> QED BY <1>3, <2>1 DEF IInv, LifeCycle, Accepting
<1>10. OutHasData'
  <2>1. \A e \in batch'[w] : "out" \in e[2] => nresp[e[1]] > 0
    BY <1>1, <1>2, <1>5 DEF IInv, OutHasData, OwnedOnce, Owns
  <2>2. \A v \in Worker : v # w => \A e \in batch'[v] : "out" \in e[2] => nresp[e[1]] > 0
    BY <1>6 DEF IInv, OutHasData
  <2>3. \A v \in Worker : wpc[v] = "stuck" <=> wpc'[v] = "stuck"
    BY <1>3 DEF IInv, TypeOK
  <2>4. \A v \in Worker : wpc'[v] = "handle" => wpc[v] = "handle"
    BY <1>3 DEF IInv, TypeOK
  <2> QED BY <1>3, <2>1, <2>2, <2>3, <2>4 DEF IInv, OutHasData
<1>11. CursorExact'
  BY <1>3 DEF IInv, CursorExact
<1> QED BY <1>4, <1>7, <1>8, <1>9, <1>10, <1>11 DEF IInv

(* A step of worker w on the connection it handles, with responses left    *)
(* wherever EPOLLOUT is.                                                   *)
Serves(w) ==
  /\ wpc[w] = "handle" /\ wpc'[w] \in {"handle", "stuck"}
  /\ UNCHANGED <<peer, armed, conn, addr, apc, acur, batch, cur>>
  /\ \A v \in Worker : v # w => wpc'[v] = wpc[v] /\ todo'[v] = todo[v]
  /\ \A c \in Client : c # cur[w] => nresp'[c] = nresp[c] /\ ev'[c] = ev[c]
  /\ wpc'[w] = "handle" =>
       (ev'[cur[w]] # "rd" \/ "out" \in todo'[w] => nresp'[cur[w]] > 0)

LEMMA OwnerKeeps ==
  ASSUME IInv, TypeOK', CursorExact', NEW w \in Worker, Serves(w)
  PROVE  IInv'
<1> USE DEF Serves
<1>1. cur[w] \in Client /\ Owns(w, cur[w])
  BY DEF IInv, BatchOnce, Owns
<1>2. BatchOnce'
  BY DEF IInv, TypeOK, BatchOnce
<1>3. OwnedOnce'
  <2>1. \A v \in Worker, c \in Client : Owns(v, c)' <=> Owns(v, c)
    BY DEF Owns
  <2> QED BY <2>1 DEF IInv, OwnedOnce
<1>4. LifeCycle'
  BY DEF IInv, LifeCycle, Accepting
<1>5. OutHasData'
  <2>1. \A v \in Worker : \A e \in batch[v] : e[1] \in Client /\ e[1] # cur[w]
    <3> SUFFICES ASSUME NEW v \in Worker, NEW e \in batch[v]
                 PROVE  e[1] \in Client /\ e[1] # cur[w]
      OBVIOUS
    <3>1. e[1] \in Client /\ Owns(v, e[1])
      <4>1. e \in Client \X SUBSET Flag
        BY DEF IInv, TypeOK
      <4> QED BY <4>1 DEF Owns
    <3>2. CASE v = w
      BY <3>1, <3>2 DEF IInv, BatchOnce
    <3>3. CASE v # w
      BY <1>1, <3>1, <3>3 DEF IInv, OwnedOnce
    <3> QED BY <3>2, <3>3
  <2>2. \A v \in Worker : v # w /\ wpc[v] = "handle" => cur[v] \in Client /\ cur[v] # cur[w]
    BY <1>1 DEF IInv, BatchOnce, OwnedOnce, Owns
  <2>3. \A c \in Client : ev'[c] # "rd" =>
           nresp'[c] > 0 \/ \E v \in Worker : wpc'[v] = "stuck" /\ cur'[v] = c
    BY DEF IInv, OutHasData
  <2>4. \A v \in Worker : \A e \in batch'[v] : "out" \in e[2] => nresp'[e[1]] > 0
    BY <2>1 DEF IInv, OutHasData
  <2>5. \A v \in Worker : wpc'[v] = "handle" /\ "out" \in todo'[v] => nresp'[cur'[v]] > 0
    BY <2>2 DEF IInv, OutHasData
  <2> QED BY <2>3, <2>4, <2>5 DEF OutHasData
<1> QED BY <1>2, <1>3, <1>4, <1>5 DEF IInv

(* DoRead adds responses, and sets a mask with EPOLLOUT only if there are  *)
(* any.                                                                    *)
LEMMA ReadEffect ==
  ASSUME IInv, NEW w \in Worker, DoRead(w)
  PROVE  \E x \in Nat :
           /\ nresp' = [nresp EXCEPT ![cur[w]] = @ + x]
           /\ executed' = [executed EXCEPT ![cur[w]] = @ + x]
           /\ ev' \in [Client -> {"rd", "wr", "rdwr"}]
           /\ \A c \in Client : c # cur[w] => ev'[c] = ev[c]
           /\ ev'[cur[w]] # "rd" => ev'[cur[w]] = ev[cur[w]] \/ nresp[cur[w]] + x > 0
           /\ stale' \in [Client -> BOOLEAN] /\ poisoned' \in [Client -> BOOLEAN]
           /\ buffered' \in [Client -> Seq(Request)]
<1> DEFINE c == cur[w]
           q == buffered[c] \o inq[c]
<1>1. c \in Client /\ nresp[c] \in Nat /\ executed[c] \in Nat
  BY DEF DoRead, Handles, IInv, TypeOK, BatchOnce
<1>2. q \in Seq(Request) /\ Goods(q) \in Nat
  <2>1. inq[c] \in Seq(Request) /\ buffered[c] \in Seq(Request)
    BY <1>1 DEF IInv, TypeOK
  <2>2. q \in Seq(Request)
    BY <2>1
  <2> HIDE DEF q
  <2> QED BY <2>2, GoodsBound
<1>3. CASE inq[c] = <<>>
  <2>1. ReadNothing(c)
    BY <1>3 DEF DoRead
  <2>2. /\ nresp' = [nresp EXCEPT ![c] = @ + 0]
        /\ executed' = [executed EXCEPT ![c] = @ + 0]
    BY <1>1, <2>1 DEF ReadNothing, IInv, TypeOK
  <2> QED
    BY <1>1, <2>1, <2>2 DEF ReadNothing, MaskRead, IInv, TypeOK
<1>4. CASE inq[c] # <<>> /\ ReadAll(c)
  <2> DEFINE g == IF poisoned[c] THEN 0 ELSE Goods(q)
             x == g + IF stale[c] THEN 1 ELSE 0
  <2>1. x \in Nat
    BY <1>2
  <2>2. /\ nresp' = [nresp EXCEPT ![c] = @ + x]
        /\ executed' = [executed EXCEPT ![c] = @ + x]
        /\ ev' = [ev EXCEPT ![c] = IF g < Len(q) THEN @ ELSE MaskRead(c)]
    BY <1>4 DEF ReadAll, Executes
  <2>3. /\ stale' \in [Client -> BOOLEAN] /\ buffered' \in [Client -> Seq(Request)]
    <3>1. /\ stale' = [stale EXCEPT ![c] = FALSE]
          /\ buffered' = [buffered EXCEPT ![c] = <<>>]
      BY <1>4 DEF ReadAll
    <3> QED BY <1>1, <3>1 DEF IInv, TypeOK
  <2>4. poisoned' \in [Client -> BOOLEAN]
    <3>1. poisoned' = [poisoned EXCEPT ![c] = g < Len(q)]
      BY <1>4 DEF ReadAll
    <3>2. (g < Len(q)) \in BOOLEAN
      OBVIOUS
    <3> HIDE DEF g, q
    <3> QED BY <1>1, <3>1, <3>2 DEF IInv, TypeOK
  <2> HIDE DEF g, x
  <2>5. nresp'[c] = nresp[c] + x
    BY <1>1, <2>2 DEF IInv, TypeOK
  <2>6. MaskRead(c) \in {"rd", "rdwr"} /\ (MaskRead(c) # "rd" => nresp[c] + x > 0)
    BY <1>1, <2>1, <2>5 DEF MaskRead
  <2> DEFINE m == IF g < Len(q) THEN ev[c] ELSE MaskRead(c)
  <2>7. ev' = [ev EXCEPT ![c] = m] /\ (m = ev[c] \/ m = MaskRead(c))
    BY <2>2
  <2> HIDE DEF m, q
  <2>8. /\ ev' \in [Client -> {"rd", "wr", "rdwr"}] /\ ev'[c] = m
        /\ \A d \in Client : d # c => ev'[d] = ev[d]
    BY <1>1, <2>6, <2>7 DEF IInv, TypeOK
  <2> QED BY <2>1, <2>2, <2>3, <2>4, <2>6, <2>7, <2>8
<1>5. CASE inq[c] # <<>> /\ ReadOne(c)
  <2>1. CASE stale[c] \/ (~poisoned[c] /\ Head(q) = "good")
    <3>1. /\ nresp' = [nresp EXCEPT ![c] = @ + 1]
          /\ executed' = [executed EXCEPT ![c] = @ + 1]
          /\ stale' = [stale EXCEPT ![c] = TRUE]
          /\ buffered' = [buffered EXCEPT ![c] = IF stale[c] THEN q ELSE Tail(q)]
          /\ ev' = [ev EXCEPT ![c] = "wr"] /\ UNCHANGED poisoned
      BY <1>5, <2>1 DEF ReadOne, Executes, MaskStopping
    <3>2. q # <<>>
      BY <1>1, <1>5 DEF IInv, TypeOK
    <3>3. Tail(q) \in Seq(Request)
      BY <1>2, <3>2
    <3> DEFINE b == IF stale[c] THEN q ELSE Tail(q)
    <3>4. b \in Seq(Request) /\ buffered' = [buffered EXCEPT ![c] = b]
      BY <1>2, <3>1, <3>3
    <3> HIDE DEF q, b
    <3>5. /\ ev' \in [Client -> {"rd", "wr", "rdwr"}]
          /\ \A d \in Client : d # c => ev'[d] = ev[d]
          /\ nresp[c] + 1 > 0
      BY <1>1, <3>1 DEF IInv, TypeOK
    <3>6. stale' \in [Client -> BOOLEAN] /\ poisoned' \in [Client -> BOOLEAN]
      BY <1>1, <3>1 DEF IInv, TypeOK
    <3>7. buffered' \in [Client -> Seq(Request)]
      BY <1>1, <3>4 DEF IInv, TypeOK
    <3> QED BY <3>1, <3>5, <3>6, <3>7
  <2>2. CASE ~(stale[c] \/ (~poisoned[c] /\ Head(q) = "good"))
    <3>1. /\ UNCHANGED <<nresp, executed, stale, ev>>
          /\ poisoned' = [poisoned EXCEPT ![c] = TRUE]
          /\ buffered' = [buffered EXCEPT ![c] = <<>>]
      BY <1>5, <2>2 DEF ReadOne
    <3>2. /\ nresp' = [nresp EXCEPT ![c] = @ + 0]
          /\ executed' = [executed EXCEPT ![c] = @ + 0]
      BY <1>1, <3>1 DEF IInv, TypeOK
    <3> QED BY <1>1, <3>1, <3>2 DEF IInv, TypeOK
  <2> QED BY <2>1, <2>2
<1> QED BY <1>3, <1>4, <1>5 DEF DoRead

LEMMA DoReadKeeps == ASSUME IInv, NEW w \in Worker, DoRead(w) PROVE IInv'
<1> DEFINE c == cur[w]
<1> USE SizesAssumption, ThreadAssumption DEF server, accept
<1>1. PICK x \in Nat :
        /\ nresp' = [nresp EXCEPT ![c] = @ + x]
        /\ executed' = [executed EXCEPT ![c] = @ + x]
        /\ ev' \in [Client -> {"rd", "wr", "rdwr"}]
        /\ \A d \in Client : d # c => ev'[d] = ev[d]
        /\ ev'[c] # "rd" => ev'[c] = ev[c] \/ nresp[c] + x > 0
        /\ stale' \in [Client -> BOOLEAN] /\ poisoned' \in [Client -> BOOLEAN]
        /\ buffered' \in [Client -> Seq(Request)]
  BY ReadEffect
<1>2. /\ wpc[w] = "handle" /\ todo' = [todo EXCEPT ![w] = @ \ {"in"}]
      /\ inq' = [inq EXCEPT ![c] = <<>>]
      /\ UNCHANGED <<peer, sent, asked, armed, efd, shut, conn, addr, alive, start,
            server, accept, wpc, batch, cur, nmod, mpc>>
  BY DEF DoRead, Handles
<1>3. c \in Client /\ nresp[c] \in Nat /\ executed[c] \in Nat
  BY <1>2 DEF IInv, TypeOK, BatchOnce
<1>4. TypeOK'
  <2>1. /\ nresp' \in [Client -> Nat] /\ executed' \in [Client -> Nat]
        /\ inq' \in [Client -> Seq(Request)] /\ todo' \in [Worker -> SUBSET Flag]
    BY SMTT(30), <1>1, <1>2, <1>3 DEF IInv, TypeOK
  <2> QED BY <1>1, <1>2, <2>1 DEF IInv, TypeOK
<1>5. CursorExact'
  <2>1. \A d \in Client : /\ executed'[d] - nresp'[d] = executed[d] - nresp[d]
                          /\ sent'[d] = sent[d] /\ start'[d] = start[d]
    BY <1>1, <1>2, <1>3 DEF IInv, TypeOK
  <2> QED BY <2>1 DEF IInv, CursorExact
<1>6. nresp'[c] = nresp[c] + x /\ \A d \in Client : d # c => nresp'[d] = nresp[d]
  BY <1>1, <1>3 DEF IInv, TypeOK
<1>7. ev[c] # "rd" \/ "out" \in todo[w] => nresp[c] > 0
  <2>1. \A v \in Worker : wpc[v] = "stuck" => cur[v] # c
    BY <1>2, <1>3 DEF IInv, OwnedOnce, Owns
  <2> QED BY <1>2, <1>3, <2>1 DEF IInv, OutHasData
<1>8. /\ ev'[c] # "rd" \/ "out" \in todo'[w] => nresp'[c] > 0
      /\ \A v \in Worker : v # w => wpc'[v] = wpc[v] /\ todo'[v] = todo[v]
      /\ wpc'[w] = "handle"
  BY <1>1, <1>2, <1>3, <1>6, <1>7 DEF IInv, TypeOK
<1>9. Serves(w)
  BY <1>1, <1>2, <1>6, <1>8 DEF Serves
<1> QED BY <1>4, <1>5, <1>9, OwnerKeeps

(* What WriteSome does to the cursor: as many whole responses as the bytes *)
(* cover are dropped, and there are that many.                             *)
LEMMA AdvanceEffect ==
  ASSUME IInv, NEW w \in Worker, NEW n \in 1..(BufSize * RespLen), WriteSome(w, n)
  PROVE  \E p \in Nat :
           /\ p <= nresp[cur[w]] /\ start[cur[w]] + n - p * RespLen \in 0..(RespLen - 1)
           /\ nresp' = [nresp EXCEPT ![cur[w]] = @ - p]
           /\ start' = [start EXCEPT ![cur[w]] = @ + n - p * RespLen]
<1> DEFINE c == cur[w]
           p == (start[c] + n) \div RespLen
<1> USE SizesAssumption
<1>1. c \in Client /\ nresp[c] \in Nat /\ start[c] \in Nat /\ n \in Nat
  BY DEF WriteSome, Writes, Handles, IInv, TypeOK, BatchOnce
<1>2. start[c] + n <= nresp[c] * RespLen
  <2>1. n <= (IF nresp[c] < BufSize THEN nresp[c] ELSE BufSize) * RespLen - start[c]
    BY DEF WriteSome, Pending
  <2>2. CASE nresp[c] < BufSize
    BY <1>1, <2>1, <2>2
  <2>3. CASE ~(nresp[c] < BufSize)
    <3>1. BufSize * RespLen <= nresp[c] * RespLen
      BY <1>1, <2>3
    <3> QED BY <1>1, <2>1, <2>3, <3>1
  <2> QED BY <2>2, <2>3
<1>3. start[c] + n \in Nat
  BY <1>1
<1>4. p \in Nat /\ p <= nresp[c]
  BY <1>1, <1>2, <1>3, DivMod, DivBound
<1>5. start[c] + n - p * RespLen \in 0..(RespLen - 1)
  BY <1>1, Remainder
<1>6. /\ nresp' = [nresp EXCEPT ![c] = @ - p]
      /\ start' = [start EXCEPT ![c] = @ + n - p * RespLen]
  BY DEF WriteSome, Advance
<1> HIDE DEF p
<1> QED BY <1>4, <1>5, <1>6

LEMMA WriteSomeKeeps ==
  ASSUME IInv, NEW w \in Worker, NEW n \in 1..(BufSize * RespLen), WriteSome(w, n)
  PROVE  IInv'
<1> DEFINE c == cur[w]
<1> USE SizesAssumption, ThreadAssumption DEF server, accept
<1>1. PICK p \in Nat :
        /\ p <= nresp[c] /\ start[c] + n - p * RespLen \in 0..(RespLen - 1)
        /\ nresp' = [nresp EXCEPT ![c] = @ - p]
        /\ start' = [start EXCEPT ![c] = @ + n - p * RespLen]
  BY AdvanceEffect
<1>2. /\ wpc[w] = "handle" /\ todo' = [todo EXCEPT ![w] = @ \ {"out"}]
      /\ sent' = [sent EXCEPT ![c] = @ + n]
      /\ ev' = [ev EXCEPT ![c] = IF nresp'[c] > 0 THEN MaskWrite
                                 ELSE IF run THEN "rd" ELSE ev[c]]
      /\ wpc' = [wpc EXCEPT ![w] = IF nresp'[c] = 0 /\ ~run THEN "stuck" ELSE @]
      /\ UNCHANGED <<peer, inq, asked, armed, efd, shut, conn, addr, alive,
            executed, stale, poisoned, buffered, server, accept, batch, cur, nmod,
            mpc>>
  BY DEF WriteSome, Writes, Handles, MaskWritten
<1>3. /\ c \in Client /\ nresp[c] \in Nat /\ start[c] \in Nat /\ n \in Nat
      /\ sent[c] \in Nat /\ executed[c] \in Nat
  BY <1>2 DEF IInv, TypeOK, BatchOnce
<1>4. /\ nresp'[c] = nresp[c] - p /\ nresp[c] - p \in Nat
      /\ start'[c] = start[c] + n - p * RespLen /\ sent'[c] = sent[c] + n
      /\ \A d \in Client : d # c =>
           nresp'[d] = nresp[d] /\ start'[d] = start[d] /\ sent'[d] = sent[d]
  BY SMTT(30), <1>1, <1>2, <1>3 DEF IInv, TypeOK
<1>5. TypeOK'
  <2>1. /\ start' \in [Client -> 0..(RespLen - 1)]
        /\ nresp' \in [Client -> Nat] /\ sent' \in [Client -> Nat]
    <3>1. sent[c] + n \in Nat
      BY <1>3
    <3> DEFINE s == start[c] + n - p * RespLen
    <3>2. s \in 0..(RespLen - 1) /\ start' = [start EXCEPT ![c] = s]
      BY <1>1
    <3>3. start' \in [Client -> 0..(RespLen - 1)]
      <4> HIDE DEF s
      <4> QED BY <1>3, <3>2 DEF IInv, TypeOK
    <3>4. nresp' = [nresp EXCEPT ![c] = nresp[c] - p] /\ nresp[c] - p \in Nat
      BY <1>1, <1>4
    <3>5. nresp' \in [Client -> Nat]
      BY <1>3, <3>4 DEF IInv, TypeOK
    <3>6. sent' \in [Client -> Nat]
      BY <1>2, <1>3, <3>1 DEF IInv, TypeOK
    <3> QED BY <3>3, <3>5, <3>6
  <2>2. /\ ev' \in [Client -> {"rd", "wr", "rdwr"}]
        /\ wpc' \in [Worker -> {"loop", "wait", "events", "handle", "lock", "erase",
                                "stuck", "exit"}]
        /\ todo' \in [Worker -> SUBSET Flag]
    BY <1>2, <1>3 DEF IInv, TypeOK, MaskWrite
  <2> QED BY <1>2, <2>1, <2>2 DEF IInv, TypeOK
<1>6. CursorExact'
  <2>1. sent[c] = (executed[c] - nresp[c]) * RespLen + start[c]
    BY <1>3 DEF IInv, CursorExact
  <2>2. (executed[c] - (nresp[c] - p)) * RespLen
          = (executed[c] - nresp[c]) * RespLen + p * RespLen
    BY <1>3
  <2>3. sent'[c] = (executed'[c] - nresp'[c]) * RespLen + start'[c]
    <3> DEFINE X == (executed[c] - nresp[c]) * RespLen
               P == p * RespLen
    <3>1. X \in Int /\ P \in Int
      BY <1>3
    <3>2. sent'[c] = X + start[c] + n /\ start'[c] = start[c] + n - P
      BY <1>3, <1>4, <2>1
    <3>3. (executed'[c] - nresp'[c]) * RespLen = X + P
      BY <1>2, <1>4, <2>2
    <3> HIDE DEF X, P
    <3> QED BY <1>3, <3>1, <3>2, <3>3
  <2> QED BY <1>2, <1>4, <2>3 DEF IInv, CursorExact
<1>7. /\ \A v \in Worker : v # w => wpc'[v] = wpc[v] /\ todo'[v] = todo[v]
      /\ \A d \in Client : d # c => nresp'[d] = nresp[d] /\ ev'[d] = ev[d]
      /\ wpc'[w] \in {"handle", "stuck"}
      /\ wpc'[w] = "handle" => (ev'[c] # "rd" \/ "out" \in todo'[w] => nresp'[c] > 0)
  BY SMTT(30), <1>2, <1>3, <1>4 DEF IInv, TypeOK, MaskWrite
<1>8. Serves(w)
  BY <1>2, <1>7 DEF Serves
<1> QED BY <1>5, <1>6, <1>8, OwnerKeeps

(* EAGAIN keeps the responses that were to be written.                     *)
LEMMA WriteAgainKeeps == ASSUME IInv, NEW w \in Worker, WriteAgain(w) PROVE IInv'
<1> USE SizesAssumption, ThreadAssumption DEF kernel, session, server, accept, Writes, Handles
<1>1. cur[w] \in Client /\ nresp[cur[w]] > 0
  BY DEF WriteAgain, IInv, BatchOnce, OutHasData
<1>2. TypeOK' /\ CursorExact'
  BY <1>1 DEF WriteAgain, IInv, TypeOK, CursorExact, MaskWrite
<1>3. Serves(w)
  BY <1>1 DEF Serves, WriteAgain, IInv, TypeOK, MaskWrite
<1> QED BY <1>2, <1>3, OwnerKeeps

(* OnError with the mutex held: the worker stays where it is.              *)
LEMMA WriteFailsKeeps == ASSUME IInv, NEW w \in Worker, WriteFails(w) PROVE IInv'
<1> USE SizesAssumption, ThreadAssumption
     DEF kernel, object, session, server, accept, Writes, Handles
<1>1. TypeOK' /\ CursorExact'
  BY DEF WriteFails, IInv, TypeOK, CursorExact
<1>2. Serves(w)
  BY DEF Serves, WriteFails, IInv, TypeOK
<1> QED BY <1>1, <1>2, OwnerKeeps

(* A step after which worker w has no connection at hand any more.         *)
Releases(w) ==
  /\ wpc[w] = "handle" /\ todo[w] = {} /\ wpc'[w] \notin {"handle", "stuck"}
  /\ UNCHANGED <<peer, addr, ev, nresp, sent, executed, start, batch, apc, acur>>
  /\ \A v \in Worker : v # w =>
       wpc'[v] = wpc[v] /\ todo'[v] = todo[v] /\ cur'[v] = cur[v]
  /\ \A c \in Client : c # cur[w] => armed'[c] = armed[c] /\ conn'[c] = conn[c]
  /\ armed'[cur[w]] # "no" => conn'[cur[w]] = "live"
  /\ conn'[cur[w]] \in {"live", "freed"}

LEMMA Released ==
  ASSUME IInv, TypeOK', NEW w \in Worker, Releases(w)
  PROVE  IInv'
<1> USE DEF Releases
<1>1. cur[w] \in Client /\ conn[cur[w]] = "live"
  BY DEF IInv, BatchOnce, OwnedOnce, Owns, LifeCycle
<1>2. BatchOnce'
  <2>1. \A v \in Worker : wpc'[v] \in {"handle", "stuck"} =>
          wpc[v] = wpc'[v] /\ cur'[v] = cur[v]
    OBVIOUS
  <2> QED BY <2>1 DEF IInv, BatchOnce
<1>3. OwnedOnce'
  <2>1. \A v \in Worker, c \in Client : Owns(v, c)' => Owns(v, c)
    BY DEF Owns
  <2>2. PICK d \in Client : d = cur[w]
    BY <1>1
  <2>3. \A v \in Worker : ~Owns(v, d)'
    <3>1. Owns(w, d) /\ ~Owns(w, d)'
      BY <2>2 DEF Owns, IInv, BatchOnce
    <3>2. \A v \in Worker : Owns(v, d) => v = w
      BY <3>1 DEF IInv, OwnedOnce
    <3> QED BY <2>1, <3>1, <3>2
  <2>4. \A c \in Client : c # d => armed'[c] = armed[c]
    BY <2>2
  <2> QED BY <2>1, <2>3, <2>4 DEF IInv, OwnedOnce
<1>4. LifeCycle'
  <2>1. \A a \in Acceptor : Accepting(a)' =>
          Accepting(a) /\ acur'[a] = acur[a] /\ acur[a] # cur[w]
    BY <1>1 DEF IInv, LifeCycle, Accepting
  <2>2. \A c \in Client : peer'[c] = "off" => conn'[c] = "none"
    BY <1>1 DEF IInv, LifeCycle
  <2>3. \A a, b \in Acceptor :
          Accepting(a)' /\ Accepting(b)' /\ acur'[a] = acur'[b] => a = b
    BY <2>1 DEF IInv, LifeCycle
  <2> QED BY <1>1, <2>1, <2>2, <2>3 DEF IInv, LifeCycle
<1>5. OutHasData'
  <2>1. \A v \in Worker : wpc[v] = "stuck" => wpc'[v] = "stuck" /\ cur'[v] = cur[v]
    OBVIOUS
  <2>2. \A v \in Worker : wpc'[v] = "handle" =>
          wpc[v] = "handle" /\ cur'[v] = cur[v] /\ todo'[v] = todo[v]
    OBVIOUS
  <2> QED BY <2>1, <2>2 DEF IInv, OutHasData
<1>6. CursorExact'
  BY DEF IInv, CursorExact
<1> QED BY <1>2, <1>3, <1>4, <1>5, <1>6 DEF IInv

LEMMA RearmKeeps == ASSUME IInv, NEW w \in Worker, Rearm(w) PROVE IInv'
<1> USE SizesAssumption, ThreadAssumption DEF object, session, server, accept
<1>1. cur[w] \in Client /\ conn[cur[w]] = "live"
  BY DEF Rearm, IInv, BatchOnce, OwnedOnce, Owns, LifeCycle
<1>2. TypeOK'
  BY <1>1 DEF Rearm, Rearmed, IInv, TypeOK
<1>3. Releases(w)
  BY <1>1 DEF Releases, Rearm, Rearmed, IInv, TypeOK
<1> QED BY <1>2, <1>3, Released

LEMMA DiscardKeeps == ASSUME IInv, NEW w \in Worker, Discard(w) PROVE IInv'
<1> USE SizesAssumption, ThreadAssumption DEF session, server, accept
<1>1. cur[w] \in Client
  BY DEF Discard, IInv, BatchOnce
<1>2. TypeOK'
  BY <1>1 DEF Discard, Freed, IInv, TypeOK
<1>3. Releases(w)
  BY <1>1 DEF Releases, Discard, Freed, IInv, TypeOK
<1> QED BY <1>2, <1>3, Released

(* Stop and Join touch no connection.                                      *)
LEMMA StopStartsKeeps == ASSUME IInv, StopStarts PROVE IInv'
<1> USE SizesAssumption, ThreadAssumption DEF kernel, session, object, server, accept, work
<1>1. TypeOK'
  BY DEF IInv, TypeOK, StopStarts
<1>2. Quiet
  BY DEF IInv, TypeOK, Quiet, Accepting, StopStarts
<1> QED BY <1>1, <1>2, QuietKeeps

LEMMA StopWorkerKeeps == ASSUME IInv, NEW w \in Worker, StopWorker(w) PROVE IInv'
<1> USE SizesAssumption, ThreadAssumption DEF kernel, session, object, server, accept, work
<1>1. TypeOK'
  BY DEF IInv, TypeOK, StopWorker
<1>2. Quiet
  BY DEF IInv, TypeOK, Quiet, Accepting, StopWorker
<1> QED BY <1>1, <1>2, QuietKeeps

LEMMA StopWakesKeeps == ASSUME IInv, StopWakes PROVE IInv'
<1> USE SizesAssumption, ThreadAssumption DEF kernel, session, object, server, accept, work
<1>1. TypeOK'
  BY DEF IInv, TypeOK, StopWakes
<1>2. Quiet
  BY DEF IInv, TypeOK, Quiet, Accepting, StopWakes
<1> QED BY <1>1, <1>2, QuietKeeps

LEMMA StopShutsKeeps == ASSUME IInv, StopShuts PROVE IInv'
<1> USE SizesAssumption, ThreadAssumption DEF kernel, session, object, server, accept, work
<1>1. TypeOK'
  BY DEF IInv, TypeOK, StopShuts
<1>2. Quiet
  BY DEF IInv, TypeOK, Quiet, Accepting, StopShuts
<1> QED BY <1>1, <1>2, QuietKeeps

LEMMA JoinKeeps == ASSUME IInv, Join PROVE IInv'
<1> USE SizesAssumption, ThreadAssumption DEF kernel, session, object, server, accept, work
<1>1. TypeOK'
  BY DEF IInv, TypeOK, Join
<1>2. Quiet
  BY DEF IInv, TypeOK, Quiet, Accepting, Join
<1> QED BY <1>1, <1>2, QuietKeeps

(* Nothing happens.                                                        *)
LEMMA StutterKeeps == ASSUME IInv, UNCHANGED vars PROVE IInv'
<1> USE DEF vars, kernel, session, object, server, accept, work
<1>1. TypeOK'
  BY DEF IInv, TypeOK
<1>2. Quiet
  BY DEF Quiet, Accepting
<1> QED BY <1>1, <1>2, QuietKeeps

(* Every step keeps the invariant.                                         *)
LEMMA NextIInv == IInv /\ [Next]_vars => IInv'
<1> SUFFICES ASSUME IInv, [Next]_vars PROVE IInv'
  OBVIOUS
<1>1. ASSUME NEW c \in Client, ClientStep(c) PROVE IInv'
  BY <1>1, ConnectKeeps, SendKeeps, LeaveKeeps DEF ClientStep
<1>2. ASSUME NEW a \in Acceptor, AcceptorStep(a) PROVE IInv'
  BY <1>2, AcceptorStartKeeps, AcceptorLoopKeeps, AcceptorWakeKeeps,
     AcceptorStoppedKeeps, AcceptorAcceptsKeeps, AcceptorDoneKeeps, AcceptKeeps,
     AcceptNoneKeeps, InsertedKeeps, RegisterKeeps, RegisterFailsKeeps,
     AcceptorEraseKeeps, AcceptorErasedKeeps DEF AcceptorStep
<1>3. ASSUME NEW w \in Worker, WorkerStep(w) PROVE IInv'
  <2>1. CASE RearmFails(w) \/ Drop(w)
    BY <2>1, DiscardKeeps DEF RearmFails, Drop
  <2> QED
    BY <1>3, <2>1, WorkerLoopKeeps, WorkerWakeKeeps, WorkerTimeoutKeeps,
       WorkerNextKeeps, WorkerDoneKeeps, HandleLeftKeeps, DoReadKeeps,
       WriteSomeKeeps, WriteAgainKeeps, WriteFailsKeeps, RearmKeeps,
       WorkerEraseKeeps, WorkerErasedKeeps DEF WorkerStep, WorkerWrites
<1>4. CASE MainStep \/ StopStarts
  BY <1>4, StopStartsKeeps, StopWorkerKeeps, StopWakesKeeps, StopShutsKeeps,
     JoinKeeps DEF MainStep
<1> QED BY <1>1, <1>2, <1>3, <1>4, StutterKeeps DEF Next

(* The connections have one owner each, a life with one direction, and     *)
(* responses wherever EPOLLOUT is, in every state of the server.           *)
THEOREM Inductive == Spec => []IInv
BY InitIInv, NextIInv, PTL DEF Spec

(* Every variable keeps its type, data_start included (Connection.cpp:     *)
(* 144-160), for any sizes.                                                *)
THEOREM TypeCorrect == Spec => []TypeOK
<1>1. IInv => TypeOK
  BY DEF IInv
<1> QED BY <1>1, Inductive, PTL

(* What a worker holds is what it owns.                                    *)
LEMMA HeldOwned ==
  ASSUME IInv, NEW w \in Worker, NEW c \in Held(w)
  PROVE  c \in Client /\ Owns(w, c)
BY DEF IInv, TypeOK, BatchOnce, Held, Owns

(* A connection is in the hands of one worker, and disarmed meanwhile      *)
(* (Connection.h:55-57, Worker.cpp:109-112).                               *)
THEOREM OneHandlerCorrect == Spec => []OneHandler
<1>1. IInv => OneHandler
  BY HeldOwned DEF IInv, OwnedOnce, OneHandler
<1> QED BY <1>1, Inductive, PTL

(* Neither a worker nor epoll knows a deleted connection                   *)
(* (ServerImpl.cpp:32-37, Worker.cpp:109-124).                             *)
THEOREM NoUseAfterFreeCorrect == Spec => []NoUseAfterFree
<1>1. IInv => NoUseAfterFree
  <2> SUFFICES ASSUME IInv PROVE NoUseAfterFree
    OBVIOUS
  <2>1. \A w \in Worker : \A c \in Held(w) : conn[c] = "live"
    BY HeldOwned DEF IInv, OwnedOnce, LifeCycle
  <2> QED BY <2>1 DEF IInv, LifeCycle, NoUseAfterFree
<1> QED BY <1>1, Inductive, PTL

(* The assert of DoWrite (Connection.cpp:127) never fails.                 *)
THEOREM WriteHasDataCorrect == Spec => []WriteHasData
<1>1. IInv => WriteHasData
  BY DEF IInv, OutHasData, WriteHasData
<1> QED BY <1>1, Inductive, PTL

(* The bytes handed to the kernel are those of the responses dropped and   *)
(* of the one begun, however writev splits them (Connection.cpp:128-162).  *)
THEOREM CursorCorrect == Spec => []CursorExact
<1>1. IInv => CursorExact
  BY DEF IInv
<1> QED BY <1>1, Inductive, PTL

-----------------------------------------------------------------------------
(* Repetitions of a command that was left behind.                          *)

(* The requests of c that have been executed or wait to be.                *)
Total(c) == executed[c] + Len(buffered[c]) + Len(inq[c])

(* The workers may still read from connection c.                           *)
CanRead(c) ==
  \/ ev[c] # "wr"
  \/ \E w \in Worker : \E e \in batch[w] : e[1] = c /\ "in" \in e[2]
  \/ \E w \in Worker :
       wpc[w] \in {"handle", "stuck"} /\ cur[w] = c /\ "in" \in todo[w]

(* Once an acceptor has started, run is off only if one has stopped; so a  *)
(* command is left behind only after a stop.                               *)
StopSeen ==
  /\ \A a \in late : apc[a] # "start"
  /\ \A c \in Client : conn[c] \notin {"none", "backlog"} =>
       \E a \in Acceptor : apc[a] # "start"
  /\ (\E a \in Acceptor : apc[a] # "start") /\ (\A b \in Acceptor : areg[b]) => run
  /\ \A c \in Client : stale[c] =>
       conn[c] \in {"live", "freed"} /\ \E b \in Acceptor : ~areg[b]

(* A connection with a command left behind that may be read from has one   *)
(* repetition to its credit: it was given when run was turned on again.    *)
StaleCredit ==
  \A c \in Client :
    stale[c] /\ (run \/ CanRead(c)) => Total(c) + 1 <= asked[c] + Cardinality(late)

RInv == IInv /\ StopSeen /\ StaleCredit /\ RepeatsBounded

LEMMA LateCounted ==
  ASSUME IInv PROVE IsFiniteSet(late) /\ Cardinality(late) \in Nat
<1>1. IsFiniteSet(late)
  BY ThreadAssumption, FS_Subset DEF IInv, TypeOK
<1> QED BY <1>1, FS_CardinalityType

LEMMA TotalTyped ==
  ASSUME IInv, NEW c \in Client
  PROVE  /\ executed[c] \in Nat /\ Len(buffered[c]) \in Nat /\ Len(inq[c]) \in Nat
         /\ Total(c) \in Nat /\ asked[c] \in Nat
<1>1. /\ executed[c] \in Nat /\ buffered[c] \in Seq(Request) /\ inq[c] \in Seq(Request)
      /\ asked[c] \in Nat
  BY SizesAssumption DEF IInv, TypeOK
<1>2. Len(buffered[c]) \in Nat /\ Len(inq[c]) \in Nat
  BY <1>1
<1> QED BY <1>1, <1>2 DEF Total

LEMMA TotalTypedNext ==
  ASSUME IInv', NEW c \in Client
  PROVE  Total(c)' \in Nat /\ asked'[c] \in Nat
<1>1. /\ executed'[c] \in Nat /\ buffered'[c] \in Seq(Request)
      /\ inq'[c] \in Seq(Request) /\ asked'[c] \in Nat
  BY SizesAssumption DEF IInv, TypeOK
<1>2. Len(buffered'[c]) \in Nat /\ Len(inq'[c]) \in Nat
  BY <1>1
<1> QED BY <1>1, <1>2 DEF Total

LEMMA InitRepeats == Init => StopSeen /\ StaleCredit /\ RepeatsBounded
<1> SUFFICES ASSUME Init PROVE StopSeen /\ StaleCredit /\ RepeatsBounded
  OBVIOUS
<1>1. StopSeen /\ StaleCredit
  BY DEF Init, StopSeen, StaleCredit
<1>2. RepeatsBounded
  <2>1. Cardinality(late) \in Nat
    BY InitIInv, LateCounted
  <2>2. \A c \in Client : executed[c] = 0 /\ buffered[c] = <<>> /\ inq[c] = <<>> /\ asked[c] = 0
    BY DEF Init
  <2> QED BY <2>1, <2>2 DEF RepeatsBounded
<1> QED BY <1>1, <1>2

(* A step that turns run on for nobody and gives a stale connection no     *)
(* chance to be read.                                                      *)
Steady ==
  /\ UNCHANGED <<areg, stale, late, run>>
  /\ \A a \in Acceptor : apc'[a] = "start" <=> apc[a] = "start"
  /\ \A c \in Client : conn'[c] \notin {"none", "backlog"} =>
       conn[c] \notin {"none", "backlog"} \/ \E a \in Acceptor : apc[a] # "start"
  /\ \A c \in Client : conn[c] \in {"live", "freed"} => conn'[c] \in {"live", "freed"}
  /\ \A c \in Client : stale[c] /\ CanRead(c)' => run \/ CanRead(c)

(* A step after which every request is counted as often as before.         *)
Balanced == \A c \in Client : Total(c)' + asked[c] = Total(c) + asked'[c]

LEMMA SteadyKeeps ==
  ASSUME RInv, IInv', Steady, Balanced
  PROVE  StopSeen' /\ StaleCredit' /\ RepeatsBounded'
<1>0. late \subseteq Acceptor
  BY DEF RInv, IInv, TypeOK
<1>1. StopSeen'
  <2>1. \A a \in late' : apc'[a] # "start"
    BY <1>0 DEF RInv, StopSeen, Steady
  <2>2. (\E a \in Acceptor : apc[a] # "start") <=> (\E a \in Acceptor : apc'[a] # "start")
    BY DEF Steady
  <2>3. \A c \in Client : conn'[c] \notin {"none", "backlog"} =>
          \E a \in Acceptor : apc'[a] # "start"
    BY <2>2 DEF RInv, StopSeen, Steady
  <2>4. (\E a \in Acceptor : apc'[a] # "start") /\ (\A b \in Acceptor : areg'[b]) => run'
    BY <2>2 DEF RInv, StopSeen, Steady
  <2>5. \A c \in Client : stale'[c] =>
          conn'[c] \in {"live", "freed"} /\ \E b \in Acceptor : ~areg'[b]
    BY DEF RInv, StopSeen, Steady
  <2> QED BY <2>1, <2>3, <2>4, <2>5 DEF StopSeen
<1>2. Cardinality(late) \in Nat /\ late' = late
  BY LateCounted DEF RInv, Steady
<1>3. ASSUME NEW c \in Client, NEW k \in Nat, Total(c) + k <= asked[c] + Cardinality(late)
      PROVE  Total(c)' + k <= asked'[c] + Cardinality(late)
  <2>1. Total(c) \in Nat /\ asked[c] \in Nat
    BY TotalTyped DEF RInv
  <2>2. Total(c)' \in Nat /\ asked'[c] \in Nat
    BY TotalTypedNext
  <2>3. Total(c)' + asked[c] = Total(c) + asked'[c]
    BY DEF Balanced
  <2> QED BY <1>2, <1>3, <2>1, <2>2, <2>3
<1>4. StaleCredit'
  BY <1>2, <1>3 DEF RInv, StaleCredit, Steady
<1>5. RepeatsBounded'
  <2>1. ASSUME NEW c \in Client PROVE Total(c)' <= asked'[c] + Cardinality(late)
    <3>1. Total(c) + 0 <= asked[c] + Cardinality(late)
      BY TotalTyped DEF RInv, RepeatsBounded, Total
    <3>2. Total(c)' + 0 <= asked'[c] + Cardinality(late)
      BY <1>3, <3>1
    <3>3. Total(c)' \in Nat
      BY TotalTypedNext
    <3> QED BY <3>2, <3>3
  <2> QED BY <1>2, <2>1 DEF RepeatsBounded, Total
<1> QED BY <1>1, <1>4, <1>5

(* What a worker may read of a connection has been known before.           *)
LEMMA NoNewReads ==
  ASSUME \A v \in Worker : batch'[v] \subseteq batch[v],
         \A v \in Worker : wpc'[v] \in {"handle", "stuck"} =>
           wpc[v] \in {"handle", "stuck"} /\ cur'[v] = cur[v] /\ todo'[v] \subseteq todo[v],
         NEW c \in Client, ev'[c] # "wr" => run \/ ev[c] # "wr", CanRead(c)'
  PROVE  run \/ CanRead(c)
<1>1. CASE ev'[c] # "wr"
  BY <1>1 DEF CanRead
<1>2. ASSUME NEW v \in Worker, NEW e \in batch'[v], e[1] = c, "in" \in e[2]
      PROVE  CanRead(c)
  BY <1>2 DEF CanRead
<1>3. ASSUME NEW v \in Worker, wpc'[v] \in {"handle", "stuck"}, cur'[v] = c,
             "in" \in todo'[v]
      PROVE  CanRead(c)
  BY <1>3 DEF CanRead
<1> QED BY <1>1, <1>2, <1>3 DEF CanRead

(* The clients, the acceptors but for the start and the end of their       *)
(* loops, and the thread in Stop.                                          *)
LEMMA ClientSteady ==
  ASSUME IInv, StopSeen, NEW c \in Client, ClientStep(c)
  PROVE  Steady
<1> USE DEF kernel, session, object, server, accept, work
<1>1. CASE Connect(c)
  <2>1. /\ UNCHANGED <<apc, areg, late, stale, run, ev, batch, todo, cur, wpc>>
        /\ conn' = [conn EXCEPT ![c] = "backlog"] /\ conn[c] = "none"
    BY <1>1 DEF Connect, IInv, LifeCycle
  <2>2. \A d \in Client : conn'[d] = IF d = c THEN "backlog" ELSE conn[d]
    BY <2>1 DEF IInv, TypeOK
  <2>3. \A d \in Client : CanRead(d)' => CanRead(d)
    BY <2>1 DEF CanRead
  <2> QED BY <2>1, <2>2, <2>3 DEF Steady
<1>2. ASSUME NEW r \in Request, Send(c, r) PROVE Steady
  BY <1>2 DEF Send, Steady, CanRead
<1>3. ASSUME NEW how \in {"fin", "rst"}, Leave(c, how) PROVE Steady
  BY <1>3 DEF Leave, Steady, CanRead
<1> QED BY <1>1, <1>2, <1>3 DEF ClientStep

LEMMA AcceptorSteady ==
  ASSUME IInv, StopSeen, NEW a \in Acceptor, AcceptorStep(a),
         ~AcceptorStart(a), ~AcceptorStopped(a)
  PROVE  Steady
<1> USE DEF kernel, session, object, server, accept, work
<1>1. CASE AcceptorLoop(a)
  BY <1>1 DEF AcceptorLoop, IInv, TypeOK, Steady, CanRead
<1>2. CASE AcceptorWake(a)
  BY <1>2 DEF AcceptorWake, IInv, TypeOK, Steady, CanRead
<1>3. CASE AcceptorAccepts(a)
  BY <1>3 DEF AcceptorAccepts, IInv, TypeOK, Steady, CanRead
<1>4. CASE AcceptorDone(a)
  BY <1>4 DEF AcceptorDone, IInv, TypeOK, Steady, CanRead
<1>5. CASE AcceptNone(a)
  BY <1>5 DEF AcceptNone, IInv, TypeOK, Steady, CanRead
<1>6. CASE AcceptorErase(a)
  BY <1>6 DEF AcceptorErase, IInv, TypeOK, Steady, CanRead
<1>7. CASE AcceptorErased(a)
  BY <1>7 DEF AcceptorErased, IInv, TypeOK, Steady, CanRead
<1>8. ASSUME NEW c \in Client, Accept(a, c) PROVE Steady
  <2>1. /\ UNCHANGED <<areg, late, stale, run, ev, batch, todo, cur, wpc>>
        /\ conn' = [conn EXCEPT ![c] = "new"] /\ conn[c] = "backlog"
        /\ apc[a] = "accept" /\ apc' = [apc EXCEPT ![a] = "inserting"]
    BY <1>8 DEF Accept, Backlog
  <2>2. /\ \A d \in Client : conn'[d] = IF d = c THEN "new" ELSE conn[d]
        /\ \A b \in Acceptor : apc'[b] = "start" <=> apc[b] = "start"
    BY <2>1 DEF IInv, TypeOK
  <2>3. \A d \in Client : CanRead(d)' => CanRead(d)
    BY <2>1 DEF CanRead
  <2> QED BY <2>1, <2>2, <2>3 DEF Steady
<1>9. CASE Inserted(a)
  <2>1. acur[a] \in Client /\ conn[acur[a]] = "new"
    BY <1>9 DEF Inserted, IInv, LifeCycle, Accepting
  <2>2. ~stale[acur[a]]
    BY <2>1 DEF StopSeen
  <2>3. ev' = [ev EXCEPT ![acur[a]] = "rd"] /\ UNCHANGED <<batch, todo, wpc, cur>>
    BY <1>9 DEF Inserted
  <2>4. \A c \in Client : c # acur[a] => ev'[c] = ev[c]
    BY <2>1, <2>3 DEF IInv, TypeOK
  <2>5. \A c \in Client : stale[c] /\ CanRead(c)' => CanRead(c)
    BY <2>2, <2>3, <2>4 DEF CanRead
  <2> QED BY <1>9, <2>5 DEF Inserted, IInv, TypeOK, Steady
<1>10. CASE Register(a)
  <2>1. /\ UNCHANGED <<areg, late, stale, run, ev, batch, todo, cur, wpc>>
        /\ conn' = [conn EXCEPT ![acur[a]] = "live"] /\ conn[acur[a]] = "new"
        /\ apc[a] = "register" /\ apc' = [apc EXCEPT ![a] = "accept"]
    BY <1>10 DEF Register, IInv, LifeCycle, Accepting
  <2>2. /\ \A d \in Client : conn'[d] = IF d = acur[a] THEN "live" ELSE conn[d]
        /\ \A b \in Acceptor : apc'[b] = "start" <=> apc[b] = "start"
    BY <2>1 DEF IInv, TypeOK
  <2>3. \A d \in Client : CanRead(d)' => CanRead(d)
    BY <2>1 DEF CanRead
  <2> QED BY <2>1, <2>2, <2>3 DEF Steady
<1>11. CASE RegisterFails(a)
  <2>1. /\ UNCHANGED <<areg, late, stale, run, ev, batch, todo, cur, wpc>>
        /\ conn' = [conn EXCEPT ![acur[a]] = "freed"] /\ conn[acur[a]] = "new"
        /\ apc[a] = "register" /\ apc' = [apc EXCEPT ![a] = "lock"]
    BY <1>11 DEF RegisterFails, Freed, IInv, LifeCycle, Accepting
  <2>2. /\ \A d \in Client : conn'[d] = IF d = acur[a] THEN "freed" ELSE conn[d]
        /\ \A b \in Acceptor : apc'[b] = "start" <=> apc[b] = "start"
    BY <2>1 DEF IInv, TypeOK
  <2>3. \A d \in Client : CanRead(d)' => CanRead(d)
    BY <2>1 DEF CanRead
  <2> QED BY <2>1, <2>2, <2>3 DEF Steady
<1> QED
  BY <1>1, <1>2, <1>3, <1>4, <1>5, <1>6, <1>7, <1>8, <1>9, <1>10, <1>11
  DEF AcceptorStep

LEMMA MainSteady ==
  ASSUME MainStep \/ StopStarts \/ UNCHANGED vars PROVE Steady
BY DEF vars, MainStep, StopStarts, StopWorker, StopWakes, StopShuts, Join, kernel,
   session, object, server, accept, work, Steady, CanRead

(* The workers, but for DoRead: epoll reports EPOLLIN only under a mask    *)
(* that has it, and a write puts it there only while run is on.            *)
LEMMA WorkerSteady ==
  ASSUME IInv, NEW w \in Worker, WorkerStep(w), ~DoRead(w)
  PROVE  Steady
<1> USE DEF kernel, session, object, server, accept, work
<1>0. wpc[w] = "handle" => cur[w] \in Client /\ conn[cur[w]] = "live"
  BY DEF IInv, BatchOnce, OwnedOnce, Owns, LifeCycle
<1>1. CASE WorkerLoop(w)
  BY <1>1 DEF WorkerLoop, IInv, TypeOK, Steady, CanRead
<1>2. CASE WorkerTimeout(w)
  BY <1>2 DEF WorkerTimeout, IInv, TypeOK, Steady, CanRead
<1>3. CASE WorkerDone(w)
  BY <1>3 DEF WorkerDone, IInv, TypeOK, Steady, CanRead
<1>4. CASE WorkerErase(w)
  BY <1>4 DEF WorkerErase, IInv, TypeOK, Steady, CanRead
<1>5. CASE WorkerErased(w)
  BY <1>5 DEF WorkerErased, IInv, TypeOK, Steady, CanRead
<1>6. CASE HandleLeft(w)
  BY <1>6 DEF HandleLeft, IInv, TypeOK, Steady, CanRead
<1>7. CASE WorkerNext(w)
  <2>1. PICK f \in batch[w] :
          /\ batch' = [batch EXCEPT ![w] = @ \ {f}]
          /\ cur' = [cur EXCEPT ![w] = f[1]] /\ todo' = [todo EXCEPT ![w] = f[2]]
          /\ wpc' = [wpc EXCEPT ![w] = "handle"] /\ ev' = ev
    BY <1>7 DEF WorkerNext
  <2>2. /\ cur'[w] = f[1] /\ todo'[w] = f[2]
        /\ \A v \in Worker : batch'[v] \subseteq batch[v]
        /\ \A v \in Worker : v # w =>
             wpc'[v] = wpc[v] /\ cur'[v] = cur[v] /\ todo'[v] = todo[v]
    BY <2>1 DEF IInv, TypeOK
  <2>3. ASSUME NEW c \in Client, CanRead(c)' PROVE CanRead(c)
    <3>1. CASE ev'[c] # "wr"
      BY <2>1, <3>1 DEF CanRead
    <3>2. CASE \E v \in Worker : \E e \in batch'[v] : e[1] = c /\ "in" \in e[2]
      BY <2>2, <3>2 DEF CanRead
    <3>3. ASSUME NEW v \in Worker, wpc'[v] \in {"handle", "stuck"}, cur'[v] = c,
                 "in" \in todo'[v]
          PROVE  CanRead(c)
      BY <2>2, <3>3 DEF CanRead
    <3> QED BY <2>3, <3>1, <3>2, <3>3 DEF CanRead
  <2> QED BY <1>7, <2>3 DEF WorkerNext, Steady
<1>8. CASE WriteAgain(w)
  <2>1. PICK c \in Client : c = cur[w] /\ wpc[w] = "handle"
    BY <1>0, <1>8 DEF WriteAgain, Writes, Handles
  <2>2. /\ UNCHANGED <<apc, areg, late, stale, conn, run, cur, batch, wpc>>
        /\ ev' = [ev EXCEPT ![c] = MaskWrite] /\ todo' = [todo EXCEPT ![w] = @ \ {"out"}]
    BY <1>8, <2>1 DEF WriteAgain, Writes, Handles
  <2>3. \A d \in Client : ev'[d] # "wr" => run \/ ev[d] # "wr"
    BY <2>2 DEF MaskWrite, IInv, TypeOK
  <2>4. \A v \in Worker : todo'[v] \subseteq todo[v]
    BY <2>2 DEF IInv, TypeOK
  <2>5. \A d \in Client : CanRead(d)' => run \/ CanRead(d)
    BY <2>2, <2>3, <2>4, NoNewReads
  <2> QED BY <2>2, <2>5 DEF Steady
<1>9. CASE WriteFails(w)
  BY <1>9 DEF WriteFails, Writes, Handles, IInv, TypeOK, Steady, CanRead
<1>10. CASE Rearm(w)
  <2>1. /\ UNCHANGED <<apc, areg, late, stale, conn, run, ev, batch, todo>>
        /\ cur' = [cur EXCEPT ![w] = None] /\ wpc' = [wpc EXCEPT ![w] = "events"]
    BY <1>10 DEF Rearm
  <2>2. \A v \in Worker : wpc'[v] \in {"handle", "stuck"} =>
          wpc[v] \in {"handle", "stuck"} /\ cur'[v] = cur[v]
    BY <2>1 DEF IInv, TypeOK
  <2>3. \A c \in Client : CanRead(c)' => run \/ CanRead(c)
    BY <2>1, <2>2, NoNewReads
  <2> QED BY <2>1, <2>3 DEF Steady
<1>11. CASE Discard(w)
  BY <1>0, <1>11 DEF Discard, Freed, IInv, TypeOK, Steady, CanRead
<1>12. ASSUME NEW S \in Reported, WorkerWake(w, S) PROVE Steady
  <2>1. /\ batch' = [batch EXCEPT ![w] = {<<d, Events(d)>> : d \in S \ {None}}]
        /\ wpc' = [wpc EXCEPT ![w] = "events"]
        /\ UNCHANGED <<apc, areg, late, stale, conn, run, ev, cur, todo>>
    BY <1>12 DEF WorkerWake
  <2>2. ASSUME NEW c \in Client, CanRead(c)' PROVE CanRead(c)
    <3>1. ASSUME NEW v \in Worker, NEW e \in batch'[v], e[1] = c, "in" \in e[2]
          PROVE  CanRead(c)
      <4>1. CASE v # w
        <5>1. batch'[v] = batch[v]
          BY <2>1, <4>1 DEF IInv, TypeOK
        <5> QED BY <3>1, <5>1 DEF CanRead
      <4>2. CASE v = w
        <5>1. PICK d \in S \ {None} : e = <<d, Events(d)>>
          BY <2>1, <3>1, <4>2 DEF IInv, TypeOK
        <5>2. "in" \in Events(c)
          BY <3>1, <5>1
        <5> QED BY <5>2 DEF Events, CanRead
      <4> QED BY <4>1, <4>2
    <3>2. \A v \in Worker : wpc'[v] \in {"handle", "stuck"} => wpc[v] \in {"handle", "stuck"}
      BY <2>1 DEF IInv, TypeOK
    <3> QED BY <2>1, <2>2, <3>1, <3>2 DEF CanRead
  <2> QED BY <2>1, <2>2 DEF Steady
<1>13. ASSUME NEW n \in 1..(BufSize * RespLen), WriteSome(w, n) PROVE Steady
  <2>1. PICK c \in Client : c = cur[w] /\ conn[c] = "live" /\ wpc[w] = "handle"
    BY <1>0, <1>13 DEF WriteSome, Writes, Handles
  <2>2. /\ UNCHANGED <<apc, areg, late, stale, conn, run, cur, batch>>
        /\ ev' = [ev EXCEPT ![c] = MaskWritten(c)]
        /\ todo' = [todo EXCEPT ![w] = @ \ {"out"}]
        /\ wpc' = [wpc EXCEPT ![w] = IF nresp'[c] = 0 /\ ~run THEN "stuck" ELSE @]
    BY <1>13, <2>1 DEF WriteSome, Writes, Handles
  <2>3. \A d \in Client : ev'[d] # "wr" => run \/ ev[d] # "wr"
    BY <2>2 DEF MaskWritten, MaskWrite, IInv, TypeOK
  <2>4. \A v \in Worker :
          /\ wpc'[v] \in {"handle", "stuck"} => wpc[v] \in {"handle", "stuck"}
          /\ todo'[v] \subseteq todo[v]
    BY <2>1, <2>2 DEF IInv, TypeOK
  <2>5. \A d \in Client : CanRead(d)' => run \/ CanRead(d)
    BY <2>2, <2>3, <2>4, NoNewReads
  <2> QED BY <2>2, <2>5 DEF Steady
<1> QED
  BY <1>1, <1>2, <1>3, <1>4, <1>5, <1>6, <1>7, <1>8, <1>9, <1>10, <1>11, <1>12, <1>13
  DEF WorkerStep, WorkerWrites, RearmFails, Drop

LEMMA JoinedLength ==
  ASSUME NEW s \in Seq(Request), NEW t \in Seq(Request)
  PROVE  s \o t \in Seq(Request) /\ Len(s \o t) = Len(s) + Len(t)
OBVIOUS

LEMMA NonEmptyLength ==
  ASSUME NEW s \in Seq(Request), s # <<>>
  PROVE  Len(s) > 0 /\ Len(Tail(s)) = Len(s) - 1
OBVIOUS

(* The steps that count nothing anew, and a request that arrives, which is *)
(* counted by both sides.                                                  *)
LEMMA OthersBalanced ==
  ASSUME IInv, [Next]_vars, \A w \in Worker : ~DoRead(w)
  PROVE  Balanced
<1> USE DEF kernel, session, object, server, accept, work
<1>1. ASSUME NEW c \in Client, NEW r \in Request, Send(c, r) PROVE Balanced
  <2>1. inq[c] \in Seq(Request) /\ Len(Append(inq[c], r)) = Len(inq[c]) + 1
    BY DEF IInv, TypeOK
  <2>2. /\ asked'[c] = asked[c] + 1 /\ inq'[c] = Append(inq[c], r)
        /\ \A d \in Client : d # c => asked'[d] = asked[d] /\ inq'[d] = inq[d]
        /\ UNCHANGED <<executed, buffered>>
    BY <1>1 DEF Send, IInv, TypeOK
  <2>3. ASSUME NEW d \in Client PROVE Total(d)' + asked[d] = Total(d) + asked'[d]
    <3>1. PICK x \in Nat, m \in Nat, n \in Nat, k \in Nat :
            x = executed[d] /\ m = Len(buffered[d]) /\ n = Len(inq[d]) /\ k = asked[d]
      BY TotalTyped
    <3>2. CASE d = c
      <4>1. /\ executed'[d] = x /\ Len(buffered'[d]) = m /\ Len(inq'[d]) = n + 1
            /\ asked'[d] = k + 1
        BY <2>1, <2>2, <3>1, <3>2
      <4>2. Total(d)' = x + m + (n + 1) /\ Total(d) = x + m + n
        BY <3>1, <4>1 DEF Total
      <4>3. (x + m + (n + 1)) + k = (x + m + n) + (k + 1)
        OBVIOUS
      <4>4. asked[d] = k
        BY <3>1
      <4> QED BY <4>1, <4>2, <4>3, <4>4
    <3>3. CASE d # c
      BY <2>2, <3>1, <3>3 DEF Total
    <3> QED BY <3>2, <3>3
  <2> QED BY <2>3 DEF Balanced
<1>2. ASSUME UNCHANGED <<executed, buffered, inq, asked>> PROVE Balanced
  <2>1. ASSUME NEW d \in Client PROVE Total(d)' + asked[d] = Total(d) + asked'[d]
    BY <1>2 DEF Total
  <2> QED BY <2>1 DEF Balanced
<1>3. ASSUME NEW c \in Client, ClientStep(c)
      PROVE  \/ \E r \in Request : Send(c, r)
             \/ UNCHANGED <<executed, buffered, inq, asked>>
  BY <1>3 DEF ClientStep, Connect, Leave
<1>4. ASSUME NEW a \in Acceptor, AcceptorStep(a)
      PROVE  UNCHANGED <<executed, buffered, inq, asked>>
  BY <1>4 DEF AcceptorStep, AcceptorStart, AcceptorLoop, AcceptorWake, AcceptorStopped,
     AcceptorAccepts, AcceptorDone, Accept, AcceptNone, Inserted, Register,
     RegisterFails, AcceptorErase, AcceptorErased
<1>5. ASSUME NEW w \in Worker, WorkerStep(w)
      PROVE  UNCHANGED <<executed, buffered, inq, asked>>
  BY <1>5 DEF WorkerStep, WorkerLoop, WorkerWake, WorkerTimeout, WorkerNext, WorkerDone,
     HandleLeft, WorkerWrites, WriteSome, WriteAgain, WriteFails, Rearm, RearmFails,
     Drop, Discard, WorkerErase, WorkerErased
<1>6. CASE MainStep \/ StopStarts
  BY <1>2, <1>6 DEF MainStep, StopStarts, StopWorker, StopWakes, StopShuts, Join
<1>7. CASE UNCHANGED vars
  BY <1>2, <1>7 DEF vars
<1> QED BY <1>1, <1>2, <1>3, <1>4, <1>5, <1>6, <1>7 DEF Next

(* An acceptor that starts turns run on.  If a command was left behind     *)
(* before, an acceptor has stopped, and the new one is late.               *)
LEMMA AcceptorStartRepeats ==
  ASSUME RInv, NEW a \in Acceptor, AcceptorStart(a)
  PROVE  StopSeen' /\ StaleCredit' /\ RepeatsBounded'
<1> USE DEF kernel, session, object, server, accept, work
<1>1. /\ apc[a] = "start" /\ run' = TRUE /\ apc' = [apc EXCEPT ![a] = "loop"]
      /\ late' = IF \E b \in Acceptor : ~areg[b] THEN late \cup {a} ELSE late
      /\ UNCHANGED <<conn, areg, stale, executed, buffered, inq, asked>>
  BY DEF AcceptorStart
<1>2. late \subseteq Acceptor /\ a \notin late /\ apc'[a] = "loop"
      /\ \A b \in Acceptor : b # a => apc'[b] = apc[b]
  BY <1>1 DEF RInv, IInv, TypeOK, StopSeen
<1>3. StopSeen'
  <2>1. \A b \in late' : apc'[b] # "start"
    BY <1>1, <1>2 DEF RInv, StopSeen
  <2> QED BY <1>1, <1>2, <2>1 DEF RInv, StopSeen
<1>4. PICK n \in Nat : n = Cardinality(late) /\ IsFiniteSet(late)
  BY LateCounted DEF RInv
<1>5. Cardinality(late \cup {a}) = n + 1
  BY <1>2, <1>4, FS_AddElement
<1>6. \A c \in Client : Total(c)' = Total(c) /\ Total(c) \in Nat /\ asked[c] \in Nat
                        /\ Total(c) <= asked[c] + n
  BY <1>1, <1>4, TotalTyped DEF RInv, RepeatsBounded, Total
<1>7. CASE \E b \in Acceptor : ~areg[b]
  <2>1. Cardinality(late') = n + 1 /\ asked' = asked
    BY <1>1, <1>5, <1>7
  <2>2. \A c \in Client : Total(c)' + 1 <= asked'[c] + Cardinality(late')
    BY <1>6, <2>1
  <2>3. \A c \in Client : Total(c)' <= asked'[c] + Cardinality(late')
    BY <1>6, <2>1
  <2> QED BY <1>3, <2>2, <2>3 DEF StaleCredit, RepeatsBounded, Total
<1>8. CASE \A b \in Acceptor : areg[b]
  <2>1. late' = late /\ asked' = asked /\ \A c \in Client : ~stale'[c]
    BY <1>1, <1>8 DEF RInv, StopSeen
  <2>2. \A c \in Client : Total(c)' <= asked'[c] + Cardinality(late')
    BY <1>4, <1>6, <2>1
  <2> QED BY <1>3, <2>1, <2>2 DEF StaleCredit, RepeatsBounded, Total
<1> QED BY <1>7, <1>8

(* An acceptor that stops turns run off.                                   *)
LEMMA AcceptorStoppedRepeats ==
  ASSUME RInv, NEW a \in Acceptor, AcceptorStopped(a)
  PROVE  StopSeen' /\ StaleCredit' /\ RepeatsBounded'
<1> USE DEF kernel, session, object, server, accept, work
<1>1. /\ run' = FALSE /\ areg' = [areg EXCEPT ![a] = FALSE]
      /\ UNCHANGED <<late, conn, apc, stale, executed, buffered, inq, asked, ev, batch,
                     wpc, cur, todo>>
  BY DEF AcceptorStopped
<1>2. areg'[a] = FALSE
  BY <1>1 DEF RInv, IInv, TypeOK
<1>3. StopSeen'
  BY <1>1, <1>2 DEF RInv, StopSeen
<1>4. StaleCredit'
  BY <1>1 DEF RInv, StaleCredit, CanRead, Total
<1>5. RepeatsBounded'
  BY <1>1 DEF RInv, RepeatsBounded
<1> QED BY <1>3, <1>4, <1>5

(* What a read executes and leaves waiting is what waited before, and the  *)
(* command left behind, if any.  A command is left behind again only by a  *)
(* server that stops, under a mask without EPOLLIN.                        *)
LEMMA DoReadCounts ==
  ASSUME IInv, NEW w \in Worker, DoRead(w), NEW c \in Client, c = cur[w]
  PROVE  /\ IF stale[c] THEN Total(c)' <= Total(c) + 1 ELSE Total(c)' <= Total(c)
         /\ stale'[c] => \/ ~run /\ ev'[c] = "wr"
                         \/ stale[c] /\ Total(c)' = Total(c)
         /\ \A d \in Client : d # c =>
              Total(d)' = Total(d) /\ stale'[d] = stale[d] /\ ev'[d] = ev[d]
<1>1. /\ inq' = [inq EXCEPT ![c] = <<>>]
      /\ IF inq[c] = <<>> THEN ReadNothing(c) ELSE ReadAll(c) \/ ReadOne(c)
  BY DEF DoRead
<1>2. inq[c] \in Seq(Request) /\ buffered[c] \in Seq(Request)
  BY DEF IInv, TypeOK
<1>3. PICK x \in Nat, m \in Nat, n \in Nat, q \in Seq(Request) :
        /\ x = executed[c] /\ m = Len(buffered[c]) /\ n = Len(inq[c])
        /\ q = buffered[c] \o inq[c] /\ Len(q) = m + n
  <2>1. PICK s \in Seq(Request), t \in Seq(Request) : s = buffered[c] /\ t = inq[c]
    BY <1>2
  <2>2. s \o t \in Seq(Request) /\ Len(s \o t) = Len(s) + Len(t)
    BY JoinedLength
  <2>3. Len(s) \in Nat /\ Len(t) \in Nat /\ executed[c] \in Nat
    BY TotalTyped
  <2> QED BY <2>1, <2>2, <2>3
<1>4. Goods(q) \in Nat /\ Goods(q) <= Len(q)
  BY GoodsBound
<1>5. inq'[c] = <<>> /\ Len(<<>>) = 0
  BY <1>1 DEF IInv, TypeOK
<1>5a. PICK t \in Nat : t = m + n /\ Total(c) = x + t
  <2>1. Total(c) = x + m + n
    BY <1>3 DEF Total
  <2> QED BY <2>1
<1>6. ASSUME NEW y, NEW b, NEW f,
             executed' = [executed EXCEPT ![c] = y],
             buffered' = [buffered EXCEPT ![c] = b],
             stale' = [stale EXCEPT ![c] = f]
      PROVE  /\ executed'[c] = y /\ buffered'[c] = b /\ stale'[c] = f
             /\ Total(c)' = y + Len(b) + 0
             /\ \A d \in Client : d # c => Total(d)' = Total(d) /\ stale'[d] = stale[d]
  <2>1. executed'[c] = y /\ buffered'[c] = b /\ stale'[c] = f
    BY <1>6 DEF IInv, TypeOK
  <2>2. \A d \in Client : d # c =>
          /\ executed'[d] = executed[d] /\ buffered'[d] = buffered[d]
          /\ stale'[d] = stale[d] /\ inq'[d] = inq[d]
    BY <1>1, <1>6 DEF IInv, TypeOK
  <2> QED BY <1>5, <2>1, <2>2 DEF Total
<1>7. CASE ReadNothing(c) /\ inq[c] = <<>>
  <2>1. /\ UNCHANGED <<executed, buffered, stale>>
        /\ \A d \in Client : d # c => ev'[d] = ev[d]
    BY <1>7 DEF ReadNothing, IInv, TypeOK
  <2>2. \A d \in Client : inq'[d] = inq[d]
    BY <1>1, <1>7 DEF IInv, TypeOK
  <2>3. \A d \in Client : Total(d)' = Total(d)
    BY <2>1, <2>2 DEF Total
  <2> QED BY <1>5a, <2>1, <2>3
<1>8. CASE ReadAll(c)
  <2> DEFINE g == IF poisoned[c] THEN 0 ELSE Goods(q)
             k == IF stale[c] THEN 1 ELSE 0
  <2>1. g \in Nat /\ g <= t
    <3>1. Goods(q) \in Nat /\ Goods(q) <= t
      BY <1>3, <1>4, <1>5a
    <3> QED BY <3>1
  <2>2. /\ executed' = [executed EXCEPT ![c] = executed[c] + (g + k)]
        /\ stale' = [stale EXCEPT ![c] = FALSE]
        /\ buffered' = [buffered EXCEPT ![c] = <<>>]
        /\ \E e : ev' = [ev EXCEPT ![c] = e]
    <3>1. executed' = [executed EXCEPT ![c] = executed[c] + (g + k)]
      BY <1>3, <1>8 DEF ReadAll, Executes
    <3>2. ev' = [ev EXCEPT ![c] = IF g < Len(q) THEN @ ELSE MaskRead(c)]
      BY <1>3, <1>8 DEF ReadAll
    <3>3. \E e : ev' = [ev EXCEPT ![c] = e]
      <4> HIDE DEF g
      <4> QED BY <3>2
    <3> QED BY <1>8, <3>1, <3>3 DEF ReadAll
  <2>3. \A d \in Client : d # c => ev'[d] = ev[d]
    BY <2>2 DEF IInv, TypeOK
  <2>4. /\ stale'[c] = FALSE /\ Total(c)' = (x + (g + k)) + 0 + 0
        /\ \A d \in Client : d # c => Total(d)' = Total(d) /\ stale'[d] = stale[d]
    <3> HIDE DEF g, k
    <3>1. /\ stale'[c] = FALSE /\ Total(c)' = (executed[c] + (g + k)) + Len(<<>>) + 0
          /\ \A d \in Client : d # c => Total(d)' = Total(d) /\ stale'[d] = stale[d]
      BY <1>6, <2>2
    <3> QED BY <1>3, <1>5, <3>1
  <2>5. (stale[c] => k = 1) /\ (~stale[c] => k = 0)
    OBVIOUS
  <2> HIDE DEF g, k
  <2>6. Total(c)' <= Total(c) + k
    BY <1>5a, <2>1, <2>4, <2>5
  <2>7. /\ stale[c] => Total(c)' <= Total(c) + 1
        /\ ~stale[c] => Total(c)' <= Total(c) + 0
    BY <2>5, <2>6
  <2> QED BY <1>5a, <2>3, <2>4, <2>7
<1>9. CASE ReadOne(c) /\ stale[c]
  <2>1. /\ executed' = [executed EXCEPT ![c] = executed[c] + 1]
        /\ stale' = [stale EXCEPT ![c] = TRUE] /\ ~run
        /\ buffered' = [buffered EXCEPT ![c] = q] /\ ev' = [ev EXCEPT ![c] = "wr"]
    BY <1>3, <1>9 DEF ReadOne, Executes, MaskStopping
  <2>2. ev'[c] = "wr" /\ \A d \in Client : d # c => ev'[d] = ev[d]
    BY <2>1 DEF IInv, TypeOK
  <2>3. /\ Total(c)' = (executed[c] + 1) + Len(q) + 0
        /\ \A d \in Client : d # c => Total(d)' = Total(d) /\ stale'[d] = stale[d]
    BY <1>6, <2>1
  <2>4. Total(c)' = Total(c) + 1
    <3>1. Total(c)' = (x + 1) + t + 0
      BY <1>3, <1>5a, <2>3
    <3> QED BY <1>5a, <3>1
  <2> QED BY <1>5a, <1>9, <2>1, <2>2, <2>3, <2>4
<1>10. CASE ReadOne(c) /\ ~stale[c] /\ ~poisoned[c] /\ Head(q) = "good" /\ inq[c] # <<>>
  <2>1. /\ executed' = [executed EXCEPT ![c] = executed[c] + 1]
        /\ stale' = [stale EXCEPT ![c] = TRUE] /\ ~run
        /\ buffered' = [buffered EXCEPT ![c] = Tail(q)]
        /\ ev' = [ev EXCEPT ![c] = "wr"]
    BY <1>3, <1>10 DEF ReadOne, Executes, MaskStopping
  <2>2. ev'[c] = "wr" /\ \A d \in Client : d # c => ev'[d] = ev[d]
    BY <2>1 DEF IInv, TypeOK
  <2>3. Len(Tail(q)) = t - 1
    <3>1. PICK u \in Seq(Request) : u = inq[c] /\ u # <<>>
      BY <1>2, <1>10
    <3>2. Len(u) > 0
      BY <3>1, NonEmptyLength
    <3>3. n > 0
      BY <1>3, <3>1, <3>2
    <3>4. Len(q) > 0
      <4>1. m + n > 0
        BY <3>3
      <4>2. Len(q) = m + n
        BY <1>3
      <4> QED BY <4>1, <4>2
    <3>5. q # <<>>
      BY <3>4
    <3>6. Len(Tail(q)) = Len(q) - 1
      BY <3>5, NonEmptyLength
    <3> QED BY <1>3, <1>5a, <3>6
  <2>4. /\ Total(c)' = (executed[c] + 1) + Len(Tail(q)) + 0
        /\ \A d \in Client : d # c => Total(d)' = Total(d) /\ stale'[d] = stale[d]
    BY <1>6, <2>1
  <2>5. Total(c)' = Total(c)
    <3>1. Total(c)' = (x + 1) + (t - 1) + 0
      BY <1>3, <2>3, <2>4
    <3> QED BY <1>5a, <3>1
  <2> QED BY <1>5a, <1>10, <2>1, <2>2, <2>4, <2>5
<1>11. CASE ReadOne(c) /\ ~stale[c] /\ ~(~poisoned[c] /\ Head(q) = "good")
  <2>1. UNCHANGED <<executed, stale, ev>> /\ buffered' = [buffered EXCEPT ![c] = <<>>]
    BY <1>3, <1>11 DEF ReadOne
  <2>2. /\ executed' = [executed EXCEPT ![c] = executed[c]]
        /\ stale' = [stale EXCEPT ![c] = stale[c]]
    BY <2>1 DEF IInv, TypeOK
  <2>3. /\ Total(c)' = executed[c] + Len(<<>>) + 0
        /\ \A d \in Client : d # c => Total(d)' = Total(d) /\ stale'[d] = stale[d]
    BY <1>6, <2>1, <2>2
  <2>4. Total(c)' <= Total(c)
    <3>1. Total(c)' = x + 0 + 0
      BY <1>3, <1>5, <2>3
    <3> QED BY <1>5a, <3>1
  <2> QED BY <1>5a, <1>11, <2>1, <2>3, <2>4
<1> QED BY <1>1, <1>7, <1>8, <1>9, <1>10, <1>11

(* A read that repeats the command left behind spends the credit.          *)
LEMMA DoReadRepeats ==
  ASSUME RInv, IInv', NEW w \in Worker, DoRead(w)
  PROVE  StopSeen' /\ StaleCredit' /\ RepeatsBounded'
<1>0. PICK c \in Client : c = cur[w]
  BY DEF RInv, DoRead, Handles, IInv, BatchOnce
<1>1. /\ wpc[w] = "handle" /\ "in" \in todo[w] /\ cur[w] = c
      /\ todo' = [todo EXCEPT ![w] = @ \ {"in"}]
      /\ UNCHANGED <<asked, conn, run, apc, areg, late, wpc, batch, cur>>
  BY <1>0 DEF DoRead, Handles, server, accept
<1>2. /\ conn[c] = "live" /\ Owns(w, c) /\ CanRead(c)
      /\ \A v \in Worker : Owns(v, c) => v = w
  BY <1>1 DEF RInv, IInv, OwnedOnce, Owns, LifeCycle, CanRead
<1>3. PICK l \in Nat : l = Cardinality(late)
  BY LateCounted DEF RInv
<1>4. /\ IF stale[c] THEN Total(c)' <= Total(c) + 1 ELSE Total(c)' <= Total(c)
      /\ stale'[c] => \/ ~run /\ ev'[c] = "wr"
                      \/ stale[c] /\ Total(c)' = Total(c)
      /\ \A d \in Client : d # c =>
           Total(d)' = Total(d) /\ stale'[d] = stale[d] /\ ev'[d] = ev[d]
  BY <1>0, DoReadCounts DEF RInv
<1>5. \A d \in Client : /\ Total(d) \in Nat /\ Total(d)' \in Nat /\ asked[d] \in Nat
                        /\ Total(d) <= asked[d] + l
  BY <1>3, TotalTyped, TotalTypedNext DEF RInv, RepeatsBounded, Total
<1>6. stale[c] => Total(c) + 1 <= asked[c] + l
  BY <1>2, <1>3 DEF RInv, StaleCredit
<1>7. RepeatsBounded'
  <2>1. ASSUME NEW d \in Client PROVE Total(d)' <= asked'[d] + Cardinality(late')
    BY <1>1, <1>3, <1>4, <1>5, <1>6
  <2> QED BY <2>1 DEF RepeatsBounded, Total
<1>8. \A v \in Worker : todo'[v] \subseteq todo[v]
  BY <1>1 DEF RInv, IInv, TypeOK
<1>9. StaleCredit'
  <2>1. ASSUME NEW d \in Client, stale'[d], run' \/ CanRead(d)'
        PROVE  Total(d)' + 1 <= asked'[d] + Cardinality(late')
    <3>1. CASE d # c
      <4>1. stale[d] /\ Total(d)' = Total(d) /\ ev'[d] = ev[d]
        BY <1>4, <2>1, <3>1
      <4>2. run \/ CanRead(d)
        BY <1>1, <1>8, <2>1, <4>1 DEF CanRead
      <4> QED BY <1>1, <4>1, <4>2 DEF RInv, StaleCredit
    <3>2. CASE d = c /\ ~run /\ ev'[c] = "wr"
      <4>1. \A v \in Worker : \A e \in batch[v] : e[1] # c
        BY <1>1, <1>2 DEF RInv, IInv, BatchOnce, Owns
      <4>2. \A v \in Worker : wpc[v] \in {"handle", "stuck"} /\ cur[v] = c => v = w
        BY <1>2 DEF Owns
      <4>3. "in" \notin todo'[w]
        BY <1>1 DEF RInv, IInv, TypeOK
      <4> QED BY <1>1, <2>1, <3>2, <4>1, <4>2, <4>3 DEF CanRead
    <3>3. CASE d = c /\ stale[c] /\ Total(c)' = Total(c)
      BY <1>1, <1>3, <1>6, <3>3
    <3> QED BY <1>4, <2>1, <3>1, <3>2, <3>3
  <2> QED BY <2>1 DEF StaleCredit
<1>10. StopSeen'
  <2>1. \A d \in Client : stale'[d] =>
          conn'[d] \in {"live", "freed"} /\ \E b \in Acceptor : ~areg'[b]
    BY <1>1, <1>2, <1>4 DEF RInv, StopSeen
  <2> QED BY <1>1, <2>1 DEF RInv, StopSeen
<1> QED BY <1>7, <1>9, <1>10

(* A command that was left behind runs again at most once for every        *)
(* acceptor that starts after another has stopped (Connection.cpp:98,      *)
(* ServerImpl.cpp:173); without such an acceptor no request is executed    *)
(* twice.                                                                  *)
THEOREM RepeatsBoundedCorrect == Spec => [](RepeatsBounded /\ (late = {} => ExecutedOnce))
<1>1. IInv' /\ RInv /\ [Next]_vars => RInv'
  <2> SUFFICES ASSUME IInv', RInv, [Next]_vars
               PROVE  StopSeen' /\ StaleCredit' /\ RepeatsBounded'
    BY DEF RInv
  <2>1. CASE \E w \in Worker : DoRead(w)
    BY <2>1, DoReadRepeats
  <2>2. CASE \E a \in Acceptor : AcceptorStart(a) \/ AcceptorStopped(a)
    BY <2>2, AcceptorStartRepeats, AcceptorStoppedRepeats
  <2>3. CASE /\ \A w \in Worker : ~DoRead(w)
             /\ \A a \in Acceptor : ~AcceptorStart(a) /\ ~AcceptorStopped(a)
    <3>1. Balanced
      BY <2>3, OthersBalanced DEF RInv
    <3>2. Steady
      BY <2>3, ClientSteady, AcceptorSteady, WorkerSteady, MainSteady DEF RInv, Next
    <3> QED BY <3>1, <3>2, SteadyKeeps
  <2> QED BY <2>1, <2>2, <2>3
<1>2. Init => RInv
  BY InitIInv, InitRepeats DEF RInv
<1>3. RInv => RepeatsBounded /\ (late = {} => ExecutedOnce)
  <2> SUFFICES ASSUME RInv, late = {} PROVE ExecutedOnce
    BY DEF RInv
  <2>1. ASSUME NEW c \in Client
        PROVE  executed[c] + Len(buffered[c]) + Len(inq[c]) <= asked[c]
    <3>1. executed[c] + Len(buffered[c]) + Len(inq[c]) <= asked[c] + 0
      BY FS_EmptySet DEF RInv, RepeatsBounded
    <3> QED BY <3>1, TotalTyped DEF RInv
  <2> QED BY <2>1 DEF ExecutedOnce
<1> QED BY <1>1, <1>2, <1>3, Inductive, PTL DEF Spec
=============================================================================
