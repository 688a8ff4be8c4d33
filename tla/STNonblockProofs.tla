-------------------------- MODULE STNonblockProofs --------------------------
(***************************************************************************)
(* Proofs about the single-threaded epoll server, for any clients, any     *)
(* number of pieces they send, and any size of responses and buffers.      *)
(***************************************************************************)
EXTENDS STNonblock, FiniteSetTheorems, SequenceTheorems, TLAPS

(* Where the two threads are says what they have at hand.                  *)
Turn ==
  /\ pc \notin {"events", "handle"} => batch = {}
  /\ pc = "handle" => cur \in Client
  /\ mpc \in {"closing", "joined", "undefined"} => pc = "exit"
  /\ mpc = "closing" => rest \subseteq Open

(* A turn has one event of a connection, and none of the one at hand.      *)
BatchOnce ==
  /\ \A e, f \in batch : e[1] = f[1] => e = f
  /\ pc = "handle" => \A e \in batch : e[1] # cur

Connected == \A c \in Client : peer[c] = "off" => sock[c] = "none"

(* A response comes from a piece, and that piece has been taken away.      *)
Answerable ==
  \A c \in Client : conn[c].nresp + Len(inq[c]) <= sends[c]

(* EPOLLOUT is asked for, watched, reported and handled only with a        *)
(* response pending, but for a connection that dies in this turn.          *)
OutHasData ==
  /\ \A c \in Client : conn[c].alive /\ conn[c].mask # "rd" => conn[c].nresp > 0
  /\ \A c \in Client :
       sock[c] = "open" /\ kmask[c] # "rd" /\ ~(pc = "handle" /\ cur = c)
         => conn[c].nresp > 0
  /\ \A e \in batch : e[1] \in Client /\ "out" \in e[2] => conn[e[1]].nresp > 0
  /\ WriteHasData

IInv ==
  /\ TypeOK /\ Turn /\ NoUseAfterFree /\ BatchOnce /\ Connected
  /\ Answerable /\ OutHasData

-----------------------------------------------------------------------------
(* The division by the length of a response (Connection.cpp:133-152).      *)
LEMMA DivMod ==
  ASSUME NEW x \in Nat, NEW m \in Nat \ {0}
  PROVE  x \div m \in Nat /\ (x \div m) * m <= x /\ x % m \in 0..(m - 1)
OBVIOUS

LEMMA DivBound ==
  ASSUME NEW x \in Nat, NEW m \in Nat \ {0}, NEW k \in Nat, x <= m * k
  PROVE  x \div m \in Nat /\ x \div m <= k
<1>1. (x \div m) \in Nat /\ (x \div m) * m <= x
  BY DivMod
<1>2. CASE x \div m >= k + 1
  <2>1. (x \div m) * m >= (k + 1) * m
    BY <1>1, <1>2
  <2>2. (k + 1) * m = m * k + m
    OBVIOUS
  <2>3. (x \div m) * m >= m * k + m
    BY <2>1, <2>2
  <2> QED BY <1>1, <2>3
<1> QED BY <1>1, <1>2

(* There are no more commands than pieces.                                 *)
LEMMA CommandsBound ==
  ASSUME NEW q \in Seq(Piece)
  PROVE  /\ Cardinality(Commands(q)) \in Nat /\ Cardinality(Parsed(q)) \in Nat
         /\ Cardinality(Commands(q)) <= Cardinality(Parsed(q))
         /\ Cardinality(Parsed(q)) <= Len(q)
<1>1. PICK l \in Nat : l = Len(q)
  OBVIOUS
<1>2. IsFiniteSet(1..Len(q)) /\ Cardinality(1..Len(q)) = Len(q)
  <2>1. IsFiniteSet(1..l) /\ Cardinality(1..l) = l
    BY FS_Interval
  <2> QED BY <1>1, <2>1
<1>3. IsFiniteSet(Parsed(q)) /\ Cardinality(Parsed(q)) <= Len(q)
  BY <1>2, FS_Subset DEF Parsed
<1>4. IsFiniteSet(Commands(q)) /\ Cardinality(Commands(q)) <= Cardinality(Parsed(q))
  BY <1>3, FS_Subset DEF Commands
<1> QED BY <1>3, <1>4, FS_CardinalityType

(* What is left of the input once its first i pieces are taken.            *)
LEMMA RestOfInput ==
  ASSUME NEW q \in Seq(Piece), NEW i \in Nat, i <= Len(q)
  PROVE  /\ SubSeq(q, i + 1, Len(q)) \in Seq(Piece)
         /\ Len(SubSeq(q, i + 1, Len(q))) = Len(q) - i
BY SubSeqProperties

-----------------------------------------------------------------------------
(* The initial states.                                                     *)
LEMMA InitIInv == Init => IInv
<1> SUFFICES ASSUME Init PROVE IInv
  OBVIOUS
<1> USE SizesAssumption DEF Init
<1>1. NewConnection \in Connection
  BY DEF NewConnection, Connection, Mask
<1>2. TypeOK
  <2>1. /\ inq \in [Client -> Seq(Piece)] /\ conn \in [Client -> Connection]
        /\ sends \in [Client -> 0..MaxSend] /\ answered \in [Client -> Nat]
    BY <1>1
  <2>2. /\ last \in [Client -> Piece] /\ kmask \in [Client -> Mask]
    BY DEF Piece, Mask
  <2> QED BY <2>1, <2>2 DEF TypeOK
<1>3. Turn /\ NoUseAfterFree /\ BatchOnce /\ Connected
  BY DEF Turn, NoUseAfterFree, BatchOnce, Connected
<1>4. Answerable
  BY DEF Answerable, NewConnection
<1>5. OutHasData
  BY DEF OutHasData, WriteHasData, NewConnection
<1> QED BY <1>2, <1>3, <1>4, <1>5 DEF IInv

-----------------------------------------------------------------------------
(* The steps that use no connection.                                       *)
Quiet ==
  /\ UNCHANGED <<sock, kmask, conn>> /\ batch' \subseteq batch
  /\ \A c \in Client : conn[c].nresp + Len(inq'[c]) <= sends'[c]
  /\ \A c \in Client : peer'[c] = "off" => peer[c] = "off"
  /\ pc' = "handle" <=> pc = "handle"
  /\ pc = "handle" => UNCHANGED <<cur, todo>>
  /\ pc' \notin {"events", "handle"} => batch' = {}
  /\ pc' = "sweep" => rest' \subseteq Open
  /\ mpc' \in {"closing", "joined", "undefined"} => pc' = "exit"
  /\ mpc' = "closing" => rest' \subseteq Open

LEMMA QuietKeeps == ASSUME IInv, TypeOK', Quiet PROVE IInv'
<1>1. Turn' /\ BatchOnce' /\ Connected'
  BY DEF Quiet, IInv, Turn, BatchOnce, Connected, Open
<1>2. NoUseAfterFree'
  BY DEF Quiet, IInv, NoUseAfterFree, Open
<1>3. Answerable'
  BY DEF Quiet, Answerable
<1>4. OutHasData'
  BY DEF Quiet, IInv, OutHasData, WriteHasData, Left
<1> QED BY <1>1, <1>2, <1>3, <1>4 DEF IInv

LEMMA SendKeeps == ASSUME IInv, NEW c \in Client, NEW p \in Piece, Send(c, p) PROVE IInv'
<1> USE DEF clients, kernel, loop
<1>1. /\ sends' = [sends EXCEPT ![c] = @ + 1] /\ inq' = [inq EXCEPT ![c] = Append(@, p)]
      /\ last' = [last EXCEPT ![c] = p] /\ sends[c] < MaxSend
  BY DEF Send
<1>2. sends[c] + 1 \in 0..MaxSend /\ inq[c] \in Seq(Piece) /\ Append(inq[c], p) \in Seq(Piece)
  BY <1>1, SizesAssumption DEF IInv, TypeOK
<1>3. /\ sends' \in [Client -> 0..MaxSend] /\ inq' \in [Client -> Seq(Piece)]
      /\ last' \in [Client -> Piece]
  BY <1>1, <1>2 DEF IInv, TypeOK
<1>4. TypeOK'
  BY <1>3 DEF Send, IInv, TypeOK
<1>5. ASSUME NEW d \in Client PROVE conn[d].nresp + Len(inq'[d]) <= sends'[d]
  <2>1. PICK n \in Nat, k \in Nat : n = conn[d].nresp /\ k = Len(inq[d])
    BY SMTT(30), SizesAssumption DEF IInv, TypeOK, Connection
  <2>2. n + k <= sends[d] /\ sends[d] \in Nat
    BY <2>1, SizesAssumption DEF IInv, TypeOK, Answerable
  <2>3. CASE d = c
    <3>1. Len(inq'[d]) = k + 1
      BY <1>1, <1>2, <2>1, <2>3 DEF IInv, TypeOK
    <3>2. sends'[d] = sends[d] + 1
      BY <1>1, <2>3 DEF IInv, TypeOK
    <3> QED BY <2>1, <2>2, <3>1, <3>2
  <2>4. CASE d # c
    BY <1>1, <2>1, <2>2, <2>4 DEF IInv, TypeOK
  <2> QED BY <2>3, <2>4
<1>6. Quiet
  BY <1>5 DEF Send, IInv, Turn, NoUseAfterFree, Quiet
<1> QED BY <1>4, <1>6, QuietKeeps

LEMMA LeaveKeeps == ASSUME IInv, NEW c \in Client, NEW how \in {"fin", "rst"}, Leave(c, how) PROVE IInv'
<1> USE DEF clients, kernel, loop
<1>1. TypeOK'
  BY DEF Leave, IInv, TypeOK, Open
<1>2. Quiet
  BY DEF Leave, IInv, TypeOK, Turn, Answerable, NoUseAfterFree, Quiet
<1> QED BY <1>1, <1>2, QuietKeeps

LEMMA LoopKeeps == ASSUME IInv, Loop PROVE IInv'
<1> USE DEF clients, kernel, loop
<1>1. TypeOK'
  BY DEF Loop, IInv, TypeOK, Open
<1>2. Quiet
  BY DEF Loop, IInv, TypeOK, Turn, Answerable, NoUseAfterFree, Quiet
<1> QED BY <1>1, <1>2, QuietKeeps

LEMMA WaitInterruptedKeeps == ASSUME IInv, WaitInterrupted PROVE IInv'
<1> USE DEF clients, kernel, loop
<1>1. TypeOK'
  BY DEF WaitInterrupted, IInv, TypeOK, Open
<1>2. Quiet
  BY DEF WaitInterrupted, IInv, TypeOK, Turn, Answerable, NoUseAfterFree, Quiet
<1> QED BY <1>1, <1>2, QuietKeeps

LEMMA StopEventKeeps == ASSUME IInv, StopEvent PROVE IInv'
<1> USE DEF clients, kernel, loop
<1>1. TypeOK'
  BY DEF StopEvent, IInv, TypeOK, Open
<1>2. Quiet
  BY DEF StopEvent, IInv, TypeOK, Turn, Answerable, NoUseAfterFree, Quiet
<1> QED BY <1>1, <1>2, QuietKeeps

LEMMA EventsDoneKeeps == ASSUME IInv, EventsDone PROVE IInv'
<1> USE DEF clients, kernel, loop
<1>1. TypeOK'
  BY DEF EventsDone, IInv, TypeOK, Open
<1>2. Quiet
  BY DEF EventsDone, IInv, TypeOK, Turn, Answerable, NoUseAfterFree, Quiet
<1> QED BY <1>1, <1>2, QuietKeeps

LEMMA SweepDoneKeeps == ASSUME IInv, SweepDone PROVE IInv'
<1> USE DEF clients, kernel, loop
<1>1. TypeOK'
  BY DEF SweepDone, IInv, TypeOK, Open
<1>2. Quiet
  BY DEF SweepDone, IInv, TypeOK, Turn, Answerable, NoUseAfterFree, Quiet
<1> QED BY <1>1, <1>2, QuietKeeps

LEMMA StopKeeps == ASSUME IInv, Stop PROVE IInv'
<1> USE DEF clients, kernel, loop
<1>1. TypeOK'
  BY DEF Stop, IInv, TypeOK, Open
<1>2. Quiet
  BY DEF Stop, IInv, TypeOK, Turn, Answerable, NoUseAfterFree, Quiet
<1> QED BY <1>1, <1>2, QuietKeeps

LEMMA StopShutsKeeps == ASSUME IInv, StopShuts PROVE IInv'
<1> USE DEF clients, kernel, loop
<1>1. TypeOK'
  BY DEF StopShuts, IInv, TypeOK, Open
<1>2. Quiet
  BY DEF StopShuts, IInv, TypeOK, Turn, Answerable, NoUseAfterFree, Quiet
<1> QED BY <1>1, <1>2, QuietKeeps

LEMMA JoinKeeps == ASSUME IInv, Join PROVE IInv'
<1> USE DEF clients, kernel, loop
<1>1. TypeOK'
  BY DEF Join, IInv, TypeOK, Open
<1>2. Quiet
  BY DEF Join, IInv, TypeOK, Turn, Answerable, NoUseAfterFree, Quiet
<1> QED BY <1>1, <1>2, QuietKeeps

LEMMA JoinedKeeps == ASSUME IInv, Joined PROVE IInv'
<1> USE DEF clients, kernel, loop
<1>1. TypeOK'
  BY DEF Joined, IInv, TypeOK, Open
<1>2. Quiet
  BY DEF Joined, IInv, TypeOK, Turn, Answerable, NoUseAfterFree, Quiet
<1> QED BY <1>1, <1>2, QuietKeeps

LEMMA StutterKeeps == ASSUME IInv, UNCHANGED vars PROVE IInv'
<1> USE DEF clients, kernel, loop
<1>1. TypeOK'
  BY DEF vars, IInv, TypeOK, Open
<1>2. Quiet
  BY DEF vars, IInv, TypeOK, Turn, Answerable, NoUseAfterFree, Quiet
<1> QED BY <1>1, <1>2, QuietKeeps

-----------------------------------------------------------------------------
(* A client that connects had no connection before.                        *)
LEMMA ConnectKeeps == ASSUME IInv, NEW c \in Client, Connect(c) PROVE IInv'
<1> USE DEF clients, kernel, loop
<1>1. TypeOK'
  BY DEF Connect, IInv, TypeOK
<1>2. /\ sock[c] = "none" /\ sock' = [sock EXCEPT ![c] = "backlog"]
      /\ peer' = [peer EXCEPT ![c] = "up"]
      /\ UNCHANGED <<sends, inq, kmask, conn, batch, cur, todo, rest, pc, mpc>>
  BY DEF Connect, IInv, Connected
<1>3. \A d \in Client : sock'[d] = "open" <=> sock[d] = "open"
  BY <1>2 DEF IInv, TypeOK
<1>4. BatchOnce' /\ Answerable'
  BY <1>2 DEF IInv, BatchOnce, Answerable
<1>5. Turn' /\ Connected'
  BY <1>2, <1>3 DEF IInv, TypeOK, Turn, Connected, Open
<1>6. NoUseAfterFree'
  BY <1>2, <1>3 DEF IInv, TypeOK, NoUseAfterFree, Open, Turn
<1>7. OutHasData'
  BY <1>2, <1>3 DEF IInv, OutHasData, WriteHasData, Left
<1> QED BY <1>1, <1>4, <1>5, <1>6, <1>7 DEF IInv

(* epoll_wait reports a connection once, and only an open one.             *)
LEMMA ReadyOnce ==
  ASSUME NEW W \in SUBSET Client, NEW e \in Ready(W)
  PROVE  /\ e \in (Client \cup {"efd", "srv"}) \X SUBSET Flag
         /\ e[1] \in Client => sock[e[1]] = "open" /\ e = <<e[1], Events(e[1], W)>>
         /\ e[1] \notin Client => e = <<e[1], {}>>
<1>1. CASE e \in {<<c, Events(c, W)>> : c \in Open}
  <2>1. PICK c \in Open : e = <<c, Events(c, W)>>
    BY <1>1
  <2>2. Events(c, W) \in SUBSET Flag
    BY DEF Events
  <2> QED BY <2>1, <2>2 DEF Open
<1>2. CASE e \in {<<"efd", {}>>, <<"srv", {}>>}
  BY <1>2, NamesAssumption
<1> QED BY <1>1, <1>2 DEF Ready

LEMMA WaitKeeps == ASSUME IInv, NEW W \in SUBSET Client, Wait(W) PROVE IInv'
<1> USE DEF clients, kernel, loop
<1>1. /\ batch' = Ready(W) /\ pc = "wait" /\ pc' = "events" /\ nmod' \in BOOLEAN
      /\ UNCHANGED <<clients, kernel, conn, run, cur, todo, rest, mpc>>
  BY DEF Wait
<1>2. TypeOK'
  <2>1. batch' \subseteq (Client \cup {"efd", "srv"}) \X SUBSET Flag
    BY <1>1, ReadyOnce
  <2> QED BY <1>1, <2>1 DEF IInv, TypeOK
<1>3. Turn' /\ Connected' /\ Answerable'
  BY <1>1 DEF IInv, Turn, Connected, Answerable
<1>4. NoUseAfterFree'
  BY <1>1, ReadyOnce DEF NoUseAfterFree
<1>5. BatchOnce'
  <2>1. \A e, f \in Ready(W) : e[1] = f[1] => e = f
    BY ReadyOnce
  <2> QED BY <1>1, <2>1 DEF BatchOnce
<1>6. OutHasData'
  <2>1. ASSUME NEW e \in Ready(W), e[1] \in Client, "out" \in e[2]
        PROVE  conn[e[1]].nresp > 0
    <3>1. sock[e[1]] = "open" /\ e[2] = Events(e[1], W)
      BY <2>1, ReadyOnce
    <3>2. kmask[e[1]] # "rd"
      BY <2>1, <3>1 DEF Events
    <3> QED BY <1>1, <2>1, <3>1, <3>2 DEF IInv, OutHasData
  <2> QED BY <1>1, <2>1 DEF IInv, OutHasData, WriteHasData
<1> QED BY <1>2, <1>3, <1>4, <1>5, <1>6 DEF IInv

(* A new connection is in no batch, and asks for input only.               *)
LEMMA OnNewConnectionKeeps ==
  ASSUME IInv, NEW F \in SUBSET Client, OnNewConnection(F) PROVE IInv'
<1> USE DEF clients, kernel, loop
<1> DEFINE new == IF shut THEN {} ELSE Backlog
<1>1. /\ F \subseteq new /\ batch' = batch \ {<<"srv", {}>>} /\ pc = "events"
      /\ sock' = [c \in Client |-> IF c \in F THEN "closed"
                                   ELSE IF c \in new THEN "open" ELSE sock[c]]
      /\ conn' = [c \in Client |-> IF c \in new THEN NewConnection ELSE conn[c]]
      /\ kmask' = [c \in Client |-> IF c \in new THEN "rd" ELSE kmask[c]]
      /\ UNCHANGED <<clients, inq, answered, efd, shut, watch, run, nmod, cur, todo,
            rest, pc, mpc>>
  BY DEF OnNewConnection
<1>2. \A c \in new : c \in Client /\ sock[c] = "backlog"
  BY DEF Backlog
<1> HIDE DEF new
<1>3. /\ NewConnection \in Connection /\ NewConnection.nresp = 0
      /\ NewConnection.mask = "rd"
  BY SizesAssumption DEF NewConnection, Connection, Mask
<1>4. TypeOK'
  <2>1. conn' \in [Client -> Connection] /\ kmask' \in [Client -> Mask]
    BY <1>1, <1>3 DEF IInv, TypeOK, Mask
  <2>2. sock' \in [Client -> {"none", "backlog", "open", "closed"}]
    BY <1>1 DEF IInv, TypeOK
  <2>3. batch' \subseteq (Client \cup {"efd", "srv"}) \X SUBSET Flag
    BY <1>1 DEF IInv, TypeOK
  <2> QED BY <1>1, <2>1, <2>2, <2>3 DEF IInv, TypeOK
<1>5. Turn' /\ BatchOnce'
  BY <1>1 DEF IInv, Turn, BatchOnce
<1>6. Connected'
  BY <1>1, <1>2 DEF IInv, Connected
<1>7. NoUseAfterFree'
  BY <1>1, <1>2 DEF IInv, NoUseAfterFree
<1>8. Answerable'
  <2>1. ASSUME NEW c \in Client PROVE conn'[c].nresp + Len(inq'[c]) <= sends'[c]
    <3>1. PICK n \in Nat, k \in Nat : n = conn[c].nresp /\ k = Len(inq[c])
      BY SizesAssumption DEF IInv, TypeOK, Connection
    <3>2. n + k <= sends[c] /\ sends[c] \in Nat
      BY <3>1, SizesAssumption DEF IInv, TypeOK, Answerable
    <3>3. conn'[c].nresp \in {0, n}
      BY <1>1, <1>3, <3>1
    <3> QED BY <1>1, <3>1, <3>2, <3>3
  <2> QED BY <2>1 DEF Answerable
<1>9. OutHasData'
  <2>1. \A c \in Client : conn'[c].alive /\ conn'[c].mask # "rd" => conn'[c].nresp > 0
    BY <1>1, <1>3 DEF IInv, OutHasData
  <2>2. \A c \in Client :
          sock'[c] = "open" /\ kmask'[c] # "rd" /\ ~(pc' = "handle" /\ cur' = c)
            => conn'[c].nresp > 0
    BY <1>1, <1>2 DEF IInv, OutHasData
  <2>3. \A e \in batch' : e[1] \in Client /\ "out" \in e[2] => conn'[e[1]].nresp > 0
    BY <1>1, <1>2 DEF IInv, OutHasData, NoUseAfterFree
  <2> QED BY <1>1, <2>1, <2>2, <2>3 DEF OutHasData, WriteHasData
<1> QED BY <1>4, <1>5, <1>6, <1>7, <1>8, <1>9 DEF IInv

(* The event at hand leaves the batch, and no other one is its             *)
(* connection's.                                                           *)
LEMMA ConnectionEventKeeps == ASSUME IInv, NEW c \in Client, ConnectionEvent(c) PROVE IInv'
<1> USE DEF clients, kernel, loop
<1>1. PICK e \in batch : e[1] = c /\ batch' = batch \ {e} /\ todo' = e[2]
  BY DEF ConnectionEvent
<1>2. /\ cur' = c /\ pc = "events" /\ pc' = "handle"
      /\ UNCHANGED <<clients, kernel, conn, run, nmod, rest, mpc>>
  BY DEF ConnectionEvent
<1>3. e[2] \subseteq Flag
  BY DEF IInv, TypeOK
<1>4. TypeOK'
  BY <1>1, <1>2, <1>3 DEF IInv, TypeOK
<1>5. Turn' /\ Connected' /\ Answerable'
  BY <1>2 DEF IInv, Turn, Connected, Answerable
<1>6. NoUseAfterFree' /\ BatchOnce'
  BY <1>1, <1>2 DEF IInv, NoUseAfterFree, BatchOnce
<1>7. OutHasData'
  BY <1>1, <1>2 DEF IInv, OutHasData, WriteHasData
<1> QED BY <1>4, <1>5, <1>6, <1>7 DEF IInv

-----------------------------------------------------------------------------
(* The steps that serve the connection at hand: it becomes r, and its      *)
(* input becomes s.                                                        *)
Serves(r, s) ==
  /\ pc = "handle"
  /\ conn' = [conn EXCEPT ![cur] = r] /\ inq' = [inq EXCEPT ![cur] = s]
  /\ r.nresp + Len(s) <= conn[cur].nresp + Len(inq[cur])
  /\ r.alive /\ r.mask # "rd" => r.nresp > 0
  /\ todo' \subseteq todo
  /\ ~Left' /\ "out" \in todo' => r.nresp > 0
  /\ answered' \in [Client -> Nat]
  /\ UNCHANGED <<clients, sock, kmask, efd, shut, watch, run, nmod, batch, cur, rest,
        pc, mpc>>

LEMMA ServesKeeps ==
  ASSUME IInv, NEW r \in Connection, NEW s \in Seq(Piece), Serves(r, s)
  PROVE  IInv'
<1> USE DEF clients
<1>1. PICK c \in Client : c = cur
  BY DEF Serves, IInv, Turn
<1>2. /\ pc = "handle" /\ conn' = [conn EXCEPT ![c] = r] /\ inq' = [inq EXCEPT ![c] = s]
      /\ r.alive /\ r.mask # "rd" => r.nresp > 0
      /\ todo' \subseteq todo /\ (~Left' /\ "out" \in todo' => r.nresp > 0)
      /\ cur' = c /\ pc' = "handle"
      /\ UNCHANGED <<clients, sock, kmask, efd, shut, watch, run, nmod, batch, rest, mpc>>
  BY <1>1 DEF Serves
<1>3. TypeOK'
  <2>1. conn' \in [Client -> Connection] /\ inq' \in [Client -> Seq(Piece)]
    BY <1>2 DEF IInv, TypeOK
  <2> QED BY <1>2, <2>1 DEF Serves, IInv, TypeOK
<1>4. Turn' /\ NoUseAfterFree' /\ BatchOnce' /\ Connected'
  BY <1>1, <1>2 DEF IInv, Turn, NoUseAfterFree, BatchOnce, Connected
<1>5. Answerable'
  <2>1. conn'[c] = r /\ inq'[c] = s
    BY <1>2 DEF IInv, TypeOK
  <2>2. PICK n \in Nat, k \in Nat, m \in Nat, l \in Nat :
          n = conn[c].nresp /\ k = Len(inq[c]) /\ m = r.nresp /\ l = Len(s)
    BY SizesAssumption DEF IInv, TypeOK, Connection
  <2>3. m + l <= n + k
    BY <1>1, <2>2 DEF Serves
  <2>4. n + k <= sends[c] /\ sends[c] \in Nat
    BY <2>2, SizesAssumption DEF IInv, TypeOK, Answerable
  <2>5. m + l <= sends[c]
    BY <2>3, <2>4
  <2>6. conn'[c].nresp + Len(inq'[c]) <= sends'[c]
    BY <1>2, <2>1, <2>2, <2>5
  <2>7. \A d \in Client : d # c => conn'[d] = conn[d] /\ inq'[d] = inq[d]
    BY <1>2 DEF IInv, TypeOK
  <2> QED BY <1>2, <2>6, <2>7 DEF IInv, Answerable
<1>6. OutHasData'
  <2>1. /\ conn'[c] = r
        /\ \A d \in Client : d # c => conn'[d] = conn[d]
    BY <1>2 DEF IInv, TypeOK
  <2>2. \A e \in batch : e[1] # c
    BY <1>1, <1>2 DEF IInv, BatchOnce
  <2>3. \A d \in Client : conn'[d].alive /\ conn'[d].mask # "rd" => conn'[d].nresp > 0
    BY <1>2, <2>1 DEF IInv, OutHasData
  <2>4. \A d \in Client :
          sock'[d] = "open" /\ kmask'[d] # "rd" /\ ~(pc' = "handle" /\ cur' = d)
            => conn'[d].nresp > 0
    BY <1>1, <1>2, <2>1 DEF IInv, OutHasData
  <2>5. \A e \in batch' : e[1] \in Client /\ "out" \in e[2] => conn'[e[1]].nresp > 0
    BY <1>2, <2>1, <2>2 DEF IInv, OutHasData
  <2>6. WriteHasData'
    BY <1>2, <2>1 DEF WriteHasData
  <2> QED BY <2>3, <2>4, <2>5, <2>6 DEF OutHasData
<1> QED BY <1>3, <1>4, <1>5, <1>6 DEF IInv

LEMMA HandleLeftKeeps == ASSUME IInv, HandleLeft PROVE IInv'
<1> USE DEF clients, kernel
<1>1. PICK c \in Client : c = cur
  BY DEF HandleLeft, IInv, Turn
<1>2. PICK k \in Connection, s \in Seq(Piece) : k = conn[c] /\ s = inq[c]
  BY DEF IInv, TypeOK
<1> DEFINE r == [k EXCEPT !.alive = FALSE]
<1>3. r \in Connection /\ r.nresp = k.nresp /\ ~r.alive
  BY DEF Connection
<1>4. conn' = [conn EXCEPT ![c] = r]
  BY <1>1, <1>2 DEF HandleLeft, IInv, TypeOK
<1>5. inq' = [inq EXCEPT ![c] = s]
  BY <1>2 DEF HandleLeft, IInv, TypeOK
<1>6. Serves(r, s)
  <2> HIDE DEF r
  <2>1. r.nresp + Len(s) <= k.nresp + Len(s)
    BY <1>3, SizesAssumption DEF Connection
  <2>2. todo' = {} /\ pc = "handle" /\ answered' \in [Client -> Nat]
    BY DEF HandleLeft, IInv, TypeOK
  <2> QED BY <1>1, <1>2, <1>3, <1>4, <1>5, <2>1, <2>2 DEF HandleLeft, Serves
<1> QED BY <1>3, <1>6, ServesKeeps

(* What DoRead makes of the connection at hand, whichever way it ends: no  *)
(* response is lost, a response comes from a piece that is taken, and a    *)
(* mask that asks for EPOLLOUT has a reason.                               *)
Reads(c, r, s) ==
  /\ conn' = [conn EXCEPT ![c] = r] /\ inq' = [inq EXCEPT ![c] = s]
  /\ r.nresp >= conn[c].nresp
  /\ r.nresp + Len(s) <= conn[c].nresp + Len(inq[c])
  /\ r.alive /\ r.mask # "rd" => r.nresp > 0

LEMMA ReadAllReads ==
  ASSUME IInv, NEW c \in Client, ReadAll(c)
  PROVE  \E r \in Connection, s \in Seq(Piece) : Reads(c, r, s)
<1>1. PICK k \in Connection, q \in Seq(Piece) : k = conn[c] /\ q = inq[c]
  BY DEF IInv, TypeOK
<1>2. PICK l \in Nat, p \in Nat, h \in Nat :
        l = Len(q) /\ p = Cardinality(Commands(q)) /\ p <= l /\ h = k.nresp
  BY CommandsBound, SizesAssumption DEF Connection
<1>3. h + l <= MaxSend
  BY <1>1, <1>2, SizesAssumption DEF IInv, TypeOK, Answerable
<1> DEFINE n == h + p
           r == [k EXCEPT !.nresp = n, !.mask = ReadMask(n), !.cmd = (q[Len(q)] = "set")]
<1>4. n \in 0..MaxSend /\ n >= h /\ n <= h + l
  BY <1>2, <1>3, SizesAssumption
<1>5. ReadMask(n) \in Mask /\ (ReadMask(n) # "rd" => n > 0)
  BY <1>4 DEF ReadMask, Mask
<1>6. r \in Connection /\ r.nresp = n /\ r.mask = ReadMask(n)
  <2> HIDE DEF n
  <2> QED BY <1>4, <1>5 DEF Connection
<1>7. conn' = [conn EXCEPT ![c] = r]
  BY <1>1, <1>2 DEF ReadAll, IInv, TypeOK
<1>8. inq' = [inq EXCEPT ![c] = <<>>] /\ Len(<<>>) = 0 /\ <<>> \in Seq(Piece)
  BY DEF ReadAll
<1> HIDE DEF n, r
<1>9. Reads(c, r, <<>>)
  BY <1>1, <1>2, <1>4, <1>5, <1>6, <1>7, <1>8 DEF Reads
<1> QED BY <1>6, <1>8, <1>9

LEMMA ReadOneReads ==
  ASSUME IInv, NEW c \in Client, ReadOne(c)
  PROVE  \E r \in Connection, s \in Seq(Piece) : Reads(c, r, s)
<1>1. PICK k \in Connection, q \in Seq(Piece) : k = conn[c] /\ q = inq[c]
  BY DEF IInv, TypeOK
<1>2. PICK l \in Nat, h \in Nat : l = Len(q) /\ h = k.nresp
  BY SizesAssumption DEF Connection
<1>3. h + l <= MaxSend
  BY <1>1, <1>2, SizesAssumption DEF IInv, TypeOK, Answerable
<1>4. PICK i \in Commands(q) : inq' = [inq EXCEPT ![c] = SubSeq(q, i + 1, Len(q))]
  BY <1>1 DEF ReadOne
<1>5. i \in Nat /\ i >= 1 /\ i <= l
  BY <1>2 DEF Commands, Parsed
<1>6. PICK s \in Seq(Piece) : s = SubSeq(q, i + 1, Len(q)) /\ Len(s) = l - i
  BY <1>2, <1>5, RestOfInput
<1> DEFINE r == [k EXCEPT !.nresp = h + 1, !.cmd = FALSE, !.mask = "wr"]
<1>7. r \in Connection /\ r.nresp = h + 1
  <2>1. h + 1 \in 0..MaxSend
    BY <1>2, <1>3, <1>5, SizesAssumption
  <2> QED BY <2>1 DEF Connection, Mask
<1>8. conn' = [conn EXCEPT ![c] = r]
  BY <1>1, <1>2 DEF ReadOne, MaskStopping, IInv, TypeOK
<1> HIDE DEF r
<1>9. r.nresp >= h /\ r.nresp > 0 /\ r.nresp + (l - i) <= h + l
  BY <1>5, <1>7
<1>10. Reads(c, r, s)
  BY <1>1, <1>2, <1>4, <1>6, <1>8, <1>9 DEF Reads
<1> QED BY <1>7, <1>10

LEMMA ReadThrowsReads ==
  ASSUME IInv, NEW c \in Client, NEW b \in 1..ClientBuf, NEW x \in 1..MaxSend,
         ReadThrows(c, b, x)
  PROVE  \E r \in Connection, s \in Seq(Piece) : Reads(c, r, s)
<1>1. PICK k \in Connection, q \in Seq(Piece) : k = conn[c] /\ q = inq[c]
  BY DEF IInv, TypeOK
<1>2. PICK l \in Nat, g \in Nat, p \in Nat, h \in Nat :
        /\ l = Len(q) /\ g = Cardinality(Parsed(q)) /\ p = Cardinality(Commands(q))
        /\ p <= g /\ g <= l /\ h = k.nresp
  BY CommandsBound, SizesAssumption DEF Connection
<1>3. h + l <= MaxSend
  BY <1>1, <1>2, SizesAssumption DEF IInv, TypeOK, Answerable
<1>4. /\ g + x <= l /\ inq' = [inq EXCEPT ![c] = SubSeq(q, g + x + 1, Len(q))]
      /\ g + x \in Nat /\ x \in Nat
  <2>1. x \in Nat
    BY SizesAssumption
  <2>2. g + x <= l /\ inq' = [inq EXCEPT ![c] = SubSeq(q, g + x + 1, Len(q))]
    BY <1>1, <1>2 DEF ReadThrows
  <2> QED BY <2>1, <2>2
<1>5. PICK s \in Seq(Piece) : s = SubSeq(q, g + x + 1, Len(q)) /\ Len(s) = l - (g + x)
  BY <1>2, <1>4, RestOfInput
<1> DEFINE r == [k EXCEPT !.nresp = h + p, !.cmd = FALSE, !.failed = TRUE, !.held = b]
<1>6. r \in Connection /\ r.nresp = h + p /\ r.alive = k.alive /\ r.mask = k.mask
  <2>1. h + p \in 0..MaxSend
    <3>1. p <= g /\ g <= l
      BY <1>2
    <3> QED BY <1>3, <3>1, SizesAssumption
  <2>2. b \in 0..ClientBuf
    BY SizesAssumption
  <2> QED BY <2>1, <2>2 DEF Connection
<1>7. conn' = [conn EXCEPT ![c] = r]
  BY <1>1, <1>2 DEF ReadThrows, IInv, TypeOK
<1>8. k.alive /\ k.mask # "rd" => h > 0
  BY <1>1, <1>2 DEF IInv, OutHasData
<1> HIDE DEF r
<1>9. r.nresp >= h /\ r.nresp + (l - (g + x)) <= h + l
  <2>1. PICK i \in Nat : i = l - (g + x)
    BY <1>2, <1>4
  <2>2. p <= g /\ g + x <= l
    BY <1>2, <1>4
  <2>3. h + p >= h /\ h + p + i <= h + l
    BY <2>1, <2>2
  <2> QED BY <1>6, <2>1, <2>3
<1>10. r.alive /\ r.mask # "rd" => r.nresp > 0
  BY <1>2, <1>6, <1>8
<1>11. Reads(c, r, s)
  BY <1>1, <1>2, <1>4, <1>5, <1>7, <1>9, <1>10 DEF Reads
<1> QED BY <1>6, <1>11

LEMMA ReadFailedReads ==
  ASSUME IInv, NEW c \in Client, NEW b \in 1..ClientBuf, NEW x \in 1..MaxSend,
         ReadFailed(c, b, x)
  PROVE  \E r \in Connection, s \in Seq(Piece) : Reads(c, r, s)
<1>1. PICK k \in Connection, q \in Seq(Piece) : k = conn[c] /\ q = inq[c]
  BY DEF IInv, TypeOK
<1>2. PICK l \in Nat, h \in Nat : l = Len(q) /\ h = k.nresp
  BY SizesAssumption DEF Connection
<1>3. /\ x <= l /\ inq' = [inq EXCEPT ![c] = SubSeq(q, x + 1, Len(q))] /\ x \in Nat
  BY <1>1, <1>2, SizesAssumption DEF ReadFailed
<1>4. PICK s \in Seq(Piece) : s = SubSeq(q, x + 1, Len(q)) /\ Len(s) = l - x
  BY <1>2, <1>3, RestOfInput
<1> DEFINE r == [k EXCEPT !.held = b]
<1>5. r \in Connection /\ r.nresp = h /\ r.alive = k.alive /\ r.mask = k.mask
  <2>1. b \in 0..ClientBuf
    BY SizesAssumption
  <2> QED BY <1>2, <2>1 DEF Connection
<1>6. conn' = [conn EXCEPT ![c] = r]
  BY <1>1 DEF ReadFailed, IInv, TypeOK
<1>7. k.alive /\ k.mask # "rd" => h > 0
  BY <1>1, <1>2 DEF IInv, OutHasData
<1> HIDE DEF r
<1>8. Reads(c, r, s)
  BY <1>1, <1>2, <1>3, <1>4, <1>5, <1>6, <1>7 DEF Reads
<1> QED BY <1>5, <1>8

LEMMA ReadFullReads ==
  ASSUME IInv, NEW c \in Client, ReadFull(c)
  PROVE  \E r \in Connection, s \in Seq(Piece) : Reads(c, r, s)
<1>1. PICK k \in Connection, q \in Seq(Piece) : k = conn[c] /\ q = inq[c]
  BY DEF IInv, TypeOK
<1>2. PICK l \in Nat, h \in Nat : l = Len(q) /\ h = k.nresp
  BY SizesAssumption DEF Connection
<1> DEFINE r == [k EXCEPT !.mask = ReadMask(h)]
<1>3. r \in Connection /\ r.nresp = h /\ r.mask = ReadMask(h)
  BY <1>2 DEF ReadMask, Connection, Mask
<1>4. conn' = [conn EXCEPT ![c] = r] /\ inq' = [inq EXCEPT ![c] = q]
  BY <1>1, <1>2 DEF ReadFull, IInv, TypeOK
<1>5. ReadMask(h) # "rd" => h > 0
  BY DEF ReadMask
<1> HIDE DEF r
<1>6. Reads(c, r, q)
  BY <1>1, <1>2, <1>3, <1>4, <1>5 DEF Reads
<1> QED BY <1>3, <1>6

LEMMA DoReadKeeps == ASSUME IInv, DoRead PROVE IInv'
<1> USE DEF clients
<1>1. PICK c \in Client : c = cur
  BY DEF DoRead, IInv, Turn
<1>2. PICK r \in Connection, s \in Seq(Piece) : Reads(c, r, s)
  <2>1. \/ ReadAll(c) \/ ReadOne(c) \/ ReadFull(c)
        \/ \E b \in 1..ClientBuf, x \in 1..MaxSend :
             ReadThrows(c, b, x) \/ ReadFailed(c, b, x)
    BY <1>1 DEF DoRead
  <2> QED
    BY <2>1, ReadAllReads, ReadOneReads, ReadFullReads, ReadThrowsReads, ReadFailedReads
<1>3. /\ pc = "handle" /\ ~Left /\ todo' = todo \ {"in"}
      /\ UNCHANGED <<clients, answered, sock, kmask, efd, shut, watch, run, nmod, batch,
            cur, rest, pc, mpc>>
  BY DEF DoRead
<1>4. "out" \in todo => conn[c].nresp > 0
  BY <1>1, <1>3 DEF IInv, OutHasData, WriteHasData
<1>5. "out" \in todo' => r.nresp > 0
  <2>1. conn[c].nresp \in Nat /\ r.nresp \in Nat
    BY SizesAssumption DEF IInv, TypeOK, Connection
  <2> QED BY <1>2, <1>3, <1>4, <2>1 DEF Reads
<1>6. Serves(r, s)
  BY <1>1, <1>2, <1>3, <1>5 DEF Serves, Reads, IInv, TypeOK
<1> QED BY <1>6, ServesKeeps

(* A write drops the responses it has completed: no more than there were.  *)
LEMMA WriteSomeKeeps ==
  ASSUME IInv, NEW c \in Client, NEW b \in 1..(RespBuf * RespLen), WriteSome(c, b)
  PROVE  IInv'
<1> USE DEF clients
<1>1. /\ cur = c /\ pc = "handle" /\ todo' = {} /\ todo = {"out"} /\ ~Left
      /\ UNCHANGED <<clients, inq, sock, kmask, efd, shut, watch, run, nmod, batch, cur,
            rest, pc, mpc>>
  BY DEF WriteSome, Writes
<1>2. PICK k \in Connection, s \in Seq(Piece) : k = conn[c] /\ s = inq[c]
  BY DEF IInv, TypeOK
<1>3. PICK n \in Nat, x \in Nat : n = k.nresp /\ x = k.start + b
  BY SizesAssumption DEF Connection
<1>4. n \in 0..MaxSend
  BY <1>3 DEF Connection
<1>5. x <= RespLen * IF n < RespBuf THEN n ELSE RespBuf
  BY <1>2, <1>3 DEF WriteSome
<1>6. PICK gone \in Nat : gone = x \div RespLen /\ gone <= n
  <2>1. PICK z \in Nat : z = (IF n < RespBuf THEN n ELSE RespBuf) /\ z <= n
    BY SizesAssumption
  <2>2. x <= RespLen * z
    BY <1>5, <2>1
  <2>3. x \div RespLen \in Nat /\ x \div RespLen <= z
    BY <2>2, DivBound, SizesAssumption
  <2> QED BY <2>1, <2>3
<1>7. PICK y \in 0..(RespLen - 1) : y = x % RespLen
  BY <1>3, DivMod, SizesAssumption
<1>8. PICK left \in 0..MaxSend : left = n - gone
  <2>1. n - gone \in 0..MaxSend
    BY <1>4, <1>6, SizesAssumption
  <2> QED BY <2>1
<1> DEFINE m == IF left > 0 THEN WriteMask ELSE IF run THEN "rd" ELSE k.mask
           r == [k EXCEPT !.nresp = left, !.mask = m, !.alive = (left > 0 \/ run),
                          !.start = y]
<1>9. m \in Mask
  BY DEF WriteMask, Connection, Mask
<1>10. /\ r \in Connection /\ r.nresp = left /\ r.mask = m
       /\ r.alive = (left > 0 \/ run)
  <2>1. run \in BOOLEAN
    BY DEF IInv, TypeOK
  <2> HIDE DEF m
  <2> QED BY <1>9, <2>1 DEF Connection
<1>11. conn' = [conn EXCEPT ![c] = r]
  BY <1>2, <1>3, <1>6, <1>7, <1>8 DEF WriteSome, Written, Advance, Connection
<1>12. inq' = [inq EXCEPT ![c] = s]
  BY <1>1, <1>2 DEF IInv, TypeOK
<1>13. answered' \in [Client -> Nat]
  BY SMTT(30), <1>2, <1>3, <1>6 DEF WriteSome, IInv, TypeOK
<1>14. r.alive /\ r.mask # "rd" => r.nresp > 0
  BY <1>10
<1>15. Serves(r, s)
  <2> HIDE DEF r
  <2>1. r.nresp + Len(s) <= k.nresp + Len(s)
    BY <1>3, <1>6, <1>8, <1>10
  <2> QED BY <1>1, <1>2, <1>11, <1>12, <1>13, <1>14, <2>1 DEF Serves
<1> QED BY <1>10, <1>15, ServesKeeps

LEMMA WriteFailsKeeps == ASSUME IInv, NEW c \in Client, WriteFails(c) PROVE IInv'
<1> USE DEF clients, kernel
<1>1. /\ cur = c /\ pc = "handle" /\ todo' = {} /\ todo = {"out"} /\ ~Left
      /\ UNCHANGED <<clients, inq, answered, sock, kmask, efd, shut, watch, run, nmod,
            batch, cur, rest, pc, mpc>>
  BY DEF WriteFails, Writes
<1>2. PICK k \in Connection, s \in Seq(Piece) : k = conn[c] /\ s = inq[c]
  BY DEF IInv, TypeOK
<1>3. PICK n \in Nat : n = k.nresp
  BY SizesAssumption DEF Connection
<1>4. n > 0
  BY <1>1, <1>2, <1>3 DEF IInv, OutHasData, WriteHasData
<1>5. PICK r \in Connection : conn' = [conn EXCEPT ![c] = r] /\ r.nresp = n
  <2>1. CASE conn' = [conn EXCEPT ![c].mask = WriteMask]
    <3> DEFINE t == [k EXCEPT !.mask = WriteMask]
    <3>1. t \in Connection /\ t.nresp = n
      BY <1>3 DEF WriteMask, Connection, Mask
    <3>2. conn' = [conn EXCEPT ![c] = t]
      BY <1>2, <2>1
    <3> QED BY <3>1, <3>2
  <2>2. CASE conn' = [conn EXCEPT ![c].alive = FALSE]
    <3> DEFINE t == [k EXCEPT !.alive = FALSE]
    <3>1. t \in Connection /\ t.nresp = n
      BY <1>3 DEF Connection
    <3>2. conn' = [conn EXCEPT ![c] = t]
      BY <1>2, <2>2
    <3> QED BY <3>1, <3>2
  <2> QED BY <2>1, <2>2 DEF WriteFails
<1>6. inq' = [inq EXCEPT ![c] = s] /\ answered' \in [Client -> Nat]
  BY <1>1, <1>2 DEF IInv, TypeOK
<1>7. r.nresp + Len(s) <= k.nresp + Len(s)
  BY <1>3, <1>5
<1>8. Serves(r, s)
  BY <1>1, <1>2, <1>4, <1>5, <1>6, <1>7 DEF Serves
<1> QED BY <1>8, ServesKeeps

-----------------------------------------------------------------------------
(* The connection at hand is closed, or epoll gets the mask it waits for.  *)
LEMMA EventDoneKeeps ==
  ASSUME IInv, NEW closes \in BOOLEAN, EventDone(closes), ~conn[cur].alive => closes
  PROVE  IInv'
<1> USE DEF clients
<1>1. PICK c \in Client : c = cur
  BY DEF EventDone, IInv, Turn
<1>2. /\ pc = "handle" /\ todo = {} /\ pc' = "events" /\ cur' = "none"
      /\ UNCHANGED <<clients, inq, answered, efd, shut, watch, conn, run, nmod, batch,
            todo, rest, mpc>>
  BY DEF EventDone
<1>3. /\ sock' \in [Client -> {"none", "backlog", "open", "closed"}]
      /\ kmask' \in [Client -> Mask]
      /\ \A d \in Client : d # c => sock'[d] = sock[d] /\ kmask'[d] = kmask[d]
      /\ \/ sock'[c] = "closed"
         \/ sock'[c] = sock[c] /\ kmask'[c] = conn[c].mask /\ conn[c].alive
  <2>1. CASE closes
    <3>1. sock' = [sock EXCEPT ![c] = "closed"] /\ kmask' = kmask
      BY <1>1, <2>1 DEF EventDone, DeleteConnection
    <3> QED BY <3>1 DEF IInv, TypeOK
  <2>2. CASE ~closes
    <3>1. sock' = sock /\ kmask' = [kmask EXCEPT ![c] = conn[c].mask] /\ conn[c].alive
      BY <1>1, <2>2 DEF EventDone
    <3>2. conn[c].mask \in Mask
      BY DEF IInv, TypeOK, Connection
    <3> QED BY <3>1, <3>2 DEF IInv, TypeOK
  <2> QED BY <2>1, <2>2
<1>4. TypeOK'
  BY <1>2, <1>3 DEF IInv, TypeOK
<1>5. Turn' /\ BatchOnce' /\ Answerable'
  BY <1>2 DEF IInv, Turn, BatchOnce, Answerable
<1>6. sock[c] = "open" /\ \A e \in batch : e[1] # c
  BY <1>1, <1>2 DEF IInv, NoUseAfterFree, BatchOnce
<1>7. Connected'
  BY <1>2, <1>3, <1>6 DEF IInv, Connected
<1>8. NoUseAfterFree'
  BY <1>2, <1>3, <1>6 DEF IInv, NoUseAfterFree
<1>9. OutHasData'
  <2>1. \A d \in Client :
          sock'[d] = "open" /\ kmask'[d] # "rd" => conn'[d].nresp > 0
    BY <1>1, <1>2, <1>3 DEF IInv, OutHasData
  <2> QED BY <1>2, <2>1 DEF IInv, OutHasData, WriteHasData
<1> QED BY <1>4, <1>5, <1>7, <1>8, <1>9 DEF IInv

(* A connection is closed between two turns, when the batch is empty.      *)
LEMMA CloseKeeps ==
  ASSUME IInv, NEW c \in Client, DeleteConnection(c), pc \notin {"events", "handle"},
         c \in rest, rest \subseteq Open, rest' \in SUBSET (rest \ {c}),
         pc' \in {pc, "undefined"},
         mpc' \in {"closing", "joined", "undefined"} => pc' = "exit",
         mpc' \in {"serving", "shutdown", "join", "closing", "joined", "undefined"},
         UNCHANGED <<clients, inq, answered, kmask, efd, shut, watch, conn, run, nmod,
           batch, cur, todo>>
  PROVE  IInv'
<1> USE DEF clients
<1>1. sock' = [sock EXCEPT ![c] = "closed"]
  BY DEF DeleteConnection
<1>2. /\ sock' \in [Client -> {"none", "backlog", "open", "closed"}]
      /\ \A d \in Client : d # c => sock'[d] = sock[d]
      /\ sock'[c] = "closed"
  BY <1>1 DEF IInv, TypeOK
<1>3. TypeOK'
  BY <1>2 DEF IInv, TypeOK
<1>4. BatchOnce' /\ Answerable'
  BY DEF IInv, Turn, BatchOnce, Answerable
<1>5. Turn' /\ Connected'
  BY <1>2 DEF IInv, Turn, Connected, Open
<1>6. NoUseAfterFree'
  BY <1>2 DEF IInv, NoUseAfterFree, Turn, Open
<1>7. OutHasData'
  BY <1>2 DEF IInv, OutHasData, WriteHasData, Turn
<1> QED BY <1>3, <1>4, <1>5, <1>6, <1>7 DEF IInv

LEMMA SweepKeeps == ASSUME IInv, NEW c \in Client, Sweep(c) PROVE IInv'
<1>1. pc = "sweep" /\ c \in rest /\ rest \subseteq Open
  BY DEF Sweep, Sweeps, IInv, NoUseAfterFree
<1> QED BY <1>1, CloseKeeps DEF Sweep, IInv, TypeOK, Turn

LEMMA JoinClosesKeeps == ASSUME IInv, NEW c \in Client, JoinCloses(c) PROVE IInv'
<1>1. pc = "exit" /\ c \in rest /\ rest \subseteq Open
  BY DEF JoinCloses, IInv, Turn
<1> QED BY <1>1, CloseKeeps DEF JoinCloses, IInv, TypeOK

-----------------------------------------------------------------------------
LEMMA NextIInv == IInv /\ [Next]_vars => IInv'
<1> SUFFICES ASSUME IInv, [Next]_vars PROVE IInv'
  OBVIOUS
<1>1. ASSUME NEW c \in Client, ClientStep(c) PROVE IInv'
  BY <1>1, ConnectKeeps, SendKeeps, LeaveKeeps DEF ClientStep
<1>2. CASE OnRun
  <2>1. CASE Finish \/ ModFails
    <3>1. conn[cur].alive \in BOOLEAN
      BY <2>1 DEF Finish, ModFails, IInv, TypeOK, Turn, Connection
    <3> QED BY <2>1, <3>1, EventDoneKeeps DEF Finish, ModFails
  <2>2. CASE ~(Finish \/ ModFails)
    BY <1>2, <2>2, LoopKeeps, WaitKeeps, WaitInterruptedKeeps, StopEventKeeps, OnNewConnectionKeeps,
       EventsDoneKeeps, HandleLeftKeeps, DoReadKeeps, SweepDoneKeeps,
       ConnectionEventKeeps, WriteSomeKeeps, WriteFailsKeeps, SweepKeeps
    DEF OnRun, DoWrite
  <2> QED BY <2>1, <2>2
<1>3. CASE Stop \/ MainStep
  BY <1>3, StopKeeps, StopShutsKeeps, JoinKeeps, JoinClosesKeeps, JoinedKeeps DEF MainStep
<1>4. CASE UNCHANGED vars
  BY <1>4, StutterKeeps
<1> QED BY <1>1, <1>2, <1>3, <1>4 DEF Next

-----------------------------------------------------------------------------
(* The invariant the properties follow from: a connection that a turn      *)
(* still has to handle is open, its responses are paid for by pieces that  *)
(* were read, and EPOLLOUT is only reported where there are some.          *)
THEOREM Inductive == Spec => []IInv
BY InitIInv, NextIInv, PTL DEF Spec

(* Every variable has its type: data_start stays inside the first pending  *)
(* response (Connection.cpp:144-152), client_buffer is never overrun, and  *)
(* no more responses are queued than pieces were sent.                     *)
THEOREM TypeCorrect == Spec => []TypeOK
<1>1. IInv => TypeOK
  BY DEF IInv
<1> QED BY <1>1, Inductive, PTL

(* The loop never touches a connection it has deleted, whatever the events *)
(* before and the sweep have closed (ServerImpl.cpp:164-206).              *)
THEOREM NoUseAfterFreeCorrect == Spec => []NoUseAfterFree
<1>1. IInv => NoUseAfterFree
  BY DEF IInv
<1> QED BY <1>1, Inductive, PTL

(* The assert of DoWrite (Connection.cpp:118) never fails.                 *)
THEOREM WriteHasDataCorrect == Spec => []WriteHasData
<1>1. IInv => WriteHasData
  BY DEF IInv, OutHasData
<1> QED BY <1>1, Inductive, PTL
=============================================================================
