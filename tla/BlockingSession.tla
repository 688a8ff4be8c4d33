--------------------------- MODULE BlockingSession --------------------------
(***************************************************************************)
(* One connection of src/network/mt_blocking: ProcessConnection reads the  *)
(* socket in pieces of any size, cuts them into commands and arguments and *)
(* executes them, while another thread may call Stop.  st_blocking runs    *)
(* the same loop without the test of running.                              *)
(*                                                                         *)
(* The client sends the requests of a sequence chosen at the start, all at *)
(* once: a read returns any number of the bytes not read yet.  What a      *)
(* command does to the storage is the subject of the module Commands.      *)
(***************************************************************************)
EXTENDS Parser, SequencesExt

CONSTANTS
  Request,  \* what a client may send
  MaxReq,   \* bound: requests sent over the connection
  BufSize   \* sizeof(client_buffer)

ASSUME BufferAssumption == MaxReq \in Nat /\ BufSize \in Nat \ {0}

VARIABLES
  requests,   \* history: what the client sends
  unread,     \* the bytes of it that the server has not read
  running,    \* the server's flag
  pc,         \* where ProcessConnection is
  conn,       \* "open", or why the connection has been closed
  command,    \* command_to_execute
  remains,    \* arg_remains, meaningful only with a command
  argument,   \* argument_for_command
  executed    \* history: the commands executed, with their arguments

session == <<command, remains, argument>>
vars == <<parser, buf, parsed, requests, unread, running, pc, conn, session,
          executed>>

NoCommand == [name |-> "none"]

-----------------------------------------------------------------------------
(* The client.  A request is a record of a name and, as the name demands,  *)
(* keys, flags, exprtime and data; the number of data bytes is below 100.  *)
Stores(r) == <<r.name>> \in StoreName
DigitOf(n) == CHOOSE c \in Digit : DigitValue[c] = n
Decimal(n) == IF n < 10 THEN <<DigitOf(n)>>
              ELSE <<DigitOf(n \div 10), DigitOf(n % 10)>>
CRLF == <<CR, LF>>

Encoded(r) ==
  IF Stores(r)
  THEN <<r.name, SP>> \o r.keys[1] \o <<SP>> \o r.flags \o <<SP>> \o r.exprtime
         \o <<SP>> \o Decimal(Len(r.data)) \o CRLF \o r.data \o CRLF
  ELSE <<r.name>> \o FlattenSeq([i \in DOMAIN r.keys |-> <<SP>> \o r.keys[i]])
         \o CRLF

Byte == UNION {Range(Encoded(r)) : r \in Request}

(* What the protocol asks of a client: a key has no delimiter in it, the   *)
(* numbers are written in digits, a get command has a key and stats none,  *)
(* and the size of the data fits the two digits of Decimal and the field   *)
(* it is read into.                                                        *)
WellFormed(r) ==
  /\ r.name \notin {SP, CR} /\ r.keys \in Seq(Seq(Byte \ {SP, CR}))
  /\ Stores(r) =>
       /\ Len(r.keys) = 1 /\ r.flags \in Seq(Digit)
       /\ r.exprtime \in Seq(Digit \cup {"-"}) /\ r.exprtime \notin {<<>>, <<"-">>}
       /\ Tail(r.exprtime) \in Seq(Digit)
       /\ r.data \in Seq(Byte) /\ Len(r.data) < 100 /\ Len(r.data) < Modulus
  /\ <<r.name>> \in GetName => r.keys # <<>>
  /\ <<r.name>> = StatsName => r.keys = <<>>

ASSUME RequestAssumption == \A r \in Request : WellFormed(r)

Init ==
  /\ requests \in UNION {[1..n -> Request] : n \in 1..MaxReq}
  /\ unread = FlattenSeq([i \in DOMAIN requests |-> Encoded(requests[i])])
  /\ running = TRUE /\ conn = "open" /\ pc = "read"
  /\ parser \in FreshParser /\ buf = <<>> /\ parsed = 0
  /\ command = NoCommand /\ remains = 0 /\ argument = <<>>
  /\ executed = <<>>

-----------------------------------------------------------------------------
(* The connection is closed and its state reset.                           *)
Close(reason) ==
  /\ conn' = reason /\ pc' = "done"
  /\ command' = NoCommand /\ argument' = <<>> /\ parser' = Reset(parser)
  /\ remains' = 0 /\ buf' = <<>> /\ parsed' = 0

Stop ==
  /\ running /\ running' = FALSE
  /\ UNCHANGED <<parser, buf, parsed, requests, unread, pc, conn, session,
                 executed>>

(* read returns n bytes, and the connection goes on or is given up.        *)
ReadBytesIf(n, goesOn) ==
  /\ pc = "read"
  /\ unread' = SubSeq(unread, n + 1, Len(unread))
  /\ \/ /\ goesOn
        /\ buf' = SubSeq(unread, 1, n) /\ pc' = "loop"
        /\ UNCHANGED <<parser, parsed, conn, session>>
     \/ ~goesOn /\ Close("stopped")
  /\ UNCHANGED <<requests, running, executed>>

(* Mutants: a pending command is forgotten; running is not looked at.      *)
ReadBytesWhileRunning(n) == ReadBytesIf(n, running)
ReadBytesAlways(n) == ReadBytesIf(n, TRUE)

(* running is looked at after read returns, and a server that stops goes   *)
(* on only to complete a command.                                          *)
ReadBytes(n) == ReadBytesIf(n, running \/ command # NoCommand)

(* read returns 0, or -1 for an error or the receive timeout.              *)
ReadEnds ==
  /\ pc = "read"
  /\ Close("lost")
  /\ UNCHANGED <<requests, unread, running, executed>>

(* The test of the inner loop, and the test for a command.                 *)
Loop ==
  /\ pc = "loop"
  /\ pc' = CASE buf = <<>> -> "read"
             [] buf # <<>> /\ command = NoCommand -> "parse"
             [] OTHER -> "fill"
  /\ parsed' = 0
  /\ UNCHANGED <<parser, buf, requests, unread, running, conn, session, executed>>

Parse ==
  /\ pc = "parse"
  /\ ParseByte
  /\ UNCHANGED <<requests, unread, running, pc, conn, session, executed>>

ParseFails ==
  /\ pc = "parse"
  /\ \/ ParseThrows
     \/ parser.parse_complete /\ ~Buildable(parser)
  /\ Close("refused")
  /\ UNCHANGED <<requests, unread, running, executed>>

(* arg_remains: the bytes of the argument, and two for the delimiter.      *)
ArgumentSize(p) == IF p.bytes > 0 THEN p.bytes + 2 ELSE 0

(* Parse has returned; an empty result leaves the inner loop.              *)
Parsed ==
  /\ pc = "parse"
  /\ ParseReturns
  /\ parser.parse_complete => Buildable(parser)
  /\ IF parser.parse_complete
     THEN command' = Build(parser) /\ remains' = ArgumentSize(parser)
     ELSE UNCHANGED <<command, remains>>
  /\ pc' = IF parsed = 0 THEN "read" ELSE "fill"
  /\ UNCHANGED <<parser, buf, parsed, requests, unread, running, conn, argument,
                 executed>>

FillArgument ==
  /\ pc = "fill"
  /\ LET toRead == IF command = NoCommand THEN 0
                   ELSE IF remains < Len(buf) THEN remains ELSE Len(buf)
     IN /\ argument' = argument \o SubSeq(buf, 1, toRead)
        /\ buf' = SubSeq(buf, toRead + 1, Len(buf))
        /\ remains' = remains - toRead
  /\ pc' = IF command # NoCommand /\ remains' = 0 THEN "run" ELSE "loop"
  /\ UNCHANGED <<parser, parsed, requests, unread, running, conn, command, executed>>

(* Execute, then send; the next command starts with parser p on the bytes  *)
(* in rest.                                                                *)
RunCommandThen(p, rest) ==
  /\ pc = "run"
  /\ executed' = Append(executed, [command |-> command, argument |-> argument])
  /\ \/ /\ command' = NoCommand /\ argument' = <<>> /\ parser' = p
        /\ pc' = "loop" /\ buf' = rest
        /\ UNCHANGED <<parsed, conn, remains>>
     \/ Close("lost")
  /\ UNCHANGED <<requests, unread, running>>

(* Mutants: the rest of the buffer is dropped; the parser is not reset.    *)
RunCommandDropsRest == RunCommandThen(Reset(parser), <<>>)
RunCommandNoReset == RunCommandThen(parser, buf)

RunCommand == RunCommandThen(Reset(parser), buf)

ProcessConnection ==
  \/ \E n \in 1..BufSize : n <= Len(unread) /\ ReadBytes(n)
  \/ ReadEnds \/ Loop \/ Parse \/ ParseFails \/ Parsed \/ FillArgument
  \/ RunCommand

Next == Stop \/ ProcessConnection

(* The thread of the connection runs; a read returns, at the latest with   *)
(* the receive timeout (ServerImpl.cpp:218).                               *)
Spec == Init /\ [][Next]_vars /\ WF_vars(ProcessConnection)

-----------------------------------------------------------------------------
(* Every variable has its type; the numbers of a command stay in their     *)
(* width.                                                                  *)
TypeOK ==
  /\ parser.state \in State
  /\ parser.flags \in 0..(Modulus - 1) /\ parser.bytes \in 0..(Modulus - 1)
  /\ parser.exprtime \in Int
  /\ parser.negative \in BOOLEAN /\ parser.parse_complete \in BOOLEAN
  /\ parser.name \in Seq(Byte) /\ parser.curKey \in Seq(Byte)
  /\ parser.keys \in Seq(Seq(Byte))
  /\ buf \in Seq(Byte) /\ unread \in Seq(Byte) /\ argument \in Seq(Byte)
  /\ Len(buf) <= BufSize /\ parsed \in 0..BufSize
  /\ remains \in 0..(Modulus + 1) /\ running \in BOOLEAN
  /\ pc \in {"read", "loop", "parse", "fill", "run", "done"}
  /\ conn \in {"open", "stopped", "lost", "refused"}

(* The numbers that a request has in digits.                               *)
Value(digits) ==
  LET value[i \in 0..Len(digits)] ==
        IF i = 0 THEN 0 ELSE value[i - 1] * 10 + DigitValue[digits[i]]
  IN value[Len(digits)]
Unsigned(s) == IF s[1] = "-" THEN Tail(s) ELSE s
ExprTime(s) == IF s[1] = "-" THEN -Value(Unsigned(s)) ELSE Value(s)

(* What was executed is the request and nothing but the request.  Whether  *)
(* the delimiter belongs to the argument, what becomes of flags that do    *)
(* not fit and how digits of exprtime add up is asked by the properties    *)
(* ArgumentIsBlock, FlagsAsSent and ExprTimeAsSent.                        *)
Frames(e, r) ==
  /\ e.command.name = r.name /\ e.command.keys = r.keys
  /\ Stores(r) =>
       /\ e.argument \in {r.data, r.data \o CRLF}
       /\ Value(r.flags) < Modulus => e.command.flags = Value(r.flags)
       /\ Len(Unsigned(r.exprtime)) = 1 => e.command.expire = ExprTime(r.exprtime)
  /\ ~Stores(r) => e.argument = <<>> /\ e.command.flags = 0 /\ e.command.expire = 0

(* However the reads cut the input, the commands executed are the first    *)
(* requests the client sent, in order, each with its own keys, numbers and *)
(* data: nothing of one request leaks into the next and no data byte is    *)
(* taken for a command (ServerImpl.cpp:105-158, Parser.cpp:23-162).        *)
FramingKept ==
  /\ Len(executed) <= Len(requests)
  /\ \A i \in DOMAIN executed : Frames(executed[i], requests[i])

(* The argument of a command is its data block, without the delimiter that *)
(* follows it (Parser.h:86-87, itest/network_test.pl:88-90; the code is    *)
(* ServerImpl.cpp:116-118).                                                *)
ArgumentIsBlock ==
  \A i \in DOMAIN executed :
    Stores(requests[i]) => executed[i].argument = requests[i].data

(* A command is executed with the flags that were sent; flags that do not  *)
(* fit their field are refused (Parser.cpp:86-91).                         *)
FlagsAsSent ==
  \A i \in DOMAIN executed :
    Stores(requests[i]) => executed[i].command.flags = Value(requests[i].flags)

(* A command is executed with the expiration time that was sent            *)
(* (Parser.h:80-83; the code is Parser.cpp:112-124).                       *)
ExprTimeAsSent ==
  \A i \in DOMAIN executed :
    Stores(requests[i]) =>
      executed[i].command.expire = ExprTime(requests[i].exprtime)

(* When the server waits for more input and the client has sent all of     *)
(* its, every request has been executed: a pipelined request never stays   *)
(* behind in client_buffer (ServerImpl.cpp:109-158).                       *)
NothingLost ==
  pc = "read" /\ unread = <<>> => Len(executed) = Len(requests)

Supported(r) ==
  /\ <<r.name>> \in KnownName \ {<<"gets">>, <<"prepend">>}
  /\ Stores(r) => Value(r.flags) < Modulus

RefusedNext ==
  /\ Len(executed) < Len(requests)
  /\ ~Supported(requests[Len(executed) + 1])

(* A connection is refused only because the next request is not supported; *)
(* a data block of zero bytes is (Parser.h:87-88; the code is              *)
(* ServerImpl.cpp:116-118, Parser.cpp:29-39).                              *)
RefusedForCause == conn = "refused" => RefusedNext

(* What is executed is what the client sent, as Parser.h:48-89 describes   *)
(* the fields of a request, and what is supported is not refused.          *)
ProtocolKept ==
  ArgumentIsBlock /\ FlagsAsSent /\ ExprTimeAsSent /\ RefusedForCause

(* A call of Parse always finds a parser that still takes bytes, so the    *)
(* inner loop cannot spin on bytes it does not consume nor drop them       *)
(* (ServerImpl.cpp:121-122).                                               *)
ParserReady == pc = "loop" /\ command = NoCommand => ~parser.parse_complete

(* A command whose line has been read is executed even if the server is    *)
(* stopped meanwhile, unless the client or the network gives up            *)
(* (ServerImpl.cpp:105-106).                                               *)
CommandFinished ==
  \A n \in 0..(MaxReq - 1) :
    command # NoCommand /\ Len(executed) = n ~> Len(executed) > n \/ conn = "lost"

(* A connection that waits for input between two commands when the server  *)
(* stops executes nothing any more (ServerImpl.cpp:105-106).               *)
StopCloses ==
  \A n \in 0..MaxReq :
    [](~running /\ pc = "read" /\ command = NoCommand /\ Len(executed) = n
         => [](Len(executed) = n))
=============================================================================
