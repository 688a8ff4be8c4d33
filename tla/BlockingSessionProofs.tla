----------------------- MODULE BlockingSessionProofs ------------------------
(***************************************************************************)
(* Proofs about BlockingSession, for every set of well-formed requests,    *)
(* buffer size and number width: the parser is ready when it is called, a  *)
(* stopped server executes nothing more, and, however the reads cut the    *)
(* stream, what is executed is what the client sent.                       *)
(***************************************************************************)
EXTENDS BlockingSession, SequenceLemmas

(* Where the handler stands decides whether a complete command line is     *)
(* still in the parser: only between the end of Parse and the reset that   *)
(* follows the execution, and then there is a command.                     *)
IInv ==
  /\ pc \in {"read", "loop", "parse", "fill", "run", "done"}
  /\ pc \in {"read", "loop", "fill", "done"} /\ command = NoCommand
       => ~parser.parse_complete
  /\ pc = "parse" => command = NoCommand
  /\ pc = "run" => command # NoCommand

-----------------------------------------------------------------------------
(* The stream.  Rest is what the server has still to look at; a request    *)
(* under way is Current, and what follows it is After.                     *)
Stream(rs) == FlattenSeq([i \in DOMAIN rs |-> Encoded(rs[i])])
Rest == buf \o unread
Ahead == Post(requests, Len(executed))
Current == requests[Len(executed) + 1]
After == Stream(Post(requests, Len(executed) + 1))

(* The rest of the stream from a field of request r on, if t follows r.    *)
FromData(r, t) == IF Stores(r) THEN r.data \o (CRLF \o t) ELSE t
FromCR(r, t) == <<CR>> \o (<<LF>> \o FromData(r, t))
FromBytes(r, t) == <<SP>> \o (Decimal(Len(r.data)) \o FromCR(r, t))
FromExprTime(r, t) == <<SP>> \o (r.exprtime \o FromBytes(r, t))
FromFlags(r, t) == <<SP>> \o (r.flags \o FromExprTime(r, t))
Spaced(keys) == [i \in DOMAIN keys |-> <<SP>> \o keys[i]]
FromKeys(keys, r, t) == FlattenSeq(Spaced(keys)) \o FromCR(r, t)
FromName(r, t) ==
  IF Stores(r) THEN <<SP>> \o (r.keys[1] \o FromFlags(r, t)) ELSE FromKeys(r.keys, r, t)

(* What the fields of the parser become.                                   *)
EmptyBlock(r) == Stores(r) /\ r.data = <<>>
ExprTimes(r) ==
  IF ~Stores(r) THEN {0}
  ELSE CASE Len(r.exprtime) = 1 -> {DigitValue[r.exprtime[1]]}
         [] Len(r.exprtime) = 2 /\ r.exprtime[1] = "-" ->
              {-DigitValue[r.exprtime[2]]}
         [] OTHER -> Int
FlagsOf(r) == IF Stores(r) THEN Value(r.flags) % Modulus ELSE 0
SizeOf(r) == IF Stores(r) THEN Len(r.data) ELSE 0

(* The parser inside request r, one definition for each state: how much of *)
(* the field has been read, and that exactly the rest of it is to come.    *)
InName(r, t) ==
  /\ parser.state = "sName" /\ parser.keys = <<>> /\ parser.curKey = <<>>
  /\ parser.flags = 0 /\ parser.exprtime = 0 /\ parser.bytes = 0
  /\ Rest = FromName(r, t)

InStoreKey(r, t) ==
  /\ parser.state = "spKey" /\ Stores(r) /\ parser.keys = <<>>
  /\ parser.flags = 0 /\ parser.exprtime = 0 /\ parser.bytes = 0
  /\ \E j \in 0..Len(r.keys[1]) :
       parser.curKey = Pre(r.keys[1], j) /\ Rest = Post(r.keys[1], j) \o FromFlags(r, t)

InFlags(r, t) ==
  /\ parser.state = "spFlags" /\ Stores(r) /\ parser.keys = r.keys
  /\ parser.exprtime = 0 /\ parser.bytes = 0
  /\ \E j \in 0..Len(r.flags) :
       /\ parser.flags = Value(Pre(r.flags, j)) % Modulus
       /\ Rest = Post(r.flags, j) \o FromExprTime(r, t)

InExprTimeStart(r, t) ==
  /\ parser.state = "spExprTimeStart" /\ Stores(r) /\ parser.keys = r.keys
  /\ parser.flags = FlagsOf(r) /\ parser.exprtime = 0 /\ parser.bytes = 0
  /\ Rest = r.exprtime \o FromBytes(r, t)

ReadSoFar(r, j) ==
  /\ Len(r.exprtime) = 1 => parser.exprtime = DigitValue[r.exprtime[1]]
  /\ Len(r.exprtime) = 2 /\ r.exprtime[1] = "-" =>
       IF j = 1 THEN parser.negative /\ parser.exprtime = 0
       ELSE parser.exprtime = -DigitValue[r.exprtime[2]]

InExprTime(r, t) ==
  /\ parser.state = "spExprTime" /\ Stores(r) /\ parser.keys = r.keys
  /\ parser.flags = FlagsOf(r) /\ parser.bytes = 0
  /\ \E j \in 1..Len(r.exprtime) :
       ReadSoFar(r, j) /\ Rest = Post(r.exprtime, j) \o FromBytes(r, t)

InBytes(r, t) ==
  /\ parser.state = "spBytes" /\ Stores(r) /\ parser.keys = r.keys
  /\ parser.flags = FlagsOf(r) /\ parser.exprtime \in ExprTimes(r)
  /\ \E j \in 0..Len(Decimal(Len(r.data))) :
       /\ parser.bytes = Value(Pre(Decimal(Len(r.data)), j))
       /\ Rest = Post(Decimal(Len(r.data)), j) \o FromCR(r, t)

InGetKey(r, t) ==
  /\ parser.state = "sgKey" /\ <<r.name>> \in GetName
  /\ parser.flags = 0 /\ parser.exprtime = 0 /\ parser.bytes = 0
  /\ \E i \in 1..Len(r.keys) : \E j \in 0..Len(r.keys[i]) :
       /\ parser.keys = Pre(r.keys, i - 1) /\ parser.curKey = Pre(r.keys[i], j)
       /\ Rest = Post(r.keys[i], j) \o FromKeys(Post(r.keys, i), r, t)

InLF(r, t) ==
  /\ parser.state = "sLF" /\ <<r.name>> \in KnownName /\ parser.keys = r.keys
  /\ parser.flags = FlagsOf(r) /\ parser.exprtime \in ExprTimes(r)
  /\ parser.bytes = SizeOf(r)
  /\ Rest = IF parser.parse_complete THEN FromData(r, t) ELSE <<LF>> \o FromData(r, t)

Reading(r, t) ==
  /\ parser.name = <<r.name>>
  /\ parser.parse_complete => parser.state = "sLF"
  /\ \/ InName(r, t) \/ InStoreKey(r, t) \/ InFlags(r, t) \/ InExprTimeStart(r, t)
     \/ InExprTime(r, t) \/ InBytes(r, t) \/ InGetKey(r, t) \/ InLF(r, t)

(* The command of request r, and how much of its argument has been copied. *)
CommandOf(r) ==
  /\ command.name = r.name /\ command.keys = r.keys
  /\ command.flags = FlagsOf(r) /\ command.expire \in ExprTimes(r)

Filling(r, t) ==
  /\ CommandOf(r)
  /\ SizeOf(r) = 0 => remains = 0 /\ argument = <<>> /\ Rest = FromData(r, t)
  /\ SizeOf(r) # 0 =>
       \E j \in 0..(Len(r.data) + 2) :
         /\ argument = Pre(r.data \o CRLF, j) /\ remains = Len(r.data) + 2 - j
         /\ Rest = Post(r.data \o CRLF, j) \o t

(* What executing request r comes down to: the argument is handed over     *)
(* with its delimiter, the flags are taken modulo their width.             *)
Outcome(e, r) ==
  /\ e.command.name = r.name /\ e.command.keys = r.keys
  /\ e.command.flags = FlagsOf(r) /\ e.command.expire \in ExprTimes(r)
  /\ e.argument = IF ~Stores(r) \/ EmptyBlock(r) THEN <<>> ELSE r.data \o CRLF

Outcomes ==
  /\ Len(executed) <= Len(requests)
  /\ \A i \in DOMAIN executed : Outcome(executed[i], requests[i])

(* A refusal has a cause: the next request, or the delimiter of an empty   *)
(* data block, which is taken for a command.                               *)
Explained ==
  conn = "refused" =>
    RefusedNext \/ (executed # <<>> /\ EmptyBlock(requests[Len(executed)]))

(* Between two requests; the delimiter of an empty data block may be left. *)
Between ==
  /\ parser \in FreshParser
  /\ \/ Rest = Stream(Ahead)
     \/ /\ executed # <<>> /\ EmptyBlock(requests[Len(executed)])
        /\ Rest = CRLF \o Stream(Ahead)

(* The handler is where the stream says it is.                             *)
Aligned ==
  pc # "done" =>
    \/ command = NoCommand /\ Between
    \/ /\ command = NoCommand /\ Len(executed) < Len(requests)
       /\ Reading(Current, After)
    \/ /\ command # NoCommand /\ Len(executed) < Len(requests)
       /\ Filling(Current, After)

(* What the loops leave behind at each place of the handler.               *)
Places ==
  /\ conn # "open" => pc = "done"
  /\ pc = "read" => buf = <<>>
  /\ pc \in {"read", "loop"} /\ command # NoCommand => remains > 0
  /\ pc = "run" => remains = 0
  /\ pc = "parse" /\ parsed = 0 => buf # <<>> /\ ~parser.parse_complete
  /\ pc = "parse" => parsed + Len(buf) <= BufSize
  /\ command = NoCommand => argument = <<>>

ParserType ==
  [state : State, name : Seq(Byte), curKey : Seq(Byte), keys : Seq(Seq(Byte)),
   flags : 0..(Modulus - 1), bytes : 0..(Modulus - 1), exprtime : Int,
   negative : BOOLEAN, parse_complete : BOOLEAN]

Typed ==
  /\ parser \in ParserType /\ requests \in Seq(Request)
  /\ buf \in Seq(Byte) /\ unread \in Seq(Byte) /\ argument \in Seq(Byte)
  /\ Len(buf) <= BufSize /\ parsed \in 0..BufSize /\ remains \in 0..(Modulus + 1)
  /\ running \in BOOLEAN /\ conn \in {"open", "stopped", "lost", "refused"}
  /\ executed \in Seq(Range(executed))

-----------------------------------------------------------------------------
(* Digits and numbers.                                                     *)
Ten == <<"0", "1", "2", "3", "4", "5", "6", "7", "8", "9">>

LEMMA DigitValues ==
  /\ \A n \in 0..9 : Ten[n + 1] \in Digit /\ DigitValue[Ten[n + 1]] = n
  /\ \A c \in Digit : DigitValue[c] \in 0..9 /\ c = Ten[DigitValue[c] + 1]
<1>1. \A n, k \in 0..9 : Ten[n + 1] = Ten[k + 1] => n = k
  BY DEF Ten
<1>2. \A n \in 0..9 : Ten[n + 1] \in Digit
  BY DEF Ten, Digit
<1>3. \A c \in Digit : \E n \in 0..9 : Ten[n + 1] = c
  <2>1. SUFFICES ASSUME NEW c \in Digit PROVE \E n \in 0..9 : Ten[n + 1] = c
    OBVIOUS
  <2>2. /\ Ten[0 + 1] = "0" /\ Ten[1 + 1] = "1" /\ Ten[2 + 1] = "2" /\ Ten[3 + 1] = "3"
        /\ Ten[4 + 1] = "4" /\ Ten[5 + 1] = "5" /\ Ten[6 + 1] = "6" /\ Ten[7 + 1] = "7"
        /\ Ten[8 + 1] = "8" /\ Ten[9 + 1] = "9"
    BY DEF Ten
  <2>3. /\ 0 \in 0..9 /\ 1 \in 0..9 /\ 2 \in 0..9 /\ 3 \in 0..9 /\ 4 \in 0..9
        /\ 5 \in 0..9 /\ 6 \in 0..9 /\ 7 \in 0..9 /\ 8 \in 0..9 /\ 9 \in 0..9
    OBVIOUS
  <2> QED BY <2>2, <2>3 DEF Digit
<1>4. \A c \in Digit : DigitValue[c] = CHOOSE n \in 0..9 : Ten[n + 1] = c
  BY DEF DigitValue, Ten
<1>5. \A c \in Digit : DigitValue[c] \in 0..9 /\ Ten[DigitValue[c] + 1] = c
  BY <1>3, <1>4
<1>6. \A n \in 0..9 : DigitValue[Ten[n + 1]] = n
  BY <1>1, <1>2, <1>5
<1> QED BY <1>2, <1>5, <1>6

LEMMA DigitOfValue == \A n \in 0..9 : DigitOf(n) \in Digit /\ DigitValue[DigitOf(n)] = n
<1> SUFFICES ASSUME NEW n \in 0..9 PROVE DigitOf(n) \in Digit /\ DigitValue[DigitOf(n)] = n
  OBVIOUS
<1>1. \E c \in Digit : DigitValue[c] = n
  BY DigitValues
<1> QED BY <1>1 DEF DigitOf

(* The recursive function in the definition of Value.                      *)
IsValue(g, s) ==
  g = [i \in 0..Len(s) |-> IF i = 0 THEN 0 ELSE g[i - 1] * 10 + DigitValue[s[i]]]

LEMMA ValueChosen ==
  ASSUME NEW s \in Seq(Digit)
  PROVE  \E g : IsValue(g, s) /\ Value(s) = g[Len(s)]
<1> DEFINE m == Len(s)
           h == [i \in 1..m |-> [x \in Nat |-> x * 10 + DigitValue[s[i]]]]
<1>1. m \in Nat /\ \A i \in 1..m : s[i] \in Digit /\ DigitValue[s[i]] \in Nat
  <2>1. m \in Nat /\ \A i \in 1..m : s[i] \in Digit
    BY LenProperties
  <2>2. \A c \in Digit : DigitValue[c] \in Nat
    BY DigitValues
  <2> QED BY <2>1, <2>2
<1>2. h \in [1..m -> [Nat -> Nat]] /\ \A i \in 1..m, x \in Nat : h[i][x] = x * 10 + DigitValue[s[i]]
  BY <1>1
<1>3. PICK g : Recurs(g, Nat, 0, m, h)
  <2> HIDE DEF m, h
  <2>1. 0 \in Nat /\ m \in Nat /\ h \in [1..m -> [Nat -> Nat]]
    BY <1>1, <1>2
  <2> QED BY <2>1, Recursion
<1> HIDE DEF h
<1>4. ASSUME NEW i \in 0..m
      PROVE  g[i] = IF i = 0 THEN 0 ELSE g[i - 1] * 10 + DigitValue[s[i]]
  <2>1. CASE i = 0
    BY <1>3, <2>1 DEF Recurs
  <2>2. CASE i # 0
    <3>1. i \in 1..m /\ i - 1 \in 0..m
      BY <1>1, <2>2
    <3>2. g[i - 1] \in Nat /\ g[i] = h[i][g[i - 1]]
      BY <1>3, <3>1 DEF Recurs
    <3> QED BY <1>2, <2>2, <3>1, <3>2
  <2> QED BY <2>1, <2>2
<1>5. IsValue(g, s)
  <2>1. g = [i \in 0..m |-> g[i]]
    BY <1>3 DEF Recurs
  <2> QED BY <1>4, <2>1 DEF IsValue
<1> DEFINE v == CHOOSE value : IsValue(value, s)
<1>6. IsValue(v, s)
  BY <1>5
<1>7. Value(s) = v[Len(s)]
  BY DEF Value, IsValue
<1> QED BY <1>6, <1>7

LEMMA ValueTyped ==
  ASSUME NEW s \in Seq(Digit), NEW g, IsValue(g, s)
  PROVE  \A i \in 0..Len(s) : g[i] \in Nat
<1>1. Len(s) \in Nat /\ \A i \in 1..Len(s) : DigitValue[s[i]] \in Nat
  <2>1. Len(s) \in Nat /\ \A i \in 1..Len(s) : s[i] \in Digit
    BY LenProperties
  <2>2. \A c \in Digit : DigitValue[c] \in Nat
    BY DigitValues
  <2> QED BY <2>1, <2>2
<1>2. \A i \in 0..Len(s) : g[i] = IF i = 0 THEN 0 ELSE g[i - 1] * 10 + DigitValue[s[i]]
  BY DEF IsValue
<1> DEFINE S == {i \in Nat : i \in 0..Len(s) => g[i] \in Nat}
<1>3. 0 \in S
  BY <1>1, <1>2
<1>4. ASSUME NEW i \in Nat, i \in S PROVE i + 1 \in S
  <2>1. SUFFICES ASSUME i + 1 \in 0..Len(s) PROVE g[i + 1] \in Nat
    OBVIOUS
  <2>2. i \in 0..Len(s) /\ i + 1 \in 1..Len(s) /\ i + 1 # 0 /\ (i + 1) - 1 = i
    BY <1>1, <2>1
  <2>3. g[i + 1] = g[i] * 10 + DigitValue[s[i + 1]] /\ g[i] \in Nat /\ DigitValue[s[i + 1]] \in Nat
    BY <1>1, <1>2, <1>4, <2>1, <2>2
  <2> QED BY <2>3
<1>5. Nat \subseteq S
  <2> HIDE DEF S
  <2> QED BY <1>3, <1>4, Induction
<1> QED BY <1>1, <1>5

(* The value of a prefix is what the recursion has reached.                *)
LEMMA ValueOfPre ==
  ASSUME NEW s \in Seq(Digit), NEW g, IsValue(g, s), NEW j \in 0..Len(s)
  PROVE  Pre(s, j) \in Seq(Digit) /\ Value(Pre(s, j)) = g[j]
<1>1. Len(s) \in Nat
  BY LenProperties
<1>2. /\ Pre(s, j) \in Seq(Digit) /\ Len(Pre(s, j)) = j
      /\ \A i \in 1..j : Pre(s, j)[i] = s[i]
  BY Halves
<1>3. PICK f : IsValue(f, Pre(s, j)) /\ Value(Pre(s, j)) = f[j]
  BY <1>2, ValueChosen
<1>4. \A i \in 0..Len(s) : g[i] = IF i = 0 THEN 0 ELSE g[i - 1] * 10 + DigitValue[s[i]]
  BY DEF IsValue
<1>5. \A i \in 0..j : f[i] = IF i = 0 THEN 0 ELSE f[i - 1] * 10 + DigitValue[Pre(s, j)[i]]
  BY <1>2, <1>3 DEF IsValue
<1> DEFINE S == {i \in Nat : i \in 0..j => f[i] = g[i]}
<1>6. 0 \in S
  BY <1>1, <1>4, <1>5
<1>7. ASSUME NEW i \in Nat, i \in S PROVE i + 1 \in S
  <2>1. SUFFICES ASSUME i + 1 \in 0..j PROVE f[i + 1] = g[i + 1]
    OBVIOUS
  <2>2. /\ i \in 0..j /\ i + 1 \in 1..j /\ i + 1 \in 0..Len(s) /\ i + 1 # 0
        /\ (i + 1) - 1 = i
    BY <1>1, <2>1
  <2>3. g[i + 1] = g[i] * 10 + DigitValue[s[i + 1]]
    BY <1>4, <2>2
  <2>4. f[i + 1] = f[i] * 10 + DigitValue[s[i + 1]]
    BY <1>2, <1>5, <2>1, <2>2
  <2> QED BY <1>7, <2>2, <2>3, <2>4
<1>8. Nat \subseteq S
  <2> HIDE DEF S
  <2> QED BY <1>6, <1>7, Induction
<1>9. j \in Nat /\ j \in 0..j
  BY <1>1
<1> QED BY <1>2, <1>3, <1>8, <1>9

(* Reading a digit more, and never more than the whole number.             *)
LEMMA ValueFacts ==
  ASSUME NEW s \in Seq(Digit)
  PROVE  /\ Value(s) \in Nat /\ Value(Pre(s, 0)) = 0
         /\ \A j \in 0..Len(s) : Value(Pre(s, j)) \in 0..Value(s)
         /\ \A j \in 0..(Len(s) - 1) :
              Value(Pre(s, j + 1)) = Value(Pre(s, j)) * 10 + DigitValue[s[j + 1]]
<1>1. Len(s) \in Nat /\ \A i \in 1..Len(s) : DigitValue[s[i]] \in Nat
  <2>1. Len(s) \in Nat /\ \A i \in 1..Len(s) : s[i] \in Digit
    BY LenProperties
  <2>2. \A c \in Digit : DigitValue[c] \in Nat
    BY DigitValues
  <2> QED BY <2>1, <2>2
<1>2. PICK g : IsValue(g, s) /\ Value(s) = g[Len(s)]
  BY ValueChosen
<1>3. \A i \in 0..Len(s) : g[i] = IF i = 0 THEN 0 ELSE g[i - 1] * 10 + DigitValue[s[i]]
  BY <1>2 DEF IsValue
<1>4. \A i \in 0..Len(s) : g[i] \in Nat
  BY <1>2, ValueTyped
<1>5. \A j \in 0..Len(s) : Value(Pre(s, j)) = g[j]
  BY <1>2, ValueOfPre
<1>6. \A j \in 0..(Len(s) - 1) : g[j + 1] = g[j] * 10 + DigitValue[s[j + 1]]
  <2> SUFFICES ASSUME NEW j \in 0..(Len(s) - 1)
               PROVE  g[j + 1] = g[j] * 10 + DigitValue[s[j + 1]]
    OBVIOUS
  <2>1. j + 1 \in 0..Len(s) /\ j + 1 # 0 /\ (j + 1) - 1 = j
    BY <1>1
  <2> QED BY <1>3, <2>1
<1>7. \A j \in 0..Len(s) : g[j] <= g[Len(s)]
  <2> DEFINE S == {n \in Nat : n \in 0..Len(s) => g[Len(s) - n] <= g[Len(s)]}
  <2>1. 0 \in S
    BY <1>1, <1>4
  <2>2. ASSUME NEW n \in Nat, n \in S PROVE n + 1 \in S
    <3>1. SUFFICES ASSUME n + 1 \in 0..Len(s) PROVE g[Len(s) - (n + 1)] <= g[Len(s)]
      OBVIOUS
    <3> DEFINE j == Len(s) - (n + 1)
    <3>2. /\ j \in 0..(Len(s) - 1) /\ j \in 0..Len(s) /\ j + 1 \in 0..Len(s)
          /\ j + 1 \in 1..Len(s) /\ Len(s) - n = j + 1 /\ n \in 0..Len(s)
      BY <1>1, <3>1
    <3>3. g[j + 1] <= g[Len(s)]
      BY <2>2, <3>2
    <3> HIDE DEF j
    <3>4. g[j + 1] = g[j] * 10 + DigitValue[s[j + 1]] /\ DigitValue[s[j + 1]] \in Nat
      BY <1>1, <1>6, <3>2
    <3>5. g[j] \in Nat /\ g[Len(s)] \in Nat
      BY <1>1, <1>4, <3>2
    <3>6. g[j] <= g[Len(s)]
      BY <3>3, <3>4, <3>5
    <3> QED BY <3>6 DEF j
  <2>3. Nat \subseteq S
    <3> HIDE DEF S
    <3> QED BY <2>1, <2>2, Induction
  <2> SUFFICES ASSUME NEW j \in 0..Len(s) PROVE g[j] <= g[Len(s)]
    OBVIOUS
  <2>4. Len(s) - j \in Nat /\ Len(s) - j \in 0..Len(s) /\ Len(s) - (Len(s) - j) = j
    BY <1>1
  <2>5. Len(s) - j \in S
    BY <2>3, <2>4
  <2> QED BY <2>4, <2>5
<1>8. 0 \in 0..Len(s) /\ Len(s) \in 0..Len(s) /\ g[0] = 0
  BY <1>1, <1>3
<1>9. \A j \in 0..(Len(s) - 1) : j \in 0..Len(s) /\ j + 1 \in 0..Len(s)
  BY <1>1
<1>10. /\ Value(s) \in Nat /\ Value(Pre(s, 0)) = 0
       /\ \A j \in 0..Len(s) : Value(Pre(s, j)) \in 0..Value(s)
  BY <1>2, <1>4, <1>5, <1>7, <1>8
<1>11. \A j \in 0..(Len(s) - 1) :
          Value(Pre(s, j + 1)) = Value(Pre(s, j)) * 10 + DigitValue[s[j + 1]]
  BY <1>5, <1>6, <1>9
<1> QED BY <1>10, <1>11

(* The size of the data block is written as it is read.                    *)
LEMMA DecimalValue ==
  ASSUME NEW n \in 0..99
  PROVE  Decimal(n) \in Seq(Digit) /\ Decimal(n) # <<>> /\ Value(Decimal(n)) = n
<1>1. CASE n < 10
  <2> DEFINE s == Decimal(n)
  <2>1. s = <<DigitOf(n)>> /\ DigitOf(n) \in Digit /\ DigitValue[DigitOf(n)] = n
    BY <1>1, DigitOfValue DEF Decimal
  <2>2. s \in Seq(Digit) /\ Len(s) = 1 /\ s[1] = DigitOf(n) /\ s # <<>>
    BY <2>1
  <2> HIDE DEF s
  <2>3. Value(Pre(s, 0)) = 0 /\ Value(Pre(s, 0 + 1)) = Value(Pre(s, 0)) * 10 + DigitValue[s[0 + 1]]
    BY <2>2, ValueFacts
  <2>4. Pre(s, 1) = s
    BY <2>2, WholeSequence
  <2> QED BY <2>1, <2>2, <2>3, <2>4 DEF s
<1>2. CASE ~(n < 10)
  <2>1. n \div 10 \in 0..9 /\ n % 10 \in 0..9 /\ n = (n \div 10) * 10 + (n % 10)
    OBVIOUS
  <2> DEFINE s == Decimal(n)
             d == DigitOf(n \div 10)
             e == DigitOf(n % 10)
  <2>2. /\ d \in Digit /\ DigitValue[d] = n \div 10
        /\ e \in Digit /\ DigitValue[e] = n % 10
    BY <2>1, DigitOfValue
  <2>3. s = <<d, e>>
    BY <1>2 DEF Decimal
  <2> HIDE DEF d, e
  <2>4. s \in Seq(Digit) /\ Len(s) = 2 /\ s[1] = d /\ s[2] = e /\ s # <<>>
    BY <2>2, <2>3
  <2> HIDE DEF s
  <2>5. /\ Value(Pre(s, 0)) = 0
        /\ Value(Pre(s, 0 + 1)) = Value(Pre(s, 0)) * 10 + DigitValue[s[0 + 1]]
        /\ Value(Pre(s, 1 + 1)) = Value(Pre(s, 1)) * 10 + DigitValue[s[1 + 1]]
    BY <2>4, ValueFacts
  <2>6. Pre(s, 2) = s
    BY <2>4, WholeSequence
  <2>7. Value(s) = (n \div 10) * 10 + (n % 10)
    BY <2>1, <2>2, <2>4, <2>5, <2>6
  <2> QED BY <2>1, <2>4, <2>7 DEF s
<1> QED BY <1>1, <1>2

(* Taking the number modulo its width at each digit, as the code does, or   *)
(* once at the end.                                                        *)
LEMMA DivisionUnique ==
  ASSUME NEW m \in Nat \ {0}, NEW p \in Int, NEW q \in Int,
         NEW x \in 0..(m - 1), NEW y \in 0..(m - 1), m * p + x = m * q + y
  PROVE  x = y
<1>1. \A a, b \in Int : a >= 1 => m * (b + a) >= m * b + m
  <2> SUFFICES ASSUME NEW a \in Int, NEW b \in Int, a >= 1 PROVE m * (b + a) >= m * b + m
    OBVIOUS
  <2>1. m * (b + a) = m * b + m * a
    OBVIOUS
  <2>2. m * a >= m
    OBVIOUS
  <2> QED BY <2>1, <2>2
<1>2. CASE p < q
  <2>1. m * (p + (q - p)) >= m * p + m
    BY <1>1, <1>2
  <2>2. p + (q - p) = q
    OBVIOUS
  <2>3. m * q >= m * p + m
    BY <2>1, <2>2
  <2> DEFINE mp == m * p
             mq == m * q
  <2>4. mp \in Int /\ mq \in Int /\ mq >= mp + m /\ mp + x = mq + y
    BY <2>3
  <2> HIDE DEF mp, mq
  <2> QED BY <2>4
<1>3. CASE q < p
  <2>1. m * (q + (p - q)) >= m * q + m
    BY <1>1, <1>3
  <2>2. q + (p - q) = p
    OBVIOUS
  <2>3. m * p >= m * q + m
    BY <2>1, <2>2
  <2> DEFINE mp == m * p
             mq == m * q
  <2>4. mp \in Int /\ mq \in Int /\ mp >= mq + m /\ mp + x = mq + y
    BY <2>3
  <2> HIDE DEF mp, mq
  <2> QED BY <2>4
<1>4. CASE p = q
  <2> DEFINE mp == m * p
  <2>1. mp \in Int /\ mp + x = mp + y
    BY <1>4
  <2> HIDE DEF mp
  <2> QED BY <2>1
<1> QED BY <1>2, <1>3, <1>4

LEMMA ShiftedModulo ==
  ASSUME NEW m \in Nat \ {0}, NEW z \in Nat, NEW d \in Nat
  PROVE  ((z % m) * 10 + d) % m = (z * 10 + d) % m
<1> DEFINE q == z \div m
           x == z % m
           a == x * 10 + d
           b == z * 10 + d
<1>1. q \in Nat /\ x \in 0..(m - 1) /\ z = m * q + x
  OBVIOUS
<1> HIDE DEF q, x
<1>2. a \in Nat /\ b \in Nat
  BY <1>1
<1>3. b = m * (10 * q) + a
  <2>1. m * (10 * q) = (m * q) * 10
    BY <1>1
  <2> QED BY <1>1, <2>1
<1> HIDE DEF a, b
<1>4. /\ a = m * (a \div m) + (a % m) /\ a % m \in 0..(m - 1) /\ a \div m \in Int
      /\ b = m * (b \div m) + (b % m) /\ b % m \in 0..(m - 1) /\ b \div m \in Int
  BY <1>2
<1> DEFINE ka == a \div m
           kb == b \div m
           ra == a % m
           rb == b % m
           k == 10 * q + ka
<1>5. ka \in Int /\ kb \in Int /\ k \in Int /\ ra \in 0..(m - 1) /\ rb \in 0..(m - 1)
  BY <1>1, <1>4
<1>6. m * k + ra = m * kb + rb
  <2> HIDE DEF ka, kb, ra, rb
  <2>1. a = m * ka + ra /\ b = m * kb + rb
    BY <1>4 DEF ka, kb, ra, rb
  <2>2. m * k = m * (10 * q) + m * ka
    BY <1>1, <1>5
  <2> QED BY <1>1, <1>2, <1>3, <1>5, <2>1, <2>2
<1>7. ra = rb
  <2> HIDE DEF ka, kb, ra, rb, k
  <2> QED BY <1>5, <1>6, DivisionUnique
<1> QED BY <1>7 DEF a, b, x

-----------------------------------------------------------------------------
(* The bytes of a request.                                                 *)
Alphabet == Byte \cup Digit \cup {SP, CR, LF, "-"} \cup {r.name : r \in Request}

LEMMA RequestParts ==
  ASSUME NEW r \in Request
  PROVE  /\ r.name \in Alphabet /\ r.name \notin {SP, CR}
         /\ r.keys \in Seq(Seq(Alphabet)) /\ r.keys \in Seq(Seq(Byte))
         /\ \A i \in 1..Len(r.keys) : \A j \in 1..Len(r.keys[i]) : r.keys[i][j] \notin {SP, CR}
         /\ <<r.name>> \in GetName => r.keys # <<>>
         /\ <<r.name>> = StatsName => r.keys = <<>>
<1>1. WellFormed(r)
  BY RequestAssumption
<1>2. r.keys \in Seq(Seq(Byte \ {SP, CR}))
  BY <1>1 DEF WellFormed
<1>3. Seq(Byte \ {SP, CR}) \subseteq Seq(Byte) /\ Seq(Byte) \subseteq Seq(Alphabet)
  <2>1. Byte \ {SP, CR} \subseteq Byte /\ Byte \subseteq Alphabet
    BY DEF Alphabet
  <2> QED BY <2>1, SeqMonotonic
<1>4. r.keys \in Seq(Seq(Byte)) /\ r.keys \in Seq(Seq(Alphabet))
  <2>1. Seq(Byte \ {SP, CR}) \subseteq Seq(Alphabet)
    BY <1>3
  <2> DEFINE P == Seq(Byte \ {SP, CR})
             Q == Seq(Byte)
             R == Seq(Alphabet)
  <2>2. r.keys \in Seq(P) /\ P \subseteq Q /\ P \subseteq R
    BY <1>2, <1>3, <2>1
  <2> HIDE DEF P, Q, R
  <2>3. r.keys \in Seq(Q) /\ r.keys \in Seq(R)
    BY <2>2, SeqMonotonic
  <2> QED BY <2>3 DEF Q, R
<1>5. ASSUME NEW i \in 1..Len(r.keys), NEW j \in 1..Len(r.keys[i])
      PROVE  r.keys[i][j] \notin {SP, CR}
  <2>1. r.keys[i] \in Seq(Byte \ {SP, CR})
    BY <1>2, ElementOfSeq
  <2>2. r.keys[i][j] \in Byte \ {SP, CR}
    BY <2>1, ElementOfSeq
  <2> QED BY <2>2
<1>6. r.name \in Alphabet
  BY DEF Alphabet
<1> QED BY <1>1, <1>4, <1>5, <1>6 DEF WellFormed

LEMMA StoreParts ==
  ASSUME NEW r \in Request, Stores(r)
  PROVE  /\ Len(r.keys) = 1 /\ r.keys[1] \in Seq(Alphabet)
         /\ r.flags \in Seq(Digit) /\ r.flags \in Seq(Alphabet)
         /\ r.exprtime \in Seq(Alphabet) /\ r.exprtime # <<>>
         /\ r.exprtime[1] \in Digit \cup {"-"}
         /\ Len(r.exprtime) = 1 => r.exprtime[1] \in Digit
         /\ \A j \in 2..Len(r.exprtime) : r.exprtime[j] \in Digit
         /\ r.data \in Seq(Byte) /\ r.data \in Seq(Alphabet) /\ Len(r.data) \in 0..99
         /\ Len(r.data) < Modulus
         /\ Decimal(Len(r.data)) \in Seq(Digit) /\ Decimal(Len(r.data)) \in Seq(Alphabet)
         /\ Decimal(Len(r.data)) # <<>> /\ Value(Decimal(Len(r.data))) = Len(r.data)
<1> DEFINE x == r.exprtime
<1>1. WellFormed(r)
  BY RequestAssumption
<1>2. /\ Len(r.keys) = 1 /\ r.flags \in Seq(Digit) /\ r.data \in Seq(Byte)
      /\ Len(r.data) < 100 /\ Len(r.data) < Modulus
      /\ x \in Seq(Digit \cup {"-"}) /\ x # <<>> /\ x # <<"-">> /\ Tail(x) \in Seq(Digit)
  BY <1>1 DEF WellFormed
<1>3. Digit \subseteq Alphabet /\ Byte \subseteq Alphabet /\ Digit \cup {"-"} \subseteq Alphabet
  BY DEF Alphabet
<1>4. r.flags \in Seq(Alphabet) /\ r.data \in Seq(Alphabet) /\ x \in Seq(Alphabet)
  BY <1>2, <1>3, SeqMonotonic
<1>5. Len(r.data) \in 0..99
  <2> DEFINE n == Len(r.data)
  <2>1. n \in Nat /\ n < 100
    BY <1>2, LenProperties
  <2> HIDE DEF n
  <2>2. n \in 0..99
    BY <2>1
  <2> QED BY <2>2 DEF n
<1>6. /\ Decimal(Len(r.data)) \in Seq(Digit) /\ Decimal(Len(r.data)) # <<>>
      /\ Value(Decimal(Len(r.data))) = Len(r.data)
  BY <1>5, DecimalValue
<1>7. Decimal(Len(r.data)) \in Seq(Alphabet)
  BY <1>3, <1>6, SeqMonotonic
<1>8. r.keys[1] \in Seq(Alphabet)
  <2> DEFINE P == Seq(Alphabet)
  <2>1. r.keys \in Seq(P)
    BY RequestParts
  <2>3. 1 \in 1..Len(r.keys)
    BY <1>2
  <2> HIDE DEF P
  <2>2. r.keys[1] \in P
    BY <2>1, <2>3, ElementOfSeq
  <2> QED BY <2>2 DEF P
<1>9. Len(x) \in Nat \ {0} /\ \A j \in 1..Len(x) : x[j] \in Digit \cup {"-"}
  BY <1>2, EmptySeq, LenProperties
<1>10. ASSUME NEW j \in 2..Len(x) PROVE x[j] \in Digit
  <2>1. /\ Len(Tail(x)) = Len(x) - 1
        /\ \A i \in 1..Len(Tail(x)) : Tail(x)[i] = x[i + 1]
    BY <1>2, HeadTailProperties
  <2>2. j - 1 \in 1..Len(Tail(x)) /\ (j - 1) + 1 = j
    BY <1>9, <2>1
  <2>3. Tail(x)[j - 1] \in Digit
    BY <1>2, <2>2, ElementOfSeq
  <2>4. Tail(x)[j - 1] = x[j]
    BY <2>1, <2>2
  <2> QED BY <2>3, <2>4
<1>11. ASSUME Len(x) = 1 PROVE x[1] \in Digit
  <2>1. ASSUME x[1] = "-" PROVE FALSE
    <3>1. <<"-">> \in Seq(Digit \cup {"-"}) /\ Len(<<"-">>) = 1 /\ <<"-">>[1] = "-"
      OBVIOUS
    <3>2. x = <<"-">>
      BY <1>2, <1>11, <2>1, <3>1, SeqEqual
    <3> QED BY <1>2, <3>2
  <2> QED BY <1>9, <1>11, <2>1
<1>12. x[1] \in Digit \cup {"-"}
  BY <1>9
<1> QED BY <1>2, <1>4, <1>5, <1>6, <1>7, <1>8, <1>10, <1>11, <1>12

(* The functions of what is left are sequences.                            *)
LEMMA SpacedFacts ==
  ASSUME NEW keys \in Seq(Seq(Alphabet))
  PROVE  /\ Spaced(keys) \in Seq(Seq(Alphabet)) /\ Len(Spaced(keys)) = Len(keys)
         /\ \A i \in 1..Len(keys) : Spaced(keys)[i] = <<SP>> \o keys[i]
<1>1. Len(keys) \in Nat /\ DOMAIN keys = 1..Len(keys)
      /\ \A i \in 1..Len(keys) : keys[i] \in Seq(Alphabet)
  BY LenProperties
<1>2. <<SP>> \in Seq(Alphabet)
  BY DEF Alphabet
<1>3. \A i \in 1..Len(keys) : <<SP>> \o keys[i] \in Seq(Alphabet)
  BY <1>1, <1>2, ConcatProperties
<1> DEFINE P == Seq(Alphabet)
           e == [i \in 1..Len(keys) |-> <<SP>> \o keys[i]]
<1>4. e \in [1..Len(keys) -> P]
  BY <1>3
<1>5. Spaced(keys) = e /\ \A i \in 1..Len(keys) : e[i] = <<SP>> \o keys[i]
  BY <1>1 DEF Spaced
<1> HIDE DEF P, e
<1>6. e \in Seq(P) /\ Len(e) = Len(keys)
  <2>1. e \in Seq(P)
    <3>1. e \in UNION {[1..n -> P] : n \in Nat}
      BY <1>1, <1>4
    <3> QED BY <3>1, SeqDef, Zenon
  <2>2. DOMAIN e = 1..Len(keys) /\ DOMAIN e = 1..Len(e) /\ Len(e) \in Nat
    BY <1>4, <2>1, LenProperties
  <2> QED BY <1>1, <2>1, <2>2
<1> QED BY <1>5, <1>6 DEF P

LEMMA RestTyped ==
  ASSUME NEW r \in Request, NEW t \in Seq(Alphabet)
  PROVE  /\ FromData(r, t) \in Seq(Alphabet) /\ FromCR(r, t) \in Seq(Alphabet)
         /\ \A keys \in Seq(Seq(Alphabet)) : FromKeys(keys, r, t) \in Seq(Alphabet)
         /\ Stores(r) =>
              /\ FromBytes(r, t) \in Seq(Alphabet) /\ FromExprTime(r, t) \in Seq(Alphabet)
              /\ FromFlags(r, t) \in Seq(Alphabet)
         /\ FromName(r, t) \in Seq(Alphabet)
<1> DEFINE A == Seq(Alphabet)
<1>1. \A x, y \in A : x \o y \in A
  BY ConcatProperties
<1>2. <<SP>> \in A /\ <<CR>> \in A /\ <<LF>> \in A /\ CRLF \in A /\ t \in A
  BY DEF Alphabet, CRLF
<1>3. r.keys \in Seq(A)
  BY RequestParts
<1>4. Stores(r) => /\ r.keys[1] \in A /\ r.flags \in A /\ r.exprtime \in A /\ r.data \in A
                   /\ Decimal(Len(r.data)) \in A
  BY StoreParts
<1>5. \A keys \in Seq(A) : FlattenSeq(Spaced(keys)) \in A
  BY SpacedFacts, FlattenTyped
<1> HIDE DEF A
<1>6. FromData(r, t) \in A
  BY <1>1, <1>2, <1>4 DEF FromData
<1>7. FromCR(r, t) \in A
  BY <1>1, <1>2, <1>6 DEF FromCR
<1>8. \A keys \in Seq(A) : FromKeys(keys, r, t) \in A
  BY <1>1, <1>5, <1>7 DEF FromKeys
<1>9. Stores(r) => FromBytes(r, t) \in A
  BY <1>1, <1>2, <1>4, <1>7 DEF FromBytes
<1>10. Stores(r) => FromExprTime(r, t) \in A
  BY <1>1, <1>2, <1>4, <1>9 DEF FromExprTime
<1>11. Stores(r) => FromFlags(r, t) \in A
  BY <1>1, <1>2, <1>4, <1>10 DEF FromFlags
<1>12. FromName(r, t) \in A
  BY <1>1, <1>2, <1>3, <1>4, <1>8, <1>11 DEF FromName
<1> QED BY <1>6, <1>7, <1>8, <1>9, <1>10, <1>11, <1>12 DEF A

LEMMA TwoBytes ==
  ASSUME NEW a \in Alphabet, NEW b \in Alphabet, NEW z \in Seq(Alphabet)
  PROVE  <<a, b>> \o z = <<a>> \o (<<b>> \o z)
<1>1. <<a>> \in Seq(Alphabet) /\ <<b>> \in Seq(Alphabet)
  OBVIOUS
<1>2. (<<a>> \o <<b>>) \o z = <<a>> \o (<<b>> \o z)
  BY <1>1, ConcatAssociative
<1>3. <<a>> \o <<b>> = <<a, b>>
  <2>1. <<a, b>> \in Seq(Alphabet) /\ Len(<<a, b>>) = 2 /\ <<a, b>>[1] = a /\ <<a, b>>[2] = b
    OBVIOUS
  <2>2. Len(<<a>>) = 1 /\ Len(<<b>>) = 1 /\ <<a>>[1] = a /\ <<b>>[1] = b
    OBVIOUS
  <2> DEFINE x == <<a>>
             y == <<b>>
             z2 == <<a, b>>
  <2> HIDE DEF x, y, z2
  <2>3. /\ x \in Seq(Alphabet) /\ y \in Seq(Alphabet) /\ z2 \in Seq(Alphabet)
        /\ Len(x) = 1 /\ Len(y) = 1 /\ Len(z2) = 2
        /\ x[1] = a /\ y[1] = b /\ z2[1] = a /\ z2[2] = b
    BY <1>1, <2>1, <2>2 DEF x, y, z2
  <2>4. /\ x \o y \in Seq(Alphabet) /\ Len(x \o y) = 2
        /\ (x \o y)[1] = x[1] /\ (x \o y)[2] = y[1]
    BY SMTT(30), <2>3, ConcatProperties
  <2>5. x \o y = z2
    BY <2>3, <2>4, SeqEqual
  <2> QED BY <2>5 DEF x, y, z2
<1> QED BY <1>2, <1>3

(* A request in front of a stream begins with its name.                    *)
LEMMA EncodedFirst ==
  ASSUME NEW r \in Request, NEW t \in Seq(Alphabet)
  PROVE  /\ Encoded(r) \in Seq(Alphabet) /\ Encoded(r) # <<>>
         /\ Encoded(r) \o t = <<r.name>> \o FromName(r, t)
<1> DEFINE A == Seq(Alphabet)
<1>1. \A x, y \in A : x \o y \in A
  BY ConcatProperties
<1>2. \A x, y, z \in A : Assoc(x, y, z)
  BY Associates
<1>3. SP \in Alphabet /\ CR \in Alphabet /\ LF \in Alphabet /\ r.name \in Alphabet
  BY RequestParts DEF Alphabet
<1>4. /\ <<SP>> \in A /\ <<CR>> \in A /\ <<LF>> \in A /\ CRLF \in A
      /\ <<r.name>> \in A /\ <<r.name, SP>> \in A /\ t \in A
  BY <1>3 DEF CRLF
<1>5. \A z \in A : CRLF \o z = <<CR>> \o (<<LF>> \o z)
  BY <1>3, TwoBytes DEF CRLF
<1>6. \A z \in A : <<r.name, SP>> \o z = <<r.name>> \o (<<SP>> \o z)
  BY <1>3, TwoBytes
<1>7. CASE Stores(r)
  <2> DEFINE k == r.keys[1]
             f == r.flags
             x == r.exprtime
             n == Decimal(Len(r.data))
             d == r.data
             e1 == <<r.name, SP>> \o k
             e2 == e1 \o <<SP>>
             e3 == e2 \o f
             e4 == e3 \o <<SP>>
             e5 == e4 \o x
             e6 == e5 \o <<SP>>
             e7 == e6 \o n
             e8 == e7 \o CRLF
             e9 == e8 \o d
  <2>1. Encoded(r) = e9 \o CRLF
    BY <1>7 DEF Encoded
  <2>2. k \in A /\ f \in A /\ x \in A /\ n \in A /\ d \in A
    BY <1>7, StoreParts
  <2>3. /\ e1 = <<r.name, SP>> \o k /\ e2 = e1 \o <<SP>> /\ e3 = e2 \o f
        /\ e4 = e3 \o <<SP>> /\ e5 = e4 \o x /\ e6 = e5 \o <<SP>> /\ e7 = e6 \o n
        /\ e8 = e7 \o CRLF /\ e9 = e8 \o d
    OBVIOUS
  <2>4. /\ FromData(r, t) = d \o (CRLF \o t)
        /\ FromCR(r, t) = <<CR>> \o (<<LF>> \o FromData(r, t))
        /\ FromBytes(r, t) = <<SP>> \o (n \o FromCR(r, t))
        /\ FromExprTime(r, t) = <<SP>> \o (x \o FromBytes(r, t))
        /\ FromFlags(r, t) = <<SP>> \o (f \o FromExprTime(r, t))
        /\ FromName(r, t) = <<SP>> \o (k \o FromFlags(r, t))
    BY <1>7 DEF FromData, FromCR, FromBytes, FromExprTime, FromFlags, FromName
  <2>5. /\ FromData(r, t) \in A /\ FromCR(r, t) \in A /\ FromBytes(r, t) \in A
        /\ FromExprTime(r, t) \in A /\ FromFlags(r, t) \in A
    BY <1>7, RestTyped
  <2> HIDE DEF A, k, f, x, n, d, e1, e2, e3, e4, e5, e6, e7, e8, e9
  <2>6. e1 \in A /\ e2 \in A /\ e3 \in A /\ e4 \in A /\ e5 \in A
    BY <1>1, <1>4, <2>2, <2>3
  <2>7. e6 \in A /\ e7 \in A /\ e8 \in A /\ e9 \in A
    BY <1>1, <1>4, <2>2, <2>3, <2>6
  <2>8. (e9 \o CRLF) \o t = e8 \o FromData(r, t)
    <3>1. CRLF \o t \in A
      BY <1>1, <1>4
    <3>2. Assoc(e9, CRLF, t)
      BY <1>2, <1>4, <2>7
    <3>3. Assoc(e8, d, CRLF \o t)
      BY <1>2, <2>2, <2>7, <3>1
    <3> QED BY <2>3, <2>4, <3>2, <3>3 DEF Assoc
  <2>9. e8 \o FromData(r, t) = e7 \o FromCR(r, t)
    <3>1. Assoc(e7, CRLF, FromData(r, t))
      BY <1>2, <1>4, <2>5, <2>7
    <3>2. CRLF \o FromData(r, t) = FromCR(r, t)
      BY <1>5, <2>4, <2>5
    <3> QED BY <2>3, <3>1, <3>2 DEF Assoc
  <2>10. e7 \o FromCR(r, t) = e5 \o FromBytes(r, t)
    <3>1. n \o FromCR(r, t) \in A
      BY <1>1, <2>2, <2>5
    <3>2. Assoc(e6, n, FromCR(r, t))
      BY <1>2, <2>2, <2>5, <2>7
    <3>3. Assoc(e5, <<SP>>, n \o FromCR(r, t))
      BY <1>2, <1>4, <2>6, <3>1
    <3> QED BY <2>3, <2>4, <3>2, <3>3 DEF Assoc
  <2>11. e5 \o FromBytes(r, t) = e3 \o FromExprTime(r, t)
    <3>1. x \o FromBytes(r, t) \in A
      BY <1>1, <2>2, <2>5
    <3>2. Assoc(e4, x, FromBytes(r, t))
      BY <1>2, <2>2, <2>5, <2>6
    <3>3. Assoc(e3, <<SP>>, x \o FromBytes(r, t))
      BY <1>2, <1>4, <2>6, <3>1
    <3> QED BY <2>3, <2>4, <3>2, <3>3 DEF Assoc
  <2>12. e3 \o FromExprTime(r, t) = e1 \o FromFlags(r, t)
    <3>1. f \o FromExprTime(r, t) \in A
      BY <1>1, <2>2, <2>5
    <3>2. Assoc(e2, f, FromExprTime(r, t))
      BY <1>2, <2>2, <2>5, <2>6
    <3>3. Assoc(e1, <<SP>>, f \o FromExprTime(r, t))
      BY <1>2, <1>4, <2>6, <3>1
    <3> QED BY <2>3, <2>4, <3>2, <3>3 DEF Assoc
  <2>13. e1 \o FromFlags(r, t) = <<r.name>> \o FromName(r, t)
    <3>1. k \o FromFlags(r, t) \in A
      BY <1>1, <2>2, <2>5
    <3>2. Assoc(<<r.name, SP>>, k, FromFlags(r, t))
      BY <1>2, <1>4, <2>2, <2>5
    <3>3. <<r.name, SP>> \o (k \o FromFlags(r, t)) = <<r.name>> \o (<<SP>> \o (k \o FromFlags(r, t)))
      BY <1>6, <3>1
    <3> QED BY <2>3, <2>4, <3>2, <3>3 DEF Assoc
  <2>14. Encoded(r) \in A
    BY <1>1, <1>4, <2>1, <2>7
  <2>15. Encoded(r) # <<>>
    <3>1. Len(CRLF) = 2
      BY DEF CRLF
    <3>2. Len(e9 \o CRLF) = Len(e9) + Len(CRLF) /\ Len(e9) \in Nat
      BY <1>4, <2>7, ConcatProperties, LenProperties DEF A
    <3> QED BY <2>1, <2>14, <3>1, <3>2
  <2>16. Encoded(r) \o t = <<r.name>> \o FromName(r, t)
    BY <2>1, <2>8, <2>9, <2>10, <2>11, <2>12, <2>13
  <2> QED BY <2>14, <2>15, <2>16 DEF A
<1>8. CASE ~Stores(r)
  <2> DEFINE q == FlattenSeq(Spaced(r.keys))
             e1 == <<r.name>> \o q
  <2>1. Encoded(r) = e1 \o CRLF /\ e1 = <<r.name>> \o q
    BY <1>8 DEF Encoded, Spaced
  <2>2. q \in A
    BY RequestParts, SpacedFacts, FlattenTyped
  <2>3. FromName(r, t) = q \o FromCR(r, t) /\ FromCR(r, t) = <<CR>> \o (<<LF>> \o t)
    BY <1>8 DEF FromName, FromKeys, FromCR, FromData
  <2> HIDE DEF A, q, e1
  <2>4. e1 \in A /\ CRLF \o t \in A
    BY <1>1, <1>4, <2>1, <2>2
  <2>5. Assoc(e1, CRLF, t)
    BY <1>2, <1>4, <2>4
  <2>6. Assoc(<<r.name>>, q, CRLF \o t)
    BY <1>2, <1>4, <2>2, <2>4
  <2>7. CRLF \o t = FromCR(r, t)
    BY <1>4, <1>5, <2>3
  <2>8. Encoded(r) \in A
    BY <1>1, <1>4, <2>1, <2>4
  <2>9. Encoded(r) # <<>>
    <3>1. Len(CRLF) = 2
      BY DEF CRLF
    <3>2. Len(e1 \o CRLF) = Len(e1) + Len(CRLF) /\ Len(e1) \in Nat
      BY <1>4, <2>4, ConcatProperties, LenProperties DEF A
    <3> QED BY <2>1, <2>8, <3>1, <3>2
  <2>10. Encoded(r) \o t = <<r.name>> \o FromName(r, t)
    BY <2>1, <2>3, <2>5, <2>6, <2>7 DEF Assoc
  <2> QED BY <2>8, <2>9, <2>10 DEF A
<1> QED BY <1>7, <1>8

LEMMA EncodedTyped ==
  ASSUME NEW r \in Request
  PROVE  Encoded(r) \in Seq(Byte)
<1>1. <<>> \in Seq(Alphabet)
  OBVIOUS
<1>2. Encoded(r) \in Seq(Alphabet)
  BY <1>1, EncodedFirst
<1>3. Encoded(r) \in Seq(Range(Encoded(r)))
  BY <1>2, SeqOfRange
<1>4. Range(Encoded(r)) \subseteq Byte
  BY DEF Byte
<1> QED BY <1>3, <1>4, SeqMonotonic

(* The requests of a sequence, encoded one by one.                         *)
Encodings(rs) == [i \in DOMAIN rs |-> Encoded(rs[i])]

LEMMA EncodingsTyped ==
  ASSUME NEW rs \in Seq(Request)
  PROVE  /\ Encodings(rs) \in Seq(Seq(Byte)) /\ Encodings(rs) \in Seq(Seq(Alphabet))
         /\ Len(Encodings(rs)) = Len(rs)
         /\ \A i \in 1..Len(rs) : Encodings(rs)[i] = Encoded(rs[i])
<1> DEFINE e == [i \in 1..Len(rs) |-> Encoded(rs[i])]
           P == Seq(Byte)
           Q == Seq(Alphabet)
<1>1. Len(rs) \in Nat /\ DOMAIN rs = 1..Len(rs) /\ \A i \in 1..Len(rs) : rs[i] \in Request
  BY LenProperties
<1>2. \A i \in 1..Len(rs) : Encoded(rs[i]) \in P
  BY <1>1, EncodedTyped
<1>3. Encodings(rs) = e /\ e \in [1..Len(rs) -> P]
  BY <1>1, <1>2 DEF Encodings
<1>4. \A i \in 1..Len(rs) : e[i] = Encoded(rs[i])
  OBVIOUS
<1>5. P \subseteq Q
  <2>1. Byte \subseteq Alphabet
    BY DEF Alphabet
  <2> QED BY <2>1, SeqMonotonic
<1> HIDE DEF P, Q, e
<1>6. e \in Seq(P)
  <2>1. e \in UNION {[1..n -> P] : n \in Nat}
    BY <1>1, <1>3
  <2> QED BY <2>1, SeqDef, Zenon
<1>7. e \in Seq(Q)
  BY <1>5, <1>6, SeqMonotonic
<1>8. Len(e) = Len(rs)
  <2>1. DOMAIN e = 1..Len(rs) /\ DOMAIN e = 1..Len(e) /\ Len(e) \in Nat
    BY <1>3, <1>6, LenProperties
  <2> QED BY <1>1, <2>1
<1> QED BY <1>3, <1>4, <1>6, <1>7, <1>8 DEF P, Q

LEMMA StreamTyped ==
  ASSUME NEW rs \in Seq(Request)
  PROVE  Stream(rs) \in Seq(Byte) /\ Stream(rs) \in Seq(Alphabet)
<1>1. FlattenSeq(Encodings(rs)) \in Seq(Byte) /\ FlattenSeq(Encodings(rs)) \in Seq(Alphabet)
  BY EncodingsTyped, FlattenTyped
<1> QED BY <1>1 DEF Stream, Encodings

LEMMA StreamEnds == Stream(<<>>) = <<>>
<1>1. <<>> \in Seq(Request)
  OBVIOUS
<1>2. Len(Encodings(<<>>)) = 0
  BY <1>1, EncodingsTyped, EmptySeq
<1>3. Encodings(<<>>) = <<>>
  BY <1>1, <1>2, EncodingsTyped, EmptySeq
<1>4. Stream(<<>>) = FlattenSeq(Encodings(<<>>))
  BY DEF Stream, Encodings
<1> QED BY <1>3, <1>4, FlattenEmpty

(* The stream from the k-th request on begins with the next one.           *)
LEMMA StreamFirst ==
  ASSUME NEW rs \in Seq(Request), NEW k \in 0..(Len(rs) - 1)
  PROVE  /\ rs[k + 1] \in Request /\ Stream(Post(rs, k + 1)) \in Seq(Alphabet)
         /\ Stream(Post(rs, k))
              = <<rs[k + 1].name>> \o FromName(rs[k + 1], Stream(Post(rs, k + 1)))
<1> DEFINE p == Post(rs, k)
           q == Post(rs, k + 1)
<1>1. Len(rs) \in Nat /\ k \in 0..Len(rs) /\ k + 1 \in 0..Len(rs) /\ rs[k + 1] \in Request
  BY LenProperties
<1>2. /\ p \in Seq(Request) /\ q \in Seq(Request)
      /\ Len(p) = Len(rs) - k /\ Len(q) = Len(rs) - (k + 1)
      /\ \A i \in 1..(Len(rs) - k) : p[i] = rs[k + i]
      /\ \A i \in 1..(Len(rs) - (k + 1)) : q[i] = rs[(k + 1) + i]
  <2>1. /\ p \in Seq(Request) /\ Len(p) = Len(rs) - k
        /\ \A i \in 1..(Len(rs) - k) : p[i] = rs[k + i]
    BY <1>1, LastPart
  <2>2. /\ q \in Seq(Request) /\ Len(q) = Len(rs) - (k + 1)
        /\ \A i \in 1..(Len(rs) - (k + 1)) : q[i] = rs[(k + 1) + i]
    BY <1>1, LastPart
  <2> QED BY <2>1, <2>2
<1> HIDE DEF p, q
<1> DEFINE P == Seq(Alphabet)
           e == Encodings(p)
           f == Encodings(q)
<1>3. /\ e \in Seq(P) /\ f \in Seq(P)
      /\ Len(e) = Len(rs) - k /\ Len(f) = Len(rs) - (k + 1)
      /\ \A i \in 1..(Len(rs) - k) : e[i] = Encoded(p[i])
      /\ \A i \in 1..(Len(rs) - (k + 1)) : f[i] = Encoded(q[i])
  BY <1>2, EncodingsTyped
<1>4. e[1] = Encoded(rs[k + 1])
  <2>1. 1 \in 1..(Len(rs) - k)
    BY <1>1
  <2> QED BY <1>2, <1>3, <2>1
<1> HIDE DEF e, f
<1>5. e # <<>>
  BY <1>1, <1>3, EmptySeq
<1>6. Tail(e) = f
  <2>1. /\ Tail(e) \in Seq(P) /\ Len(Tail(e)) = Len(e) - 1
        /\ \A i \in 1..Len(Tail(e)) : Tail(e)[i] = e[i + 1]
    BY <1>3, <1>5, HeadTailProperties
  <2>2. Len(Tail(e)) = Len(f)
    BY <1>1, <1>3, <2>1
  <2>3. ASSUME NEW i \in 1..Len(Tail(e)) PROVE Tail(e)[i] = f[i]
    <3>1. /\ i \in 1..(Len(rs) - (k + 1)) /\ i + 1 \in 1..(Len(rs) - k)
          /\ k + (i + 1) = (k + 1) + i
      BY <1>1, <1>3, <2>1
    <3>2. Tail(e)[i] = Encoded(p[i + 1]) /\ f[i] = Encoded(q[i])
      BY <1>3, <2>1, <3>1
    <3>3. p[i + 1] = q[i]
      BY <1>2, <3>1
    <3> QED BY <3>2, <3>3
  <2> QED BY <1>3, <2>1, <2>2, <2>3, SeqEqual
<1>7. FlattenSeq(e) = e[1] \o FlattenSeq(f)
  BY <1>3, <1>5, <1>6, FlattenFirst
<1>8. Stream(p) = FlattenSeq(e) /\ Stream(q) = FlattenSeq(f)
  BY DEF Stream, Encodings, e, f
<1>9. Stream(q) \in Seq(Alphabet)
  BY <1>2, StreamTyped
<1>10. Encoded(rs[k + 1]) \o Stream(q) = <<rs[k + 1].name>> \o FromName(rs[k + 1], Stream(q))
  BY <1>1, <1>9, EncodedFirst
<1>11. Stream(p) = <<rs[k + 1].name>> \o FromName(rs[k + 1], Stream(q))
  BY <1>4, <1>7, <1>8, <1>10
<1> QED BY <1>1, <1>9, <1>11 DEF p, q

(* The line of a get command from its i-th key on.                         *)
LEMMA KeysFirst ==
  ASSUME NEW r \in Request, NEW t \in Seq(Alphabet),
         NEW keys \in Seq(Seq(Alphabet)), NEW k \in 0..(Len(keys) - 1)
  PROVE  /\ keys[k + 1] \in Seq(Alphabet) /\ Post(keys, k + 1) \in Seq(Seq(Alphabet))
         /\ FromKeys(Post(keys, k), r, t)
              = <<SP>> \o (keys[k + 1] \o FromKeys(Post(keys, k + 1), r, t))
<1> DEFINE P == Seq(Alphabet)
           p == Post(keys, k)
           q == Post(keys, k + 1)
           c == FromCR(r, t)
<1>1. Len(keys) \in Nat /\ k \in 0..Len(keys) /\ k + 1 \in 0..Len(keys) /\ keys[k + 1] \in P
  BY LenProperties
<1>2. c \in P /\ <<SP>> \in P
  <2>1. c \in P
    BY RestTyped
  <2>2. <<SP>> \in P
    BY DEF Alphabet
  <2> QED BY <2>1, <2>2
<1>3. keys \in Seq(P)
  OBVIOUS
<1>4. \A s \in Seq(P) : /\ Spaced(s) \in Seq(P) /\ Len(Spaced(s)) = Len(s)
                        /\ \A i \in 1..Len(s) : Spaced(s)[i] = <<SP>> \o s[i]
  BY SpacedFacts
<1>5. \A s \in Seq(P) : FlattenSeq(s) \in P
  BY FlattenTyped
<1>6. \A s \in Seq(P) : s # <<>> => FlattenSeq(s) = s[1] \o FlattenSeq(Tail(s))
  BY FlattenFirst
<1>7. (\A x, y \in P : x \o y \in P) /\ \A x, y, z \in P : Assoc(x, y, z)
  <2>1. \A x, y \in P : x \o y \in P
    BY ConcatProperties
  <2>2. \A x, y, z \in P : Assoc(x, y, z)
    BY Associates
  <2> QED BY <2>1, <2>2
<1> HIDE DEF P, c
<1>8. /\ p \in Seq(P) /\ q \in Seq(P)
      /\ Len(p) = Len(keys) - k /\ Len(q) = Len(keys) - (k + 1)
      /\ \A i \in 1..(Len(keys) - k) : p[i] = keys[k + i]
      /\ \A i \in 1..(Len(keys) - (k + 1)) : q[i] = keys[(k + 1) + i]
  <2>1. /\ p \in Seq(P) /\ Len(p) = Len(keys) - k
        /\ \A i \in 1..(Len(keys) - k) : p[i] = keys[k + i]
    BY <1>1, <1>3, LastPart
  <2>2. /\ q \in Seq(P) /\ Len(q) = Len(keys) - (k + 1)
        /\ \A i \in 1..(Len(keys) - (k + 1)) : q[i] = keys[(k + 1) + i]
    BY <1>1, <1>3, LastPart
  <2> QED BY <2>1, <2>2
<1> HIDE DEF p, q
<1> DEFINE e == Spaced(p)
           f == Spaced(q)
<1>9. /\ e \in Seq(P) /\ f \in Seq(P)
      /\ Len(e) = Len(keys) - k /\ Len(f) = Len(keys) - (k + 1)
      /\ \A i \in 1..(Len(keys) - k) : e[i] = <<SP>> \o p[i]
      /\ \A i \in 1..(Len(keys) - (k + 1)) : f[i] = <<SP>> \o q[i]
  BY <1>4, <1>8
<1>10. e[1] = <<SP>> \o keys[k + 1]
  <2>1. 1 \in 1..(Len(keys) - k)
    BY <1>1
  <2> QED BY <1>8, <1>9, <2>1
<1> HIDE DEF e, f
<1>11. e # <<>>
  BY <1>1, <1>9, EmptySeq
<1>12. Tail(e) = f
  <2>1. /\ Tail(e) \in Seq(P) /\ Len(Tail(e)) = Len(e) - 1
        /\ \A i \in 1..Len(Tail(e)) : Tail(e)[i] = e[i + 1]
    BY <1>9, <1>11, HeadTailProperties
  <2>2. Len(Tail(e)) = Len(f)
    BY <1>1, <1>9, <2>1
  <2>3. ASSUME NEW i \in 1..Len(Tail(e)) PROVE Tail(e)[i] = f[i]
    <3>1. /\ i \in 1..(Len(keys) - (k + 1)) /\ i + 1 \in 1..(Len(keys) - k)
          /\ k + (i + 1) = (k + 1) + i
      BY <1>1, <1>9, <2>1
    <3>2. Tail(e)[i] = <<SP>> \o p[i + 1] /\ f[i] = <<SP>> \o q[i]
      BY <1>9, <2>1, <3>1
    <3>3. p[i + 1] = q[i]
      BY <1>8, <3>1
    <3> QED BY <3>2, <3>3
  <2> QED BY <1>9, <2>1, <2>2, <2>3, SeqEqual
<1> DEFINE g == FlattenSeq(f)
<1>13. FlattenSeq(e) = (<<SP>> \o keys[k + 1]) \o g /\ g \in P
  BY <1>5, <1>6, <1>9, <1>10, <1>11, <1>12
<1> HIDE DEF g
<1>14. FromKeys(p, r, t) = FlattenSeq(e) \o c /\ FromKeys(q, r, t) = g \o c
  BY DEF FromKeys, c, e, f, g
<1>15. /\ <<SP>> \o keys[k + 1] \in P /\ g \o c \in P /\ keys[k + 1] \o (g \o c) \in P
  BY <1>1, <1>2, <1>7, <1>13
<1>16. Assoc(<<SP>> \o keys[k + 1], g, c) /\ Assoc(<<SP>>, keys[k + 1], g \o c)
  BY <1>1, <1>2, <1>7, <1>13, <1>15
<1>17. FromKeys(p, r, t) = <<SP>> \o (keys[k + 1] \o FromKeys(q, r, t))
  BY <1>13, <1>14, <1>16 DEF Assoc
<1> QED BY <1>1, <1>8, <1>17 DEF p, q, P

LEMMA KeysEnd ==
  ASSUME NEW r \in Request, NEW t \in Seq(Alphabet), NEW keys \in Seq(Seq(Alphabet))
  PROVE  FromKeys(Post(keys, Len(keys)), r, t) = FromCR(r, t)
<1>1. Post(keys, Len(keys)) = <<>>
  BY WholeSequence
<1>2. <<>> \in Seq(Seq(Alphabet)) /\ Len(<<>>) = 0
  OBVIOUS
<1>3. Spaced(<<>>) = <<>>
  BY <1>2, SpacedFacts, EmptySeq
<1>4. FlattenSeq(Spaced(<<>>)) = <<>>
  BY <1>3, FlattenEmpty
<1>5. <<>> \o FromCR(r, t) = FromCR(r, t)
  BY RestTyped, ConcatEmptySeq
<1> QED BY <1>1, <1>4, <1>5 DEF FromKeys

-----------------------------------------------------------------------------
(* Build never returns the null command for a complete line                *)
(* (Parser.cpp:165-184).                                                   *)
LEMMA BuildMakesCommand == \A p : Build(p) # NoCommand
<1>1. SUFFICES ASSUME NEW p, Build(p) = NoCommand PROVE FALSE
  OBVIOUS
<1>2. "flags" \in DOMAIN Build(p)
  BY DEF Build
<1>3. "flags" \notin DOMAIN NoCommand
  BY DEF NoCommand
<1> QED BY <1>1, <1>2, <1>3

(* The constructor leaves no complete command line (Parser.h:23).          *)
LEMMA InitReady == Init => IInv
BY DEF Init, IInv, FreshParser, Reset

(* Closing the connection resets the parser (ServerImpl.cpp:170-174).      *)
LEMMA CloseReady ==
  ASSUME NEW reason, Close(reason)
  PROVE  IInv'
BY DEF Close, IInv, Reset

(* Every step of the connection's thread and of Stop keeps the invariant.  *)
LEMMA NextReady == IInv /\ [Next]_vars => IInv'
<1> SUFFICES ASSUME IInv, [Next]_vars PROVE IInv'
  OBVIOUS
<1>1. CASE Stop
  BY <1>1 DEF Stop, IInv, session
<1>2. ASSUME NEW n \in 1..BufSize, ReadBytes(n) PROVE IInv'
  <2>1. CASE Close("stopped")
    BY <2>1, CloseReady
  <2>2. CASE ~Close("stopped")
    BY <1>2, <2>2 DEF ReadBytes, ReadBytesIf, IInv, session
  <2> QED BY <2>1, <2>2
<1>3. CASE ReadEnds
  BY <1>3, CloseReady DEF ReadEnds
<1>4. CASE Loop
  BY <1>4 DEF Loop, IInv, session
<1>5. CASE Parse
  BY <1>5 DEF Parse, IInv, session
<1>6. CASE ParseFails
  BY <1>6, CloseReady DEF ParseFails
<1>7. CASE Parsed
  <2>1. CASE parser.parse_complete
    BY <1>7, <2>1, BuildMakesCommand DEF Parsed, IInv
  <2>2. CASE ~parser.parse_complete
    BY <1>7, <2>2 DEF Parsed, IInv
  <2> QED BY <2>1, <2>2
<1>8. CASE FillArgument
  BY <1>8 DEF FillArgument, IInv
<1>9. CASE RunCommand
  <2>1. CASE Close("lost")
    BY <2>1, CloseReady
  <2>2. CASE ~Close("lost")
    BY <1>9, <2>2 DEF RunCommand, RunCommandThen, IInv, Reset
  <2> QED BY <2>1, <2>2
<1>10. CASE UNCHANGED vars
  BY <1>10 DEF vars, IInv, session
<1> QED
  BY <1>1, <1>2, <1>3, <1>4, <1>5, <1>6, <1>7, <1>8, <1>9, <1>10
  DEF Next, ProcessConnection

(* No call of Parse finds a parser that is already complete, for any       *)
(* requests and any way the reads cut them (ServerImpl.cpp:110-122).       *)
THEOREM ParserReadyCorrect == Spec => []ParserReady
<1>1. IInv => ParserReady
  BY DEF IInv, ParserReady
<1> QED BY <1>1, InitReady, NextReady, PTL DEF Spec

(* The server has been stopped while the connection waited for input       *)
(* between two commands, n of them executed: the next thing that happens   *)
(* to the connection is its end (ServerImpl.cpp:105-106).                  *)
Over(n) ==
  /\ ~running /\ command = NoCommand /\ pc \in {"read", "done"}
  /\ Len(executed) = n

(* No step executes a command once it is over.                             *)
LEMMA OverStays == ASSUME NEW n PROVE Over(n) /\ [Next]_vars => Over(n)'
<1> SUFFICES ASSUME Over(n), [Next]_vars PROVE Over(n)'
  OBVIOUS
<1> USE DEF Over
<1>1. CASE Stop
  BY <1>1 DEF Stop
<1>2. ASSUME NEW k \in 1..BufSize, ReadBytes(k) PROVE Over(n)'
  BY <1>2 DEF ReadBytes, ReadBytesIf, Close
<1>3. CASE ReadEnds
  BY <1>3 DEF ReadEnds, Close
<1>4. CASE Loop \/ Parse \/ ParseFails \/ Parsed \/ FillArgument \/ RunCommand
  BY <1>4 DEF Loop, Parse, ParseFails, Parsed, FillArgument, RunCommand, RunCommandThen
<1>5. CASE UNCHANGED vars
  BY <1>5 DEF vars, session
<1> QED
  BY <1>1, <1>2, <1>3, <1>4, <1>5 DEF Next, ProcessConnection

(* A connection that waits between two commands when the server stops      *)
(* executes nothing any more, however much the client has already sent     *)
(* (ServerImpl.cpp:105-106).                                               *)
THEOREM StopClosesCorrect == Spec => StopCloses
<1>1. ASSUME NEW n \in 0..MaxReq
      PROVE  Spec => [](~running /\ pc = "read" /\ command = NoCommand /\ Len(executed) = n
                          => [](Len(executed) = n))
  <2>1. ~running /\ pc = "read" /\ command = NoCommand /\ Len(executed) = n => Over(n)
    BY DEF Over
  <2>2. Over(n) => Len(executed) = n
    BY DEF Over
  <2>3. Over(n) /\ [Next]_vars => Over(n)'
    BY OverStays
  <2> QED BY <2>1, <2>2, <2>3, PTL DEF Spec
<1> QED BY <1>1 DEF StopCloses

-----------------------------------------------------------------------------
(* Types and places.                                                       *)
LEMMA InitTyped == Init => Typed /\ Places
<1> SUFFICES ASSUME Init PROVE Typed /\ Places
  OBVIOUS
<1>1. requests \in Seq(Request)
  <2>1. PICK n \in 1..MaxReq : requests \in [1..n -> Request]
    BY DEF Init
  <2>2. n \in Nat
    BY BufferAssumption
  <2> QED BY <2>1, <2>2, SeqDef
<1>2. unread \in Seq(Byte)
  BY <1>1, StreamTyped DEF Init, Stream
<1>3. parser \in ParserType
  <2>1. PICK b \in BOOLEAN : parser = Reset([negative |-> b, keys |-> <<>>])
    BY DEF Init, FreshParser
  <2>2. 0 \in 0..(Modulus - 1)
    BY ModulusAssumption
  <2> QED BY <2>1, <2>2 DEF Reset, ParserType, State
<1>4. buf = <<>> /\ argument = <<>> /\ executed = <<>> /\ parsed = 0 /\ remains = 0
      /\ running = TRUE /\ conn = "open" /\ pc = "read" /\ command = NoCommand
  BY DEF Init
<1>5. 0 \in 0..BufSize /\ 0 \in 0..(Modulus + 1) /\ Len(<<>>) <= BufSize
  BY BufferAssumption, ModulusAssumption
<1>6. <<>> \in Seq(Byte) /\ <<>> \in Seq(Range(<<>>))
  OBVIOUS
<1>7. Typed
  BY <1>1, <1>2, <1>3, <1>4, <1>5, <1>6 DEF Typed
<1>8. Places
  BY <1>4 DEF Places
<1> QED BY <1>7, <1>8

LEMMA ResetTyped == ASSUME parser \in ParserType PROVE Reset(parser) \in ParserType
<1>1. 0 \in 0..(Modulus - 1)
  BY ModulusAssumption
<1>2. parser.negative \in BOOLEAN
  BY DEF ParserType
<1> QED BY <1>1, <1>2 DEF Reset, ParserType, State

LEMMA CloseTyped ==
  ASSUME Typed, NEW reason \in {"stopped", "lost", "refused"}, Close(reason),
         UNCHANGED <<requests, running>>, unread' \in Seq(Byte),
         executed' \in Seq(Range(executed'))
  PROVE  Typed' /\ Places'
<1>1. 0 \in 0..BufSize /\ 0 \in 0..(Modulus + 1) /\ Len(<<>>) <= BufSize
  BY BufferAssumption, ModulusAssumption
<1>2. <<>> \in Seq(Byte)
  OBVIOUS
<1>3. parser' \in ParserType
  BY ResetTyped DEF Close, Typed
<1>4. /\ buf' = <<>> /\ argument' = <<>> /\ parsed' = 0 /\ remains' = 0
      /\ conn' = reason /\ pc' = "done" /\ command' = NoCommand
  BY DEF Close
<1>5. Typed'
  BY <1>1, <1>2, <1>3, <1>4 DEF Typed
<1>6. Places'
  BY <1>4 DEF Places
<1> QED BY <1>5, <1>6

(* A digit more stays in the width of the field (Parser.cpp:75-80).        *)
LEMMA ShiftedTyped ==
  ASSUME NEW n \in 0..(Modulus - 1), NEW c \in Digit
  PROVE  Shifted(n, c) \in 0..(Modulus - 1)
<1>1. DigitValue[c] \in Nat
  BY DigitValues
<1>2. n * 10 + DigitValue[c] \in Int
  BY <1>1, ModulusAssumption
<1> DEFINE k == n * 10 + DigitValue[c]
<1> HIDE DEF k
<1>3. k \in Int => k % Modulus \in 0..(Modulus - 1)
  BY ModulusAssumption
<1> QED BY <1>2, <1>3 DEF Shifted, k

LEMMA ParseTyped ==
  ASSUME parser \in ParserType, NEW c \in Byte,
         \/ ParseName(c) \/ ParseStoreKey(c) \/ ParseGetKey(c) \/ ParseFlags(c)
         \/ ParseExprTimeStart(c) \/ ParseExprTime(c) \/ ParseBytes(c) \/ ParseLF(c)
  PROVE  parser' \in ParserType
<1> USE DEF ParserType, State
<1>1. CASE ParseName(c)
  <2>1. Append(parser.name, c) \in Seq(Byte)
    BY AppendProperties
  <2>2. CASE c \notin {SP, CR}
    BY <1>1, <2>1, <2>2 DEF ParseName
  <2>3. CASE c \in {SP, CR}
    BY <1>1, <2>3 DEF ParseName
  <2> QED BY <2>2, <2>3
<1>2. CASE ParseStoreKey(c)
  <2>1. Append(parser.curKey, c) \in Seq(Byte)
    BY AppendProperties
  <2>2. Append(parser.keys, parser.curKey) \in Seq(Seq(Byte))
    BY AppendProperties
  <2>3. CASE c = SP
    BY <1>2, <2>2, <2>3 DEF ParseStoreKey
  <2>4. CASE c # SP
    BY <1>2, <2>1, <2>4 DEF ParseStoreKey
  <2> QED BY <2>3, <2>4
<1>3. CASE ParseGetKey(c)
  <2>1. Append(parser.curKey, c) \in Seq(Byte) /\ <<>> \in Seq(Byte)
    BY AppendProperties
  <2>2. Append(parser.keys, parser.curKey) \in Seq(Seq(Byte))
    BY AppendProperties
  <2>3. CASE c \in {SP, CR}
    BY <1>3, <2>1, <2>2, <2>3 DEF ParseGetKey
  <2>4. CASE c \notin {SP, CR}
    BY <1>3, <2>1, <2>4 DEF ParseGetKey
  <2> QED BY <2>3, <2>4
<1>4. CASE ParseFlags(c)
  <2>1. CASE c = SP
    <3>1. parser' = [parser EXCEPT !.negative = FALSE, !.state = "spExprTimeStart"]
      BY <1>4, <2>1 DEF ParseFlags, Digit, SP, CR
    <3> QED BY <3>1
  <2>2. CASE c \in Digit /\ c # SP
    <3>1. Shifted(parser.flags, c) \in 0..(Modulus - 1)
      BY <2>2, ShiftedTyped
    <3>2. parser' = [parser EXCEPT !.flags = Shifted(parser.flags, c)]
      BY <1>4, <2>2 DEF ParseFlags
    <3> QED BY <3>1, <3>2
  <2>3. CASE c \notin Digit /\ c # SP
    BY <1>4, <2>3 DEF ParseFlags
  <2> QED BY <2>1, <2>2, <2>3
<1>5. CASE ParseExprTimeStart(c)
  <2>1. CASE c = "-"
    <3>1. parser' = [parser EXCEPT !.negative = TRUE, !.state = "spExprTime"]
      BY <1>5, <2>1 DEF ParseExprTimeStart, Digit, SP, CR
    <3> QED BY <3>1
  <2>2. CASE c \in Digit /\ c # "-"
    <3>1. DigitValue[c] \in Int
      BY <2>2, DigitValues
    <3>2. parser' = [parser EXCEPT !.exprtime = DigitValue[c], !.state = "spExprTime"]
      BY <1>5, <2>2 DEF ParseExprTimeStart
    <3> QED BY <3>1, <3>2
  <2>3. CASE c \notin Digit /\ c # "-"
    BY <1>5, <2>3 DEF ParseExprTimeStart
  <2> QED BY <2>1, <2>2, <2>3
<1>6. CASE ParseExprTime(c)
  <2>1. CASE c = SP
    <3>1. parser' = [parser EXCEPT !.state = "spBytes"]
      BY <1>6, <2>1 DEF ParseExprTime, Digit, SP, CR
    <3> QED BY <3>1
  <2>2. CASE c \in Digit /\ c # SP
    <3>1. DigitValue[c] \in Int
      BY <2>2, DigitValues
    <3> DEFINE k == IF parser.negative THEN parser.exprtime - DigitValue[c]
                    ELSE parser.exprtime + DigitValue[c]
    <3>2. k \in Int
      BY <3>1
    <3>3. parser' = [parser EXCEPT !.exprtime = k]
      BY <1>6, <2>2 DEF ParseExprTime
    <3> HIDE DEF k
    <3> QED BY <3>2, <3>3
  <2>3. CASE c \notin Digit /\ c # SP
    BY <1>6, <2>3 DEF ParseExprTime
  <2> QED BY <2>1, <2>2, <2>3
<1>7. CASE ParseBytes(c)
  <2>1. CASE c = CR
    <3>1. parser' = [parser EXCEPT !.state = "sLF"]
      BY <1>7, <2>1 DEF ParseBytes, Digit, SP, CR
    <3> QED BY <3>1
  <2>2. CASE c \in Digit /\ c # CR
    <3>1. Shifted(parser.bytes, c) \in 0..(Modulus - 1)
      BY <2>2, ShiftedTyped
    <3>2. parser' = [parser EXCEPT !.bytes = Shifted(parser.bytes, c)]
      BY <1>7, <2>2 DEF ParseBytes
    <3> QED BY <3>1, <3>2
  <2>3. CASE c \notin Digit /\ c # CR
    BY <1>7, <2>3 DEF ParseBytes
  <2> QED BY <2>1, <2>2, <2>3
<1>8. CASE ParseLF(c)
  BY <1>8 DEF ParseLF
<1> QED BY <1>1, <1>2, <1>3, <1>4, <1>5, <1>6, <1>7, <1>8


LEMMA OwnRange == ASSUME NEW A, NEW s \in Seq(A) PROVE s \in Seq(Range(s))
<1>1. s \in [1..Len(s) -> A] /\ Len(s) \in Nat
  BY LenProperties
<1>2. s \in [1..Len(s) -> Range(s)]
  BY <1>1 DEF Range
<1> QED BY <1>1, <1>2, SeqDef

(* Every step keeps the types and what holds at each place of the handler. *)
LEMMA NextTyped == IInv /\ Typed /\ Places /\ [Next]_vars => Typed' /\ Places'
<1> SUFFICES ASSUME IInv, Typed, Places, [Next]_vars PROVE Typed' /\ Places'
  OBVIOUS
<1>0. BufSize \in Nat /\ Modulus \in Nat /\ Modulus > 0 /\ BufSize > 0
  BY BufferAssumption, ModulusAssumption
<1>1. CASE Stop
  BY <1>1 DEF Stop, Typed, Places, session
<1>2. ASSUME NEW n \in 1..BufSize, n <= Len(unread), ReadBytes(n) PROVE Typed' /\ Places'
  <2>1. unread \in Seq(Byte) /\ n \in 0..Len(unread) /\ n <= BufSize
    BY <1>0, <1>2, LenProperties DEF Typed
  <2>2. /\ Pre(unread, n) \in Seq(Byte) /\ Len(Pre(unread, n)) = n
        /\ Post(unread, n) \in Seq(Byte)
    BY <2>1, Halves
  <2>3. unread' = Post(unread, n) /\ UNCHANGED <<requests, running, executed>> /\ pc = "read"
    BY <1>2 DEF ReadBytes, ReadBytesIf, Post
  <2>4. CASE Close("stopped")
    BY <2>2, <2>3, <2>4, CloseTyped DEF Typed
  <2>5. CASE ~Close("stopped")
    <3>1. /\ buf' = Pre(unread, n) /\ pc' = "loop"
          /\ UNCHANGED <<parser, parsed, conn, session>>
      BY <1>2, <2>5 DEF ReadBytes, ReadBytesIf, Pre
    <3>2. Typed'
      BY <2>1, <2>2, <2>3, <3>1 DEF Typed, session
    <3>3. Places'
      BY <2>3, <3>1 DEF Places, session
    <3> QED BY <3>2, <3>3
  <2> QED BY <2>4, <2>5
<1>3. CASE ReadEnds
  BY <1>3, CloseTyped DEF ReadEnds, Typed
<1>4. CASE Loop
  <2>1. UNCHANGED <<parser, buf, requests, unread, running, conn, session, executed>>
        /\ parsed' = 0 /\ pc = "loop"
    BY <1>4 DEF Loop
  <2>2. Typed'
    BY <1>0, <2>1 DEF Typed, session
  <2>3. CASE buf = <<>>
    <3>1. pc' = "read"
      BY <1>4, <2>3 DEF Loop
    <3> QED BY <2>1, <2>2, <2>3, <3>1 DEF Places, session
  <2>4. CASE buf # <<>> /\ command = NoCommand
    <3>1. pc' = "parse"
      BY <1>4, <2>4 DEF Loop
    <3>2. ~parser.parse_complete
      BY <2>1, <2>4 DEF IInv
    <3>3. 0 + Len(buf) <= BufSize
      BY <1>0, LenProperties DEF Typed
    <3> QED BY <2>1, <2>2, <2>4, <3>1, <3>2, <3>3 DEF Places, session
  <2>5. CASE buf # <<>> /\ command # NoCommand
    <3>1. pc' = "fill"
      BY <1>4, <2>5 DEF Loop
    <3> QED BY <2>1, <2>2, <3>1 DEF Places, session
  <2> QED BY <2>3, <2>4, <2>5
<1>5. CASE Parse
  <2>1. /\ buf # <<>> /\ buf' = Tail(buf) /\ parsed' = parsed + 1 /\ pc = "parse"
        /\ UNCHANGED <<requests, unread, running, pc, conn, session, executed>>
    BY <1>5 DEF Parse, ParseByte
  <2>2. buf \in Seq(Byte) /\ parsed \in Nat /\ parsed + Len(buf) <= BufSize
    BY <1>0, <2>1 DEF Typed, Places
  <2>3. Tail(buf) \in Seq(Byte) /\ Len(Tail(buf)) = Len(buf) - 1 /\ Head(buf) \in Byte
    BY <2>1, <2>2, HeadTailProperties
  <2>4. parser' \in ParserType
    BY <1>5, <2>3, ParseTyped DEF Parse, ParseByte, Typed
  <2>5. Len(buf) \in Nat /\ Len(buf) > 0
    BY <2>1, <2>2, EmptySeq, LenProperties
  <2>6. parsed' \in 0..BufSize /\ Len(buf') <= BufSize /\ parsed' + Len(buf') <= BufSize
        /\ parsed' # 0
    BY <1>0, <2>1, <2>2, <2>3, <2>5
  <2>7. Typed'
    BY <2>1, <2>3, <2>4, <2>6 DEF Typed, session
  <2>8. Places'
    BY <2>1, <2>6 DEF Places, session
  <2> QED BY <2>7, <2>8
<1>6. CASE ParseFails
  BY <1>6, CloseTyped DEF ParseFails, Typed
<1>7. CASE Parsed
  <2>1. /\ UNCHANGED <<parser, buf, parsed, requests, unread, running, conn, argument, executed>>
        /\ pc = "parse"
    BY <1>7 DEF Parsed
  <2>2. parsed # 0
    BY <1>7, <2>1 DEF Parsed, ParseReturns, Places
  <2>3. pc' = "fill"
    BY <1>7, <2>2 DEF Parsed
  <2>4. command = NoCommand /\ argument = <<>>
    BY <2>1 DEF IInv, Places
  <2>5. remains' \in 0..(Modulus + 1)
    <3>1. parser.bytes \in 0..(Modulus - 1)
      BY DEF Typed, ParserType
    <3>2. ArgumentSize(parser) \in 0..(Modulus + 1)
      BY <1>0, <3>1 DEF ArgumentSize
    <3> QED BY <1>7, <3>2 DEF Parsed, Typed
  <2>6. Typed'
    BY <2>1, <2>5 DEF Typed
  <2>7. Places'
    BY <2>1, <2>3, <2>4 DEF Places
  <2> QED BY <2>6, <2>7
<1>8. CASE FillArgument
  <2> DEFINE toRead == IF command = NoCommand THEN 0
                       ELSE IF remains < Len(buf) THEN remains ELSE Len(buf)
  <2>1. /\ argument' = argument \o Pre(buf, toRead) /\ buf' = Post(buf, toRead)
        /\ remains' = remains - toRead
        /\ pc' = IF command # NoCommand /\ remains' = 0 THEN "run" ELSE "loop"
        /\ UNCHANGED <<parser, parsed, requests, unread, running, conn, command, executed>>
        /\ pc = "fill"
    BY <1>8 DEF FillArgument, Pre, Post
  <2>2. buf \in Seq(Byte) /\ argument \in Seq(Byte) /\ Len(buf) \in Nat /\ remains \in Nat
    BY <1>0, LenProperties DEF Typed
  <2>3. toRead \in 0..Len(buf) /\ toRead <= remains /\ toRead \in Nat
    BY <2>2
  <2>4. command = NoCommand => toRead = 0
    OBVIOUS
  <2> HIDE DEF toRead
  <2>5. /\ Pre(buf, toRead) \in Seq(Byte) /\ Post(buf, toRead) \in Seq(Byte)
        /\ Len(Post(buf, toRead)) = Len(buf) - toRead
    BY <2>2, <2>3, Halves
  <2>6. argument' \in Seq(Byte)
    BY <2>1, <2>2, <2>5, ConcatProperties
  <2>7. remains' \in 0..(Modulus + 1) /\ Len(buf') <= BufSize
    BY <1>0, <2>1, <2>2, <2>3, <2>5 DEF Typed
  <2>8. Typed'
    BY <2>1, <2>5, <2>6, <2>7 DEF Typed
  <2>9. command' = NoCommand => argument' = <<>>
    <3> SUFFICES ASSUME command = NoCommand PROVE argument' = <<>>
      BY <2>1
    <3>1. Pre(buf, 0) = <<>> /\ argument = <<>>
      BY <2>2, WholeSequence DEF Places
    <3>2. <<>> \o <<>> = <<>>
      OBVIOUS
    <3> QED BY <2>1, <2>4, <3>1, <3>2
  <2>10. Places'
    BY <2>1, <2>7, <2>9, <1>0 DEF Places
  <2> QED BY <2>8, <2>10
<1>9. CASE RunCommand
  <2> DEFINE e == [command |-> command, argument |-> argument]
  <2>1. /\ executed' = Append(executed, e) /\ UNCHANGED <<requests, unread, running>>
        /\ pc = "run"
    BY <1>9 DEF RunCommand, RunCommandThen
  <2> HIDE DEF e
  <2>2. executed' \in Seq(Range(executed'))
    <3>1. executed \in Seq(Range(executed) \cup {e})
      BY DEF Typed
    <3>2. Append(executed, e) \in Seq(Range(executed) \cup {e})
      BY <3>1, AppendProperties
    <3> QED BY <2>1, <3>2, OwnRange
  <2>3. CASE Close("lost")
    BY <2>1, <2>2, <2>3, CloseTyped DEF Typed
  <2>4. CASE ~Close("lost")
    <3>1. /\ command' = NoCommand /\ argument' = <<>> /\ parser' = Reset(parser)
          /\ pc' = "loop" /\ buf' = buf /\ UNCHANGED <<parsed, conn, remains>>
      BY <1>9, <2>4 DEF RunCommand, RunCommandThen
    <3>2. parser' \in ParserType /\ <<>> \in Seq(Byte)
      BY <3>1, ResetTyped DEF Typed
    <3>3. Typed'
      BY <2>1, <2>2, <3>1, <3>2 DEF Typed
    <3>4. Places'
      BY <2>1, <3>1 DEF Places
    <3> QED BY <3>3, <3>4
  <2> QED BY <2>3, <2>4
<1>10. CASE UNCHANGED vars
  BY <1>10 DEF vars, session, Typed, Places
<1> QED
  BY <1>1, <1>2, <1>3, <1>4, <1>5, <1>6, <1>7, <1>8, <1>9, <1>10
  DEF Next, ProcessConnection

(* Every variable keeps its type; the numbers of a command stay in their   *)
(* width and the buffer holds no more than it can                          *)
(* (Parser.cpp:75-125, ServerImpl.cpp:105-139).                            *)
THEOREM TypeCorrect == Spec => []TypeOK
<1>1. IInv /\ Typed => TypeOK
  BY DEF IInv, Typed, ParserType, TypeOK
<1> QED BY <1>1, InitReady, InitTyped, NextReady, NextTyped, PTL DEF Spec

-----------------------------------------------------------------------------
(* One turn of the loop of Parse takes the first byte of Rest.  One lemma  *)
(* for each state of the parser: inside request r before, inside it after. *)
LEMMA NextByte ==
  ASSUME Typed, buf # <<>>
  PROVE  /\ Rest # <<>> /\ Head(buf) = Head(Rest) /\ Head(buf) \in Byte
         /\ Tail(buf) \o unread = Tail(Rest)
<1>1. buf \in Seq(Byte) /\ unread \in Seq(Byte)
  BY DEF Typed
<1>2. Head(buf) = buf[1] /\ buf[1] \in Byte
  BY <1>1, HeadTailProperties
<1> QED BY <1>1, <1>2, NextOfConcat DEF Rest

Turn(r) ==
  /\ parser \in ParserType /\ parser.name = <<r.name>> /\ ParseByte
  /\ Head(buf) = Head(Rest) /\ Rest' = Tail(Rest)

LEMMA Delimiters ==
  /\ SP \in Alphabet /\ CR \in Alphabet /\ LF \in Alphabet /\ SP # CR
  /\ SP \notin Digit /\ CR \notin Digit /\ "-" \notin Digit
BY DEF Alphabet, SP, CR, LF, Digit

LEMMA NameTurn ==
  ASSUME NEW r \in Request, NEW t \in Seq(Alphabet), Turn(r), InName(r, t)
  PROVE  Reading(r, t)'
<1>1. ParseName(Head(buf)) /\ ~Rejects(parser, Head(buf)) /\ ~parser.parse_complete
      /\ Head(buf) = Head(Rest) /\ Rest' = Tail(Rest)
  BY DEF Turn, InName, ParseByte, ParseName, ParseStoreKey, ParseGetKey, ParseFlags,
         ParseExprTimeStart, ParseExprTime, ParseBytes, ParseLF
<1>2. /\ parser.name = <<r.name>> /\ parser.state = "sName" /\ parser.keys = <<>>
      /\ parser.curKey = <<>> /\ parser.flags = 0 /\ parser.exprtime = 0 /\ parser.bytes = 0
      /\ parser \in ParserType
  BY DEF Turn, InName
<1>3. ASSUME Head(Rest) \in {SP, CR}
      PROVE  /\ <<r.name>> \in KnownName
             /\ Stores(r) => parser' = [parser EXCEPT !.state = "spKey"]
             /\ <<r.name>> \in GetName => parser' = [parser EXCEPT !.state = "sgKey"]
             /\ <<r.name>> = StatsName => parser' = [parser EXCEPT !.state = "sLF"]
  <2>1. <<r.name>> \in KnownName
    BY <1>1, <1>2, <1>3 DEF Rejects
  <2>2. parser' = [parser EXCEPT !.state = CASE <<r.name>> \in StoreName -> "spKey"
                                       [] <<r.name>> \in GetName -> "sgKey"
                                       [] OTHER -> "sLF"]
    BY <1>1, <1>2, <1>3 DEF ParseName
  <2>3. /\ <<r.name>> \in GetName => <<r.name>> \notin StoreName
        /\ <<r.name>> = StatsName => <<r.name>> \notin StoreName \cup GetName
    BY DEF StoreName, GetName, StatsName
  <2>4. Stores(r) => parser' = [parser EXCEPT !.state = "spKey"]
    BY <2>2, <2>3 DEF Stores
  <2>5. <<r.name>> \in GetName => parser' = [parser EXCEPT !.state = "sgKey"]
    BY <2>2, <2>3
  <2>6. <<r.name>> = StatsName => parser' = [parser EXCEPT !.state = "sLF"]
    BY <2>2, <2>3
  <2> QED BY <2>1, <2>4, <2>5, <2>6
<1>4. CASE Stores(r)
  <2> DEFINE k == r.keys[1]
             z == FromFlags(r, t)
  <2>1. k \in Seq(Alphabet) /\ z \in Seq(Alphabet) /\ k \o z \in Seq(Alphabet)
    BY <1>4, StoreParts, RestTyped, ConcatProperties
  <2>2. Rest = <<SP>> \o (k \o z)
    BY <1>4 DEF InName, FromName
  <2> HIDE DEF z, k
  <2>3. Head(Rest) = SP /\ Rest' = k \o z
    BY <1>1, <2>1, <2>2, Delimiters, TakeFirst
  <2>4. parser' = [parser EXCEPT !.state = "spKey"]
    BY <1>3, <1>4, <2>3
  <2>5. Pre(k, 0) = <<>> /\ Post(k, 0) = k /\ 0 \in 0..Len(k)
    BY <2>1, WholeSequence, LenProperties
  <2>6. parser'.curKey = Pre(k, 0) /\ Rest' = Post(k, 0) \o z
    BY <1>2, <2>3, <2>4, <2>5 DEF ParserType
  <2>7. InStoreKey(r, t)'
    BY <1>2, <1>4, <2>4, <2>5, <2>6 DEF InStoreKey, ParserType, k, z
  <2> QED BY <1>1, <1>2, <2>4, <2>7 DEF Reading, ParserType
<1>5. CASE ~Stores(r) /\ r.keys # <<>>
  <2> DEFINE k == r.keys[1]
             z == FromKeys(Post(r.keys, 1), r, t)
  <2>1. r.keys \in Seq(Seq(Alphabet)) /\ Len(r.keys) \in Nat /\ Len(r.keys) > 0
    <3>1. r.keys \in Seq(Seq(Alphabet)) /\ r.keys # <<>>
      BY <1>5, RequestParts
    <3> HIDE <1>5
    <3> QED BY <3>1, LenProperties, EmptySeq
  <2>2. k \in Seq(Alphabet) /\ FromKeys(Post(r.keys, 0), r, t) = <<SP>> \o (k \o z)
    <3>1. 0 \in 0..(Len(r.keys) - 1) /\ 0 + 1 = 1
      BY <2>1
    <3> HIDE DEF k, z
    <3>2. /\ r.keys[0 + 1] \in Seq(Alphabet)
          /\ FromKeys(Post(r.keys, 0), r, t)
               = <<SP>> \o (r.keys[0 + 1] \o FromKeys(Post(r.keys, 0 + 1), r, t))
      BY <2>1, <3>1, KeysFirst
    <3> QED BY <3>1, <3>2 DEF k, z
  <2>3. Rest = <<SP>> \o (k \o z)
    BY <1>5, <2>1, <2>2, WholeSequence DEF InName, FromName
  <2>4. z \in Seq(Alphabet)
    <3>1. 1 \in 0..Len(r.keys)
      BY <2>1
    <3>2. Post(r.keys, 1) \in Seq(Seq(Alphabet))
      BY <2>1, <3>1, Halves
    <3> QED BY <3>2, RestTyped
  <2> HIDE DEF k, z
  <2>5. k \o z \in Seq(Alphabet)
    BY <2>2, <2>4, ConcatProperties
  <2>6. Head(Rest) = SP /\ Rest' = k \o z
    BY <1>1, <2>3, <2>5, Delimiters, TakeFirst
  <2>7. <<r.name>> \in GetName /\ parser' = [parser EXCEPT !.state = "sgKey"]
    <3>1. <<r.name>> \in KnownName
      BY <1>3, <2>6
    <3>2. <<r.name>> \in GetName
      BY <1>5, <3>1, RequestParts DEF KnownName, Stores
    <3> QED BY <1>3, <2>6, <3>2
  <2>8. Pre(k, 0) = <<>> /\ Post(k, 0) = k /\ 0 \in 0..Len(k) /\ Pre(r.keys, 1 - 1) = <<>>
    BY <2>1, <2>2, WholeSequence, LenProperties
  <2>9. /\ parser'.keys = Pre(r.keys, 1 - 1) /\ parser'.curKey = Pre(k, 0)
        /\ Rest' = Post(k, 0) \o z
    BY <1>2, <2>6, <2>7, <2>8 DEF ParserType
  <2>10. 1 \in 1..Len(r.keys)
    BY <2>1
  <2>11. \E i \in 1..Len(r.keys) : \E j \in 0..Len(r.keys[i]) :
           /\ parser'.keys = Pre(r.keys, i - 1) /\ parser'.curKey = Pre(r.keys[i], j)
           /\ Rest' = Post(r.keys[i], j) \o FromKeys(Post(r.keys, i), r, t)
    BY <2>8, <2>9, <2>10 DEF k, z
  <2>12. InGetKey(r, t)'
    BY <1>2, <2>7, <2>11 DEF InGetKey, ParserType
  <2> QED BY <1>1, <1>2, <2>7, <2>12 DEF Reading, ParserType
<1>6. CASE ~Stores(r) /\ r.keys = <<>>
  <2> DEFINE z == <<LF>> \o FromData(r, t)
  <2>1. Rest = <<CR>> \o z
    <3>1. r.keys \in Seq(Seq(Alphabet))
      BY RequestParts
    <3>2. FromKeys(Post(r.keys, Len(r.keys)), r, t) = FromCR(r, t)
      BY <3>1, KeysEnd
    <3>3. Post(r.keys, Len(r.keys)) = r.keys
      BY <1>6, <3>1, WholeSequence
    <3> QED BY <1>6, <3>2, <3>3 DEF InName, FromName, FromCR
  <2>2. z \in Seq(Alphabet)
    BY Delimiters, RestTyped, ConcatProperties
  <2> HIDE DEF z
  <2>3. Head(Rest) = CR /\ Rest' = z
    BY <1>1, <2>1, <2>2, Delimiters, TakeFirst
  <2>4. <<r.name>> \in KnownName /\ parser' = [parser EXCEPT !.state = "sLF"]
    <3>1. <<r.name>> \in KnownName
      BY <1>3, <2>3
    <3>2. <<r.name>> = StatsName
      BY <1>6, <3>1, RequestParts DEF KnownName, Stores
    <3> QED BY <1>3, <2>3, <3>1, <3>2
  <2>5. InLF(r, t)'
    BY <1>1, <1>2, <1>6, <2>3, <2>4 DEF InLF, ParserType, FlagsOf, ExprTimes, SizeOf, z
  <2> QED BY <1>1, <1>2, <2>4, <2>5 DEF Reading, ParserType
<1> QED BY <1>4, <1>5, <1>6

LEMMA StoreKeyTurn ==
  ASSUME NEW r \in Request, NEW t \in Seq(Alphabet), Turn(r), InStoreKey(r, t)
  PROVE  Reading(r, t)'
<1>1. ParseStoreKey(Head(buf)) /\ ~parser.parse_complete
      /\ Head(buf) = Head(Rest) /\ Rest' = Tail(Rest)
  BY DEF Turn, InStoreKey, ParseByte, ParseName, ParseStoreKey, ParseGetKey, ParseFlags,
         ParseExprTimeStart, ParseExprTime, ParseBytes, ParseLF
<1>2. /\ parser.name = <<r.name>> /\ parser.state = "spKey" /\ parser.keys = <<>>
      /\ parser.flags = 0 /\ parser.exprtime = 0 /\ parser.bytes = 0
      /\ parser \in ParserType /\ Stores(r)
  BY DEF Turn, InStoreKey
<1> DEFINE k == r.keys[1]
           z == FromFlags(r, t)
<1>3. PICK j \in 0..Len(k) : parser.curKey = Pre(k, j) /\ Rest = Post(k, j) \o z
  BY DEF InStoreKey
<1>4. /\ k \in Seq(Alphabet) /\ z \in Seq(Alphabet) /\ Len(k) \in Nat /\ Len(r.keys) = 1
      /\ r.keys \in Seq(Seq(Alphabet)) /\ \A i \in 1..Len(k) : k[i] \notin {SP, CR}
  <2>1. k \in Seq(Alphabet) /\ Len(r.keys) = 1 /\ z \in Seq(Alphabet)
    BY <1>2, StoreParts, RestTyped
  <2>2. r.keys \in Seq(Seq(Alphabet)) /\ Len(k) \in Nat
    BY <2>1, RequestParts, LenProperties
  <2>3. 1 \in 1..Len(r.keys)
    BY <2>1
  <2>4. \A i \in 1..Len(k) : k[i] \notin {SP, CR}
    BY <2>3, RequestParts
  <2> QED BY <2>1, <2>2, <2>4
<1> HIDE DEF k, z
<1>5. CASE j < Len(k)
  <2>1. j \in 0..(Len(k) - 1) /\ j + 1 \in 1..Len(k) /\ j + 1 \in 0..Len(k)
    BY <1>3, <1>4, <1>5
  <2>2. Head(Rest) = k[j + 1] /\ Rest' = Post(k, j + 1) \o z
    BY <1>1, <1>3, <1>4, <2>1, TakeOne
  <2>3. parser' = [parser EXCEPT !.curKey = Append(parser.curKey, k[j + 1])]
    BY <1>1, <1>4, <2>1, <2>2 DEF ParseStoreKey
  <2>4. parser'.curKey = Pre(k, j + 1)
    <3>1. parser'.curKey = Append(parser.curKey, k[j + 1])
      BY <1>2, <2>3 DEF ParserType
    <3>2. Pre(k, j + 1) = Append(Pre(k, j), k[j + 1])
      BY <1>4, <2>1, PreStep
    <3> QED BY <1>3, <3>1, <3>2
  <2>5. \E i \in 0..Len(k) : parser'.curKey = Pre(k, i) /\ Rest' = Post(k, i) \o z
    BY <2>1, <2>2, <2>4
  <2>6. InStoreKey(r, t)'
    BY <1>2, <2>3, <2>5 DEF InStoreKey, ParserType, k, z
  <2> QED BY <1>1, <1>2, <2>3, <2>6 DEF Reading, ParserType
<1>6. CASE j = Len(k)
  <2> DEFINE y == r.flags \o FromExprTime(r, t)
  <2>1. y \in Seq(Alphabet) /\ r.flags \in Seq(Digit)
    BY <1>2, StoreParts, RestTyped, ConcatProperties
  <2>2. z = <<SP>> \o y
    BY DEF z, FromFlags
  <2> HIDE DEF y
  <2>3. Pre(k, j) = k /\ Rest = <<SP>> \o y
    <3>1. Pre(k, j) = k /\ Post(k, j) = <<>>
      BY <1>4, <1>6, WholeSequence
    <3>2. <<>> \o z = z
      BY <1>4, ConcatProperties
    <3> QED BY <1>3, <2>2, <3>1, <3>2
  <2>4. Head(Rest) = SP /\ Rest' = y
    BY <1>1, <2>1, <2>3, Delimiters, TakeFirst
  <2>5. parser' = [parser EXCEPT !.state = "spFlags", !.keys = Append(parser.keys, parser.curKey)]
    BY <1>1, <2>4 DEF ParseStoreKey
  <2>6. parser'.keys = r.keys
    <3>1. Append(<<>>, k) = <<k>>
      OBVIOUS
    <3>2. r.keys = <<k>>
      BY <1>4 DEF k
    <3> QED BY <1>2, <1>3, <2>3, <2>5, <3>1, <3>2 DEF ParserType
  <2>7. /\ 0 \in 0..Len(r.flags) /\ Rest' = Post(r.flags, 0) \o FromExprTime(r, t)
        /\ parser'.flags = Value(Pre(r.flags, 0)) % Modulus
    <3>1. Value(Pre(r.flags, 0)) = 0 /\ Post(r.flags, 0) = r.flags /\ Len(r.flags) \in Nat
      BY <2>1, ValueFacts, WholeSequence, LenProperties
    <3>2. 0 % Modulus = 0
      BY ModulusAssumption
    <3>3. parser'.flags = 0
      BY <1>2, <2>5 DEF ParserType
    <3>4. 0 \in 0..Len(r.flags)
      BY <3>1
    <3>5. Rest' = r.flags \o FromExprTime(r, t)
      BY <2>4 DEF y
    <3> QED BY <3>1, <3>2, <3>3, <3>4, <3>5
  <2>8. InFlags(r, t)'
    BY <1>2, <2>5, <2>6, <2>7 DEF InFlags, ParserType
  <2> QED BY <1>1, <1>2, <2>5, <2>8 DEF Reading, ParserType
<1> QED BY <1>3, <1>4, <1>5, <1>6

LEMMA GetKeyTurn ==
  ASSUME NEW r \in Request, NEW t \in Seq(Alphabet), Turn(r), InGetKey(r, t)
  PROVE  Reading(r, t)'
<1>1. ParseGetKey(Head(buf)) /\ ~parser.parse_complete
      /\ Head(buf) = Head(Rest) /\ Rest' = Tail(Rest)
  BY DEF Turn, InGetKey, ParseByte, ParseName, ParseStoreKey, ParseGetKey, ParseFlags,
         ParseExprTimeStart, ParseExprTime, ParseBytes, ParseLF
<1>2. /\ parser.name = <<r.name>> /\ parser.state = "sgKey" /\ <<r.name>> \in GetName
      /\ parser.flags = 0 /\ parser.exprtime = 0 /\ parser.bytes = 0
      /\ parser \in ParserType
  BY DEF Turn, InGetKey
<1>3. PICK i \in 1..Len(r.keys) : \E j \in 0..Len(r.keys[i]) :
        /\ parser.keys = Pre(r.keys, i - 1) /\ parser.curKey = Pre(r.keys[i], j)
        /\ Rest = Post(r.keys[i], j) \o FromKeys(Post(r.keys, i), r, t)
  BY DEF InGetKey
<1> DEFINE k == r.keys[i]
           z == FromKeys(Post(r.keys, i), r, t)
<1>4. PICK j \in 0..Len(k) :
        /\ parser.keys = Pre(r.keys, i - 1) /\ parser.curKey = Pre(k, j)
        /\ Rest = Post(k, j) \o z
  BY <1>3
<1>5. /\ r.keys \in Seq(Seq(Alphabet)) /\ Len(r.keys) \in Nat /\ k \in Seq(Alphabet)
      /\ Len(k) \in Nat /\ z \in Seq(Alphabet) /\ i \in 0..Len(r.keys)
      /\ \A n \in 1..Len(k) : k[n] \notin {SP, CR}
  <2>1. r.keys \in Seq(Seq(Alphabet)) /\ Len(r.keys) \in Nat
    BY RequestParts, LenProperties
  <2>2. k \in Seq(Alphabet) /\ Len(k) \in Nat
    BY <2>1, LenProperties
  <2>3. i \in 0..Len(r.keys)
    BY <2>1
  <2>4. z \in Seq(Alphabet)
    BY <2>1, <2>3, Halves, RestTyped
  <2>5. \A n \in 1..Len(k) : k[n] \notin {SP, CR}
    BY RequestParts
  <2> QED BY <2>1, <2>2, <2>3, <2>4, <2>5
<1> HIDE DEF k, z
<1>6. CASE j < Len(k)
  <2>1. j \in 0..(Len(k) - 1) /\ j + 1 \in 1..Len(k) /\ j + 1 \in 0..Len(k)
    BY <1>4, <1>5, <1>6
  <2>2. Head(Rest) = k[j + 1] /\ Rest' = Post(k, j + 1) \o z
    BY <1>1, <1>4, <1>5, <2>1, TakeOne
  <2>3. parser' = [parser EXCEPT !.curKey = Append(parser.curKey, k[j + 1])]
    BY <1>1, <1>5, <2>1, <2>2 DEF ParseGetKey
  <2>4. parser'.curKey = Pre(k, j + 1)
    <3>1. parser'.curKey = Append(parser.curKey, k[j + 1])
      BY <1>2, <2>3 DEF ParserType
    <3>2. Pre(k, j + 1) = Append(Pre(k, j), k[j + 1])
      BY <1>5, <2>1, PreStep
    <3> QED BY <1>4, <3>1, <3>2
  <2>5. parser'.keys = Pre(r.keys, i - 1)
    BY <1>2, <1>4, <2>3 DEF ParserType
  <2>6. \E m \in 1..Len(r.keys) : \E n \in 0..Len(r.keys[m]) :
          /\ parser'.keys = Pre(r.keys, m - 1) /\ parser'.curKey = Pre(r.keys[m], n)
          /\ Rest' = Post(r.keys[m], n) \o FromKeys(Post(r.keys, m), r, t)
    BY <2>1, <2>2, <2>4, <2>5 DEF k, z
  <2>7. InGetKey(r, t)'
    BY <1>2, <2>3, <2>6 DEF InGetKey, ParserType
  <2> QED BY <1>1, <1>2, <2>3, <2>7 DEF Reading, ParserType
<1>7. CASE j = Len(k)
  <2>1. parser.curKey = k /\ Rest = z
    <3>1. Pre(k, j) = k /\ Post(k, j) = <<>>
      BY <1>5, <1>7, WholeSequence
    <3>2. <<>> \o z = z
      BY <1>5, ConcatProperties
    <3> QED BY <1>4, <3>1, <3>2
  <2>2. Append(parser.keys, k) = Pre(r.keys, i)
    <3>1. i - 1 \in 0..(Len(r.keys) - 1) /\ (i - 1) + 1 = i
      BY <1>5
    <3>2. Pre(r.keys, (i - 1) + 1) = Append(Pre(r.keys, i - 1), r.keys[(i - 1) + 1])
      BY <1>5, <3>1, PreStep
    <3> QED BY <1>4, <3>1, <3>2 DEF k
  <2>3. CASE i < Len(r.keys)
    <3> DEFINE l == r.keys[i + 1]
               y == FromKeys(Post(r.keys, i + 1), r, t)
    <3>1. i \in 0..(Len(r.keys) - 1) /\ i + 1 \in 1..Len(r.keys) /\ (i + 1) - 1 = i
      BY <1>5, <2>3
    <3>2. l \in Seq(Alphabet) /\ Post(r.keys, i + 1) \in Seq(Seq(Alphabet))
          /\ z = <<SP>> \o (l \o y)
      BY <1>5, <3>1, KeysFirst DEF z
    <3>3. y \in Seq(Alphabet)
      BY <3>2, RestTyped
    <3> HIDE DEF l, y
    <3>4. l \o y \in Seq(Alphabet)
      BY <3>2, <3>3, ConcatProperties
    <3>5. Head(Rest) = SP /\ Rest' = l \o y
      BY <1>1, <2>1, <3>2, <3>4, Delimiters, TakeFirst
    <3>6. parser' = [parser EXCEPT !.keys = Append(parser.keys, parser.curKey),
                                   !.curKey = <<>>, !.state = "sgKey"]
      BY <1>1, <3>5, Delimiters DEF ParseGetKey
    <3>7. Pre(l, 0) = <<>> /\ Post(l, 0) = l /\ 0 \in 0..Len(l)
      BY <3>2, WholeSequence, LenProperties
    <3>8. parser'.keys = Pre(r.keys, (i + 1) - 1)
      BY <1>2, <2>1, <2>2, <3>1, <3>6 DEF ParserType
    <3>9. parser'.curKey = Pre(l, 0) /\ Rest' = Post(l, 0) \o y
      BY <1>2, <3>5, <3>6, <3>7 DEF ParserType
    <3>10. \E m \in 1..Len(r.keys) : \E n \in 0..Len(r.keys[m]) :
             /\ parser'.keys = Pre(r.keys, m - 1) /\ parser'.curKey = Pre(r.keys[m], n)
             /\ Rest' = Post(r.keys[m], n) \o FromKeys(Post(r.keys, m), r, t)
      BY <3>1, <3>7, <3>8, <3>9 DEF l, y
    <3>11. InGetKey(r, t)'
      BY <1>2, <3>6, <3>10 DEF InGetKey, ParserType
    <3> QED BY <1>1, <1>2, <3>6, <3>11 DEF Reading, ParserType
  <2>4. CASE i = Len(r.keys)
    <3> DEFINE y == <<LF>> \o FromData(r, t)
    <3>1. z = <<CR>> \o y
      BY <1>5, <2>4, KeysEnd DEF z, FromCR
    <3>2. y \in Seq(Alphabet)
      BY Delimiters, RestTyped, ConcatProperties
    <3> HIDE DEF y
    <3>3. Head(Rest) = CR /\ Rest' = y
      BY <1>1, <2>1, <3>1, <3>2, Delimiters, TakeFirst
    <3>4. parser' = [parser EXCEPT !.keys = Append(parser.keys, parser.curKey),
                                   !.curKey = <<>>, !.state = "sLF"]
      BY <1>1, <3>3, Delimiters DEF ParseGetKey
    <3>5. parser'.keys = r.keys
      <4>1. Pre(r.keys, i) = r.keys
        BY <1>5, <2>4, WholeSequence
      <4> QED BY <1>2, <2>1, <2>2, <3>4, <4>1 DEF ParserType
    <3>6. <<r.name>> \in KnownName /\ ~Stores(r)
      BY <1>2 DEF KnownName, Stores, GetName, StoreName
    <3>7. InLF(r, t)'
      BY <1>1, <1>2, <3>3, <3>4, <3>5, <3>6
      DEF InLF, ParserType, FlagsOf, ExprTimes, SizeOf, y
    <3> QED BY <1>1, <1>2, <3>4, <3>7 DEF Reading, ParserType
  <2> QED BY <1>3, <1>5, <2>3, <2>4
<1> QED BY <1>4, <1>5, <1>6, <1>7

LEMMA DigitNumber == ASSUME NEW c \in Digit PROVE DigitValue[c] \in Nat
<1>1. DigitValue[c] \in 0..9
  BY DigitValues
<1> QED BY <1>1

(* The number read so far, modulo its width.                               *)
LEMMA DigitTurn ==
  ASSUME NEW s \in Seq(Digit), NEW j \in 0..(Len(s) - 1)
  PROVE  /\ s[j + 1] \in Digit
         /\ Shifted(Value(Pre(s, j)) % Modulus, s[j + 1]) = Value(Pre(s, j + 1)) % Modulus
<1>1. Len(s) \in Nat /\ j \in 0..Len(s) /\ j + 1 \in 1..Len(s)
  BY LenProperties
<1>2. s[j + 1] \in Digit
  BY <1>1
<1> DEFINE v == Value(Pre(s, j))
           d == DigitValue[s[j + 1]]
<1>3. d \in Nat /\ v \in Nat /\ Value(Pre(s, j + 1)) = v * 10 + d
  <2>1. d \in Nat
    BY <1>2, DigitNumber
  <2>2. v \in 0..Value(s) /\ Value(s) \in Nat
    BY <1>1, ValueFacts
  <2>3. Value(Pre(s, j + 1)) = v * 10 + d
    BY ValueFacts
  <2> QED BY <2>1, <2>2, <2>3
<1> HIDE DEF v
<1>4. Shifted(v % Modulus, s[j + 1]) = ((v % Modulus) * 10 + d) % Modulus
  BY DEF Shifted
<1> HIDE DEF d
<1>5. ((v % Modulus) * 10 + d) % Modulus = (v * 10 + d) % Modulus
  BY <1>3, ModulusAssumption, ShiftedModulo
<1>6. Shifted(v % Modulus, s[j + 1]) = Value(Pre(s, j + 1)) % Modulus
  BY <1>3, <1>4, <1>5
<1> QED BY <1>2, <1>6 DEF v

LEMMA FlagsTurn ==
  ASSUME NEW r \in Request, NEW t \in Seq(Alphabet), Turn(r), InFlags(r, t)
  PROVE  Reading(r, t)'
<1>1. ParseFlags(Head(buf)) /\ ~parser.parse_complete
      /\ Head(buf) = Head(Rest) /\ Rest' = Tail(Rest)
  BY DEF Turn, InFlags, ParseByte, ParseName, ParseStoreKey, ParseGetKey, ParseFlags,
         ParseExprTimeStart, ParseExprTime, ParseBytes, ParseLF
<1>2. /\ parser.name = <<r.name>> /\ parser.state = "spFlags" /\ parser.keys = r.keys
      /\ parser.exprtime = 0 /\ parser.bytes = 0
      /\ parser \in ParserType /\ Stores(r)
  BY DEF Turn, InFlags
<1> DEFINE s == r.flags
           z == FromExprTime(r, t)
<1>3. PICK j \in 0..Len(s) :
        parser.flags = Value(Pre(s, j)) % Modulus /\ Rest = Post(s, j) \o z
  BY DEF InFlags
<1>4. s \in Seq(Alphabet) /\ s \in Seq(Digit) /\ z \in Seq(Alphabet) /\ Len(s) \in Nat
  BY <1>2, StoreParts, RestTyped, LenProperties
<1> HIDE DEF s, z
<1>5. CASE j < Len(s)
  <2>1. j \in 0..(Len(s) - 1) /\ j + 1 \in 0..Len(s)
    BY <1>3, <1>4, <1>5
  <2>2. Head(Rest) = s[j + 1] /\ Rest' = Post(s, j + 1) \o z
    BY <1>1, <1>3, <1>4, <2>1, TakeOne
  <2>3. /\ s[j + 1] \in Digit
        /\ Shifted(parser.flags, s[j + 1]) = Value(Pre(s, j + 1)) % Modulus
    BY <1>3, <1>4, <2>1, DigitTurn
  <2>4. parser' = [parser EXCEPT !.flags = Shifted(parser.flags, s[j + 1])]
    <3>1. s[j + 1] # SP
      BY <2>3, Delimiters
    <3> QED BY <1>1, <2>2, <2>3, <3>1 DEF ParseFlags
  <2>5. parser'.flags = Value(Pre(s, j + 1)) % Modulus
    BY <1>2, <2>3, <2>4 DEF ParserType
  <2>6. \E i \in 0..Len(s) :
          parser'.flags = Value(Pre(s, i)) % Modulus /\ Rest' = Post(s, i) \o z
    BY <2>1, <2>2, <2>5
  <2>7. InFlags(r, t)'
    BY <1>2, <2>4, <2>6 DEF InFlags, ParserType, s, z
  <2> QED BY <1>1, <1>2, <2>4, <2>7 DEF Reading, ParserType
<1>6. CASE j = Len(s)
  <2> DEFINE y == r.exprtime \o FromBytes(r, t)
  <2>1. y \in Seq(Alphabet)
    BY <1>2, StoreParts, RestTyped, ConcatProperties
  <2>2. z = <<SP>> \o y
    BY DEF z, FromExprTime
  <2> HIDE DEF y
  <2>3. Rest = <<SP>> \o y /\ parser.flags = Value(s) % Modulus
    <3>1. Pre(s, j) = s /\ Post(s, j) = <<>>
      BY <1>4, <1>6, WholeSequence
    <3>2. <<>> \o z = z
      BY <1>4, ConcatProperties
    <3> QED BY <1>3, <2>2, <3>1, <3>2
  <2>4. Head(Rest) = SP /\ Rest' = y
    BY <1>1, <2>1, <2>3, Delimiters, TakeFirst
  <2>5. parser' = [parser EXCEPT !.negative = FALSE, !.state = "spExprTimeStart"]
    BY <1>1, <2>4, Delimiters DEF ParseFlags
  <2>6. InExprTimeStart(r, t)'
    BY <1>2, <2>3, <2>4, <2>5 DEF InExprTimeStart, ParserType, FlagsOf, s, y
  <2> QED BY <1>1, <1>2, <2>5, <2>6 DEF Reading, ParserType
<1> QED BY <1>3, <1>4, <1>5, <1>6

LEMMA ExprTimeStartTurn ==
  ASSUME NEW r \in Request, NEW t \in Seq(Alphabet), Turn(r), InExprTimeStart(r, t)
  PROVE  Reading(r, t)'
<1>1. ParseExprTimeStart(Head(buf)) /\ ~parser.parse_complete
      /\ Head(buf) = Head(Rest) /\ Rest' = Tail(Rest)
  BY DEF Turn, InExprTimeStart, ParseByte, ParseName, ParseStoreKey, ParseGetKey,
         ParseFlags, ParseExprTimeStart, ParseExprTime, ParseBytes, ParseLF
<1> DEFINE x == r.exprtime
           z == FromBytes(r, t)
<1>2. /\ parser.name = <<r.name>> /\ parser.state = "spExprTimeStart"
      /\ parser.keys = r.keys /\ parser.flags = FlagsOf(r)
      /\ parser.exprtime = 0 /\ parser.bytes = 0
      /\ parser \in ParserType /\ Stores(r) /\ Rest = x \o z
  BY DEF Turn, InExprTimeStart
<1>3. /\ x \in Seq(Alphabet) /\ z \in Seq(Alphabet) /\ x # <<>>
      /\ x[1] \in Digit \cup {"-"} /\ (Len(x) = 1 => x[1] \in Digit)
  BY <1>2, StoreParts, RestTyped
<1>4. Len(x) \in Nat /\ Len(x) > 0
  <2> HIDE DEF x
  <2> QED BY <1>3, LenProperties, EmptySeq
<1>5. Head(Rest) = x[1] /\ Rest' = Post(x, 1) \o z
  <2> HIDE DEF x, z
  <2>1. 0 \in 0..(Len(x) - 1) /\ 0 + 1 = 1
    BY <1>4
  <2>2. Post(x, 0) = x
    BY <1>3, WholeSequence
  <2>3. Head(Post(x, 0) \o z) = x[0 + 1] /\ Tail(Post(x, 0) \o z) = Post(x, 0 + 1) \o z
    BY <1>3, <2>1, TakeOne
  <2> QED BY <1>1, <1>2, <2>1, <2>2, <2>3
<1>6. CASE x[1] = "-"
  <2>1. parser' = [parser EXCEPT !.negative = TRUE, !.state = "spExprTime"]
    BY <1>1, <1>5, <1>6, Delimiters DEF ParseExprTimeStart
  <2>2. parser'.negative /\ parser'.exprtime = 0
    BY <1>2, <2>1 DEF ParserType
  <2>3. Len(x) # 1
    BY <1>3, <1>6, Delimiters
  <2>4. ReadSoFar(r, 1)'
    BY <2>2, <2>3 DEF ReadSoFar
  <2>5. \E j \in 1..Len(x) : ReadSoFar(r, j)' /\ Rest' = Post(x, j) \o z
    <3>1. 1 \in 1..Len(x)
      BY <1>4
    <3> HIDE DEF x, z
    <3> QED BY <1>5, <2>4, <3>1
  <2>6. InExprTime(r, t)'
    BY <1>2, <2>1, <2>5 DEF InExprTime, ParserType
  <2> QED BY <1>1, <1>2, <2>1, <2>6 DEF Reading, ParserType
<1>7. CASE x[1] \in Digit
  <2>1. parser' = [parser EXCEPT !.exprtime = DigitValue[x[1]], !.state = "spExprTime"]
    BY <1>1, <1>5, <1>7, Delimiters DEF ParseExprTimeStart
  <2>2. parser'.exprtime = DigitValue[x[1]] /\ x[1] # "-"
    BY <1>2, <1>7, <2>1, Delimiters DEF ParserType
  <2>3. ReadSoFar(r, 1)'
    BY <2>2 DEF ReadSoFar
  <2>4. \E j \in 1..Len(x) : ReadSoFar(r, j)' /\ Rest' = Post(x, j) \o z
    <3>1. 1 \in 1..Len(x)
      BY <1>4
    <3> HIDE DEF x, z
    <3> QED BY <1>5, <2>3, <3>1
  <2>5. InExprTime(r, t)'
    BY <1>2, <2>1, <2>4 DEF InExprTime, ParserType
  <2> QED BY <1>1, <1>2, <2>1, <2>5 DEF Reading, ParserType
<1> QED BY <1>3, <1>6, <1>7

LEMMA ExprTimeTurn ==
  ASSUME NEW r \in Request, NEW t \in Seq(Alphabet), Turn(r), InExprTime(r, t)
  PROVE  Reading(r, t)'
<1>1. ParseExprTime(Head(buf)) /\ ~parser.parse_complete
      /\ Head(buf) = Head(Rest) /\ Rest' = Tail(Rest)
  BY DEF Turn, InExprTime, ParseByte, ParseName, ParseStoreKey, ParseGetKey,
         ParseFlags, ParseExprTimeStart, ParseExprTime, ParseBytes, ParseLF
<1> DEFINE x == r.exprtime
           z == FromBytes(r, t)
<1>2. /\ parser.name = <<r.name>> /\ parser.state = "spExprTime"
      /\ parser.keys = r.keys /\ parser.flags = FlagsOf(r) /\ parser.bytes = 0
      /\ parser \in ParserType /\ Stores(r)
  BY DEF Turn, InExprTime
<1>3. PICK j \in 1..Len(x) : ReadSoFar(r, j) /\ Rest = Post(x, j) \o z
  BY DEF InExprTime
<1>4. /\ x \in Seq(Alphabet) /\ z \in Seq(Alphabet) /\ Len(x) \in Nat
      /\ \A i \in 2..Len(x) : x[i] \in Digit
  BY <1>2, StoreParts, RestTyped, LenProperties
<1> HIDE DEF x, z
<1>5. CASE j < Len(x)
  <2>1. j \in 0..(Len(x) - 1) /\ j + 1 \in 2..Len(x) /\ j + 1 \in 1..Len(x) /\ j + 1 # 1
    BY <1>3, <1>4, <1>5
  <2>2. Head(Rest) = x[j + 1] /\ Rest' = Post(x, j + 1) \o z
    BY <1>1, <1>3, <1>4, <2>1, TakeOne
  <2> DEFINE d == DigitValue[x[j + 1]]
             k == IF parser.negative THEN parser.exprtime - d ELSE parser.exprtime + d
  <2>3. x[j + 1] \in Digit /\ x[j + 1] # SP /\ d \in Int
    BY <1>4, <2>1, Delimiters, DigitValues
  <2>4. parser' = [parser EXCEPT !.exprtime = k]
    BY <1>1, <2>2, <2>3 DEF ParseExprTime
  <2>5. parser'.exprtime = k
    BY <1>2, <2>4 DEF ParserType
  <2>6. ASSUME Len(x) = 2, x[1] = "-"
        PROVE  parser'.exprtime = -DigitValue[x[2]]
    <3>1. j = 1
      BY <2>6, <2>1
    <3>2. parser.negative /\ parser.exprtime = 0
      BY <1>3, <2>6, <3>1 DEF ReadSoFar, x
    <3>3. d = DigitValue[x[2]]
      BY <3>1
    <3> HIDE DEF d
    <3>4. k = 0 - d
      BY <3>2
    <3> QED BY <2>3, <2>5, <3>3, <3>4
  <2>7. ReadSoFar(r, j + 1)'
    <3>1. Len(x) # 1
      BY <1>4, <2>1
    <3> QED BY <2>1, <2>6, <3>1 DEF ReadSoFar, x
  <2>8. \E i \in 1..Len(x) : ReadSoFar(r, i)' /\ Rest' = Post(x, i) \o z
    BY <2>1, <2>2, <2>7
  <2> HIDE DEF k
  <2>9. InExprTime(r, t)'
    BY <1>2, <2>4, <2>8 DEF InExprTime, ParserType, x, z
  <2> QED BY <1>1, <1>2, <2>4, <2>9 DEF Reading, ParserType
<1>6. CASE j = Len(x)
  <2> DEFINE s == Decimal(Len(r.data))
             y == FromCR(r, t)
  <2>1. s \in Seq(Digit) /\ s \in Seq(Alphabet) /\ y \in Seq(Alphabet)
    BY <1>2, StoreParts, RestTyped
  <2>2. s \o y \in Seq(Alphabet) /\ Len(s) \in Nat
    BY <2>1, ConcatProperties, LenProperties
  <2>3. z = <<SP>> \o (s \o y)
    BY DEF z, FromBytes
  <2> HIDE DEF s, y
  <2>4. Rest = <<SP>> \o (s \o y)
    <3>1. Post(x, j) = <<>>
      BY <1>4, <1>6, WholeSequence
    <3>2. <<>> \o z = z
      BY <1>4, ConcatProperties
    <3> QED BY <1>3, <2>3, <3>1, <3>2
  <2>5. Head(Rest) = SP /\ Rest' = s \o y
    BY <1>1, <2>2, <2>4, Delimiters, TakeFirst
  <2>6. parser' = [parser EXCEPT !.state = "spBytes"]
    BY <1>1, <2>5, Delimiters DEF ParseExprTime
  <2>7. parser.exprtime \in ExprTimes(r)
    <3>1. parser.exprtime \in Int
      BY <1>2 DEF ParserType
    <3>2. CASE Len(x) = 1
      BY <1>2, <1>3, <3>2 DEF ReadSoFar, ExprTimes, x
    <3>3. CASE Len(x) = 2 /\ x[1] = "-"
      <4>1. j # 1
        BY <1>6, <3>3
      <4>2. parser.exprtime = -DigitValue[x[2]]
        BY <1>3, <3>3, <4>1 DEF ReadSoFar, x
      <4>3. ExprTimes(r) = {-DigitValue[x[2]]}
        BY <1>2, <3>3 DEF ExprTimes, x
      <4> QED BY <4>2, <4>3
    <3>4. CASE Len(x) # 1 /\ ~(Len(x) = 2 /\ x[1] = "-")
      <4>1. ExprTimes(r) = Int
        BY <1>2, <3>4 DEF ExprTimes, x
      <4> QED BY <3>1, <4>1
    <3> QED BY <3>2, <3>3, <3>4
  <2>8. Value(Pre(s, 0)) = 0 /\ Post(s, 0) = s /\ 0 \in 0..Len(s)
    BY <2>1, <2>2, ValueFacts, WholeSequence
  <2>9. parser'.bytes = Value(Pre(s, 0)) /\ Rest' = Post(s, 0) \o y
    BY <1>2, <2>5, <2>6, <2>8 DEF ParserType
  <2>10. \E i \in 0..Len(s) : parser'.bytes = Value(Pre(s, i)) /\ Rest' = Post(s, i) \o y
    BY <2>8, <2>9
  <2>11. parser'.exprtime \in ExprTimes(r)
    BY <1>2, <2>6, <2>7 DEF ParserType
  <2>12. InBytes(r, t)'
    BY <1>2, <2>6, <2>10, <2>11 DEF InBytes, ParserType, s, y
  <2> QED BY <1>1, <1>2, <2>6, <2>12 DEF Reading, ParserType
<1> QED BY <1>3, <1>4, <1>5, <1>6

(* The size of the data is below the width: it never wraps.                *)
LEMMA SizeTurn ==
  ASSUME NEW r \in Request, Stores(r), NEW j \in 0..(Len(Decimal(Len(r.data))) - 1)
  PROVE  /\ Decimal(Len(r.data))[j + 1] \in Digit
         /\ Value(Pre(Decimal(Len(r.data)), j)) <= Value(Pre(Decimal(Len(r.data)), j + 1))
         /\ Shifted(Value(Pre(Decimal(Len(r.data)), j)), Decimal(Len(r.data))[j + 1])
              = Value(Pre(Decimal(Len(r.data)), j + 1))
<1> DEFINE s == Decimal(Len(r.data))
<1>1. s \in Seq(Digit) /\ Value(s) = Len(r.data) /\ Len(r.data) < Modulus
      /\ Len(r.data) \in Nat /\ j \in 0..(Len(s) - 1)
  BY StoreParts
<1> HIDE DEF s
<1>2. Len(s) \in Nat /\ j \in 0..Len(s) /\ j + 1 \in 0..Len(s)
  BY <1>1, LenProperties
<1> DEFINE v == Value(Pre(s, j))
           w == Value(Pre(s, j + 1))
           d == DigitValue[s[j + 1]]
<1>3. s[j + 1] \in Digit /\ Shifted(v % Modulus, s[j + 1]) = w % Modulus
  BY <1>1, DigitTurn
<1>4. v \in 0..Value(s) /\ w \in 0..Value(s) /\ w = v * 10 + d
  BY <1>1, <1>2, ValueFacts
<1>5. d \in Nat
  BY <1>3, DigitNumber
<1> HIDE DEF v, w, d
<1>6. v \in 0..(Modulus - 1) /\ w \in 0..(Modulus - 1) /\ v <= w
  BY <1>1, <1>4, <1>5, ModulusAssumption
<1>7. v % Modulus = v /\ w % Modulus = w
  BY <1>6, ModulusAssumption
<1>8. Shifted(v, s[j + 1]) = w
  BY <1>3, <1>7
<1> QED BY <1>3, <1>6, <1>8 DEF v, w, s

LEMMA BytesTurn ==
  ASSUME NEW r \in Request, NEW t \in Seq(Alphabet), Turn(r), InBytes(r, t)
  PROVE  Reading(r, t)'
<1>1. ParseBytes(Head(buf)) /\ ~parser.parse_complete
      /\ Head(buf) = Head(Rest) /\ Rest' = Tail(Rest)
  BY DEF Turn, InBytes, ParseByte, ParseName, ParseStoreKey, ParseGetKey,
         ParseFlags, ParseExprTimeStart, ParseExprTime, ParseBytes, ParseLF
<1> DEFINE s == Decimal(Len(r.data))
           z == FromCR(r, t)
<1>2. /\ parser.name = <<r.name>> /\ parser.state = "spBytes"
      /\ parser.keys = r.keys /\ parser.flags = FlagsOf(r)
      /\ parser.exprtime \in ExprTimes(r) /\ parser \in ParserType /\ Stores(r)
  BY DEF Turn, InBytes
<1>3. PICK j \in 0..Len(s) : parser.bytes = Value(Pre(s, j)) /\ Rest = Post(s, j) \o z
  BY DEF InBytes
<1>4. /\ s \in Seq(Digit) /\ s \in Seq(Alphabet) /\ z \in Seq(Alphabet)
      /\ Value(s) = Len(r.data)
  BY <1>2, StoreParts, RestTyped
<1>5. Len(s) \in Nat
  BY <1>4, LenProperties
<1>6. CASE j < Len(s)
  <2>1. j \in 0..(Len(s) - 1) /\ j + 1 \in 0..Len(s)
    BY <1>3, <1>5, <1>6
  <2>2. s[j + 1] \in Digit /\ Shifted(parser.bytes, s[j + 1]) = Value(Pre(s, j + 1))
    BY <1>2, <1>3, <2>1, SizeTurn
  <2> HIDE DEF s, z
  <2>3. Head(Rest) = s[j + 1] /\ Rest' = Post(s, j + 1) \o z
    BY <1>1, <1>3, <1>4, <2>1, TakeOne
  <2>4. parser' = [parser EXCEPT !.bytes = Shifted(parser.bytes, s[j + 1])]
    <3>1. s[j + 1] # CR
      BY <2>2, Delimiters
    <3> QED BY <1>1, <2>2, <2>3, <3>1 DEF ParseBytes
  <2>5. parser'.bytes = Value(Pre(s, j + 1))
    BY <1>2, <2>2, <2>4 DEF ParserType
  <2>6. \E i \in 0..Len(s) : parser'.bytes = Value(Pre(s, i)) /\ Rest' = Post(s, i) \o z
    BY <2>1, <2>3, <2>5
  <2>7. InBytes(r, t)'
    BY <1>2, <2>4, <2>6 DEF InBytes, ParserType, s, z
  <2> QED BY <1>1, <1>2, <2>4, <2>7 DEF Reading, ParserType
<1>7. CASE j = Len(s)
  <2> DEFINE y == <<LF>> \o FromData(r, t)
  <2>1. y \in Seq(Alphabet)
    BY Delimiters, RestTyped, ConcatProperties
  <2>2. z = <<CR>> \o y
    BY DEF FromCR
  <2> HIDE DEF s, y, z
  <2>3. Rest = <<CR>> \o y /\ parser.bytes = Len(r.data)
    <3>1. Pre(s, j) = s /\ Post(s, j) = <<>>
      BY <1>4, <1>7, WholeSequence
    <3>2. <<>> \o z = z
      BY <1>4, ConcatProperties
    <3> QED BY <1>3, <1>4, <2>2, <3>1, <3>2
  <2>4. Head(Rest) = CR /\ Rest' = y
    BY <1>1, <2>1, <2>3, Delimiters, TakeFirst
  <2>5. parser' = [parser EXCEPT !.state = "sLF"]
    BY <1>1, <2>4, Delimiters DEF ParseBytes
  <2>6. <<r.name>> \in KnownName
    BY <1>2 DEF KnownName, Stores
  <2>7. InLF(r, t)'
    BY <1>1, <1>2, <2>3, <2>4, <2>5, <2>6 DEF InLF, ParserType, SizeOf, y
  <2> QED BY <1>1, <1>2, <2>5, <2>7 DEF Reading, ParserType
<1> QED BY <1>3, <1>5, <1>6, <1>7

LEMMA LFTurn ==
  ASSUME NEW r \in Request, NEW t \in Seq(Alphabet), Turn(r), InLF(r, t)
  PROVE  Reading(r, t)'
<1>1. /\ parser' = [parser EXCEPT !.parse_complete = TRUE] /\ ~parser.parse_complete
      /\ Head(buf) = Head(Rest) /\ Rest' = Tail(Rest)
  BY DEF Turn, InLF, ParseByte, ParseName, ParseStoreKey, ParseGetKey,
         ParseFlags, ParseExprTimeStart, ParseExprTime, ParseBytes, ParseLF
<1>2. /\ parser.name = <<r.name>> /\ parser.state = "sLF" /\ parser \in ParserType
      /\ <<r.name>> \in KnownName /\ parser.keys = r.keys
      /\ parser.flags = FlagsOf(r) /\ parser.exprtime \in ExprTimes(r)
      /\ parser.bytes = SizeOf(r)
  BY DEF Turn, InLF
<1>3. Rest = <<LF>> \o FromData(r, t)
  BY <1>1 DEF InLF
<1>4. Rest' = FromData(r, t)
  BY <1>1, <1>3, RestTyped, Delimiters, TakeFirst
<1>5. InLF(r, t)'
  BY <1>1, <1>2, <1>4 DEF InLF, ParserType
<1> QED BY <1>1, <1>2, <1>5 DEF Reading, ParserType

LEMMA ReadingTurn ==
  ASSUME NEW r \in Request, NEW t \in Seq(Alphabet), Typed, Reading(r, t), ParseByte,
         Rest' = Tail(Rest), Head(buf) = Head(Rest)
  PROVE  Reading(r, t)'
<1>1. Turn(r)
  BY DEF Turn, Reading, Typed
<1> QED
  BY <1>1, NameTurn, StoreKeyTurn, FlagsTurn, ExprTimeStartTurn, ExprTimeTurn, BytesTurn,
     GetKeyTurn, LFTurn DEF Reading

-----------------------------------------------------------------------------
(* The request under way.                                                  *)
LEMMA CurrentTyped ==
  ASSUME Typed, Len(executed) < Len(requests)
  PROVE  /\ Current \in Request /\ After \in Seq(Alphabet)
         /\ Stream(Ahead) = <<Current.name>> \o FromName(Current, After)
<1>1. requests \in Seq(Request) /\ Len(executed) \in Nat /\ Len(requests) \in Nat
  <2>1. requests \in Seq(Request) /\ executed \in Seq(Range(executed))
    BY DEF Typed
  <2> QED BY <2>1, LenProperties
<1>2. Len(executed) \in 0..(Len(requests) - 1)
  BY <1>1
<1> QED BY <1>1, <1>2, StreamFirst DEF Current, After, Ahead

(* Nothing else is written ahead when every request has been executed.     *)
LEMMA NothingAhead ==
  ASSUME Typed, Len(executed) = Len(requests)
  PROVE  Stream(Ahead) = <<>>
<1>1. requests \in Seq(Request)
  BY DEF Typed
<1>2. Ahead = <<>>
  BY <1>1, WholeSequence DEF Ahead
<1> QED BY <1>2, StreamEnds

LEMMA AlignedStays ==
  ASSUME Aligned, pc # "done", Rest' = Rest,
         UNCHANGED <<parser, requests, executed, command, remains, argument>>
  PROVE  Aligned'
<1>1. /\ Current' = Current /\ After' = After /\ Ahead' = Ahead
  BY DEF Current, After, Ahead
<1>2. ASSUME NEW r, NEW t, Reading(r, t) PROVE Reading(r, t)'
  BY <1>2 DEF Reading, InName, InStoreKey, InFlags, InExprTimeStart, InExprTime, ReadSoFar,
              InBytes, InGetKey, InLF
<1>3. ASSUME NEW r, NEW t, Filling(r, t) PROVE Filling(r, t)'
  BY <1>3 DEF Filling, CommandOf
<1>4. Between => Between'
  BY <1>1 DEF Between
<1>5. PICK r, t : r = Current /\ t = After
  OBVIOUS
<1>6. Reading(Current, After) => Reading(Current, After)'
  BY <1>1, <1>2, <1>5
<1>7. Filling(Current, After) => Filling(Current, After)'
  BY <1>1, <1>3, <1>5
<1> QED BY <1>4, <1>6, <1>7 DEF Aligned

(* The first byte after a request is the name of the next one; the         *)
(* delimiter of an empty data block is refused.                            *)
LEMMA BetweenTurn ==
  ASSUME Typed, Outcomes, Between, buf # <<>>,
         Head(buf) = Head(Rest), Rest # <<>>
  PROVE  /\ parser \in FreshParser /\ ~parser.parse_complete /\ parser.state = "sName"
         /\ \/ /\ Len(executed) < Len(requests) /\ Head(buf) = Current.name
               /\ Tail(Rest) = FromName(Current, After) /\ Head(buf) \notin {SP, CR}
            \/ /\ executed # <<>> /\ EmptyBlock(requests[Len(executed)])
               /\ Head(buf) = CR
<1>1. parser \in FreshParser /\ ~parser.parse_complete /\ parser.state = "sName"
  BY DEF Between, FreshParser, Reset
<1>2. CASE Rest = Stream(Ahead)
  <2>1. Len(executed) < Len(requests)
    <3>1. Len(executed) # Len(requests)
      BY <1>2, NothingAhead
    <3>2. Len(executed) \in Nat /\ Len(requests) \in Nat
      BY LenProperties DEF Typed
    <3> QED BY <3>1, <3>2 DEF Outcomes
  <2> DEFINE r == Current
             t == After
  <2>2. r \in Request /\ t \in Seq(Alphabet) /\ Rest = <<r.name>> \o FromName(r, t)
    BY <1>2, <2>1, CurrentTyped
  <2> HIDE DEF r, t
  <2>3. r.name \in Alphabet /\ r.name \notin {SP, CR} /\ FromName(r, t) \in Seq(Alphabet)
    BY <2>2, RequestParts, RestTyped
  <2>4. Head(Rest) = r.name /\ Tail(Rest) = FromName(r, t)
    BY <2>2, <2>3, TakeFirst
  <2> QED BY <1>1, <2>1, <2>3, <2>4 DEF r, t
<1>3. CASE /\ executed # <<>> /\ EmptyBlock(requests[Len(executed)])
           /\ Rest = CRLF \o Stream(Ahead)
  <2> DEFINE z == Stream(Ahead)
  <2>1. z \in Seq(Alphabet)
    <3>1. requests \in Seq(Request) /\ Len(executed) \in Nat /\ Len(requests) \in Nat
      <4>1. requests \in Seq(Request) /\ executed \in Seq(Range(executed))
        BY DEF Typed
      <4> QED BY <4>1, LenProperties
    <3>2. Len(executed) \in 0..Len(requests)
      BY <3>1 DEF Outcomes
    <3>3. Ahead \in Seq(Request)
      BY <3>1, <3>2, Halves DEF Ahead
    <3> QED BY <3>3, StreamTyped
  <2> HIDE DEF z
  <2>2. Rest = <<CR>> \o (<<LF>> \o z)
    <3>1. Rest = <<CR, LF>> \o z
      BY <1>3 DEF z, CRLF
    <3> QED BY <2>1, <3>1, Delimiters, TwoBytes
  <2>3. <<LF>> \o z \in Seq(Alphabet)
    BY <2>1, Delimiters, ConcatProperties
  <2>4. Head(Rest) = CR
    BY <2>2, <2>3, Delimiters, TakeFirst
  <2> QED BY <1>1, <1>3, <2>4
<1> QED BY <1>2, <1>3 DEF Between

LEMMA ParseAligned ==
  ASSUME IInv, Typed, Aligned, Outcomes, Parse
  PROVE  Aligned'
<1>1. /\ pc = "parse" /\ ParseByte /\ buf # <<>> /\ buf' = Tail(buf)
      /\ UNCHANGED <<requests, unread, running, pc, conn, session, executed>>
  BY DEF Parse, ParseByte
<1>2. /\ Rest # <<>> /\ Head(buf) = Head(Rest) /\ Head(buf) \in Byte
      /\ Tail(buf) \o unread = Tail(Rest)
  BY <1>1, NextByte
<1>3. Rest' = Tail(Rest)
  BY <1>1, <1>2 DEF Rest
<1>4. Current' = Current /\ After' = After /\ command' = command /\ command = NoCommand
  BY <1>1 DEF Current, After, session, IInv
<1>5. CASE Len(executed) < Len(requests) /\ Reading(Current, After)
  <2>1. PICK r, t : r = Current /\ t = After
    OBVIOUS
  <2>2. r \in Request /\ t \in Seq(Alphabet) /\ Reading(r, t)
    BY <1>5, <2>1, CurrentTyped
  <2>3. Reading(r, t)'
    BY <1>1, <1>2, <1>3, <2>2, ReadingTurn
  <2>4. Reading(Current, After)'
    BY <1>4, <2>1, <2>3
  <2> QED BY <1>1, <1>4, <1>5, <2>4 DEF Aligned
<1>6. CASE Between
  <2>1. ~Rejects(parser, Head(buf)) /\ parser \in ParserType
    BY <1>1 DEF ParseByte, Typed
  <2>2. parser \in FreshParser /\ ~parser.parse_complete /\ parser.state = "sName"
    BY <1>1, <1>2, <1>6, BetweenTurn
  <2>3. /\ parser.name = <<>> /\ parser.keys = <<>> /\ parser.curKey = <<>>
        /\ parser.flags = 0 /\ parser.exprtime = 0 /\ parser.bytes = 0
    BY <2>2 DEF FreshParser, Reset
  <2>4. Head(buf) # CR
    BY <2>1, <2>2, <2>3
    DEF Rejects, KnownName, StoreName, GetName, StatsName
  <2>5. /\ Len(executed) < Len(requests) /\ Head(buf) = Current.name
        /\ Tail(Rest) = FromName(Current, After) /\ Head(buf) \notin {SP, CR}
    BY <1>1, <1>2, <1>6, <2>4, BetweenTurn
  <2>6. ParseName(Head(buf))
    BY <1>1, <2>2 DEF ParseByte, ParseName, ParseStoreKey, ParseGetKey, ParseFlags,
         ParseExprTimeStart, ParseExprTime, ParseBytes, ParseLF
  <2>7. parser' = [parser EXCEPT !.name = Append(parser.name, Head(buf))]
    BY <2>5, <2>6 DEF ParseName
  <2>8. parser'.name = <<Current.name>>
    <3>1. Append(<<>>, Head(buf)) = <<Head(buf)>>
      OBVIOUS
    <3> QED BY <2>1, <2>3, <2>5, <2>7, <3>1 DEF ParserType
  <2>9. PICK r, t : r = Current /\ t = After
    OBVIOUS
  <2>10. InName(r, t)'
    BY <1>3, <2>1, <2>2, <2>3, <2>5, <2>7, <2>9 DEF InName, ParserType
  <2>11. Reading(r, t)'
    BY <2>1, <2>2, <2>7, <2>8, <2>9, <2>10 DEF Reading, ParserType
  <2>12. Reading(Current, After)'
    BY <1>4, <2>9, <2>11
  <2> QED BY <1>1, <1>4, <2>5, <2>12 DEF Aligned
<1> QED BY <1>1, <1>4, <1>5, <1>6 DEF Aligned

(* Why a request under way is refused.                                     *)
LEMMA ReadingRefused ==
  ASSUME NEW r \in Request, NEW t \in Seq(Alphabet), Typed, Reading(r, t),
         Head(buf) = Head(Rest), ParseThrows
  PROVE  ~Supported(r)
<1>1. /\ Rejects(parser, Head(buf)) /\ ~parser.parse_complete /\ parser.name = <<r.name>>
  BY DEF ParseThrows, Reading
<1>2. CASE InName(r, t)
  BY <1>1, <1>2 DEF InName, Rejects, Supported, KnownName
<1>3. CASE InStoreKey(r, t) \/ InExprTimeStart(r, t) \/ InExprTime(r, t) \/ InGetKey(r, t)
  BY <1>1, <1>3 DEF InStoreKey, InExprTimeStart, InExprTime, InGetKey, Rejects
<1>4. CASE InFlags(r, t)
  <2> DEFINE s == r.flags
             z == FromExprTime(r, t)
  <2>1. Stores(r) /\ s \in Seq(Digit) /\ s \in Seq(Alphabet) /\ z \in Seq(Alphabet)
    BY <1>4, StoreParts, RestTyped DEF InFlags
  <2>2. PICK j \in 0..Len(s) :
          parser.flags = Value(Pre(s, j)) % Modulus /\ Rest = Post(s, j) \o z
    BY <1>4 DEF InFlags
  <2>3. Overflows(parser.flags, Head(buf))
    BY <1>1, <1>4 DEF InFlags, Rejects
  <2>4. Len(s) \in Nat
    BY <2>1, LenProperties
  <2>5. SUFFICES ASSUME Value(s) < Modulus PROVE FALSE
    BY <2>1 DEF Supported
  <2> HIDE DEF s
  <2>6. CASE j = Len(s)
    <3> DEFINE y == r.exprtime \o FromBytes(r, t)
    <3>1. y \in Seq(Alphabet)
      BY <2>1, StoreParts, RestTyped, ConcatProperties
    <3>2. Rest = z
      <4>1. Post(s, j) = <<>>
        BY <2>1, <2>6, WholeSequence
      <4>2. <<>> \o z = z
        BY <2>1, ConcatProperties
      <4> QED BY <2>2, <4>1, <4>2
    <3>3. Rest = <<SP>> \o y
      BY <3>2 DEF FromExprTime
    <3> HIDE DEF y, z
    <3>4. Head(Rest) = SP
      BY <3>1, <3>3, Delimiters, TakeFirst
    <3> QED BY <2>3, <3>4, Delimiters DEF Overflows
  <2>7. CASE j < Len(s)
    <3>1. j \in 0..(Len(s) - 1) /\ j + 1 \in 0..Len(s)
      BY <2>2, <2>4, <2>7
    <3> HIDE DEF z
    <3>2. Head(Rest) = s[j + 1]
      BY <2>1, <2>2, <3>1, TakeOne
    <3> DEFINE v == Value(Pre(s, j))
               w == Value(Pre(s, j + 1))
    <3>3. s[j + 1] \in Digit /\ Shifted(v % Modulus, s[j + 1]) = w % Modulus
      BY <2>1, <3>1, DigitTurn
    <3>4. v \in 0..Value(s) /\ w \in 0..Value(s) /\ Value(s) \in Nat
          /\ w = v * 10 + DigitValue[s[j + 1]]
      BY <2>1, <3>1, ValueFacts
    <3>5. DigitValue[s[j + 1]] \in Nat
      BY <3>3, DigitNumber
    <3>6. Shifted(parser.flags, s[j + 1]) < parser.flags
      BY <2>3, <3>2 DEF Overflows
    <3> HIDE DEF v, w
    <3>7. v \in 0..(Modulus - 1) /\ w \in 0..(Modulus - 1) /\ v <= w
      BY <2>5, <3>4, <3>5, ModulusAssumption
    <3>8. v % Modulus = v /\ w % Modulus = w
      BY <3>7, ModulusAssumption
    <3>9. parser.flags = v /\ Shifted(v, s[j + 1]) = w
      BY <2>2, <3>3, <3>8 DEF v
    <3> QED BY <3>6, <3>7, <3>9
  <2> QED BY <2>2, <2>4, <2>6, <2>7
<1>5. CASE InBytes(r, t)
  <2> DEFINE s == Decimal(Len(r.data))
             z == FromCR(r, t)
  <2>1. Stores(r) /\ s \in Seq(Digit) /\ s \in Seq(Alphabet) /\ z \in Seq(Alphabet)
    BY <1>5, StoreParts, RestTyped DEF InBytes
  <2>2. PICK j \in 0..Len(s) : parser.bytes = Value(Pre(s, j)) /\ Rest = Post(s, j) \o z
    BY <1>5 DEF InBytes
  <2>3. Overflows(parser.bytes, Head(buf))
    BY <1>1, <1>5 DEF InBytes, Rejects
  <2>4. Len(s) \in Nat
    BY <2>1, LenProperties
  <2>5. CASE j = Len(s)
    <3> DEFINE y == <<LF>> \o FromData(r, t)
    <3>1. y \in Seq(Alphabet)
      BY RestTyped, Delimiters, ConcatProperties
    <3>2. z = <<CR>> \o y
      BY DEF FromCR
    <3> HIDE DEF s, y, z
    <3>3. Rest = <<CR>> \o y
      <4>1. Post(s, j) = <<>>
        BY <2>1, <2>5, WholeSequence
      <4>2. <<>> \o z = z
        BY <2>1, ConcatProperties
      <4> QED BY <2>2, <3>2, <4>1, <4>2
    <3>4. Head(Rest) = CR
      BY <3>1, <3>3, Delimiters, TakeFirst
    <3> QED BY <2>3, <3>4, Delimiters DEF Overflows
  <2>6. CASE j < Len(s)
    <3>1. j \in 0..(Len(s) - 1)
      BY <2>2, <2>4, <2>6
    <3>2. /\ Value(Pre(s, j)) <= Value(Pre(s, j + 1))
          /\ Shifted(Value(Pre(s, j)), s[j + 1]) = Value(Pre(s, j + 1))
      BY <2>1, <3>1, SizeTurn
    <3>3. Value(Pre(s, j)) \in Nat /\ Value(Pre(s, j + 1)) \in Nat
      <4> HIDE DEF s
      <4>1. j \in 0..Len(s) /\ j + 1 \in 0..Len(s)
        BY <2>4, <3>1
      <4>2. Value(Pre(s, j)) \in 0..Value(s) /\ Value(Pre(s, j + 1)) \in 0..Value(s)
            /\ Value(s) \in Nat
        BY <2>1, <4>1, ValueFacts
      <4> QED BY <4>2
    <3> HIDE DEF s, z
    <3>4. Head(Rest) = s[j + 1]
      BY <2>1, <2>2, <3>1, TakeOne
    <3>5. Shifted(parser.bytes, s[j + 1]) < parser.bytes
      BY <2>3, <3>4 DEF Overflows
    <3> DEFINE v == Value(Pre(s, j))
               w == Value(Pre(s, j + 1))
    <3>6. v \in Nat /\ w \in Nat /\ v <= w /\ w < v
      BY <2>2, <3>2, <3>3, <3>5
    <3> HIDE DEF v, w
    <3> QED BY <3>6
  <2> QED BY <2>2, <2>4, <2>5, <2>6
<1>6. CASE InLF(r, t)
  <2>1. Rest = <<LF>> \o FromData(r, t)
    BY <1>1, <1>6 DEF InLF
  <2>2. Head(Rest) = LF
    BY <2>1, RestTyped, Delimiters, TakeFirst
  <2> QED BY <1>1, <1>6, <2>2 DEF InLF, Rejects
<1> QED BY <1>2, <1>3, <1>4, <1>5, <1>6 DEF Reading

LEMMA ParseFailsRefused ==
  ASSUME IInv, Typed, Places, Aligned, Outcomes, ParseFails
  PROVE  Explained'
<1>1. /\ pc = "parse" /\ command = NoCommand /\ UNCHANGED <<requests, executed>>
      /\ ParseThrows \/ (parser.parse_complete /\ ~Buildable(parser))
  BY DEF ParseFails, IInv
<1>2. CASE Len(executed) < Len(requests) /\ Reading(Current, After)
  <2>1. PICK r, t : r = Current /\ t = After
    OBVIOUS
  <2>2. r \in Request /\ t \in Seq(Alphabet) /\ Reading(r, t)
    BY <1>2, <2>1, CurrentTyped
  <2>3. ~Supported(r)
    <3>1. CASE ParseThrows
      <4>1. buf # <<>>
        BY <3>1 DEF ParseThrows
      <4>2. Head(buf) = Head(Rest)
        BY <4>1, NextByte
      <4> QED BY <2>2, <3>1, <4>2, ReadingRefused
    <3>2. CASE ~Buildable(parser)
      <4>1. parser.name = <<r.name>>
        BY <2>2 DEF Reading
      <4> QED BY <3>2, <4>1 DEF Buildable, Supported
    <3> QED BY <1>1, <3>1, <3>2
  <2>4. RefusedNext
    BY <1>2, <2>1, <2>3 DEF RefusedNext, Current
  <2>5. RefusedNext'
    BY <1>1, <2>4 DEF RefusedNext
  <2> QED BY <2>5 DEF Explained
<1>3. CASE Between
  <2>1. ~parser.parse_complete
    BY <1>3 DEF Between, FreshParser, Reset
  <2>2. ParseThrows /\ buf # <<>>
    BY <1>1, <2>1 DEF ParseThrows
  <2>3. Rest # <<>> /\ Head(buf) = Head(Rest)
    BY <2>2, NextByte
  <2>4. parser.state = "sName" /\ Rejects(parser, Head(buf))
    BY <1>3, <2>2, <2>3, BetweenTurn DEF ParseThrows
  <2>5. Head(buf) \in {SP, CR}
    BY <2>4 DEF Rejects
  <2>6. executed # <<>> /\ EmptyBlock(requests[Len(executed)])
    BY <1>3, <2>2, <2>3, <2>5, BetweenTurn
  <2> QED BY <1>1, <2>6 DEF Explained
<1> QED BY <1>1, <1>2, <1>3 DEF Aligned

(* A complete line makes the command of the request it was sent for.       *)
LEMMA ParsedAligned ==
  ASSUME IInv, Typed, Places, Aligned, Parsed
  PROVE  Aligned'
<1>1. /\ pc = "parse" /\ command = NoCommand /\ argument = <<>>
      /\ UNCHANGED <<parser, buf, requests, unread, running, conn, argument, executed>>
  BY DEF Parsed, IInv, Places
<1>2. Rest' = Rest /\ Current' = Current /\ After' = After
  BY <1>1 DEF Rest, Current, After
<1>3. CASE ~parser.parse_complete
  <2>1. UNCHANGED <<command, remains>>
    BY <1>3 DEF Parsed
  <2> QED BY <1>1, <1>2, <2>1, AlignedStays
<1>4. CASE parser.parse_complete
  <2>1. /\ command' = Build(parser) /\ remains' = ArgumentSize(parser)
    BY <1>4 DEF Parsed
  <2>2. ~Between
    BY <1>4 DEF Between, FreshParser, Reset
  <2>3. Len(executed) < Len(requests) /\ Reading(Current, After)
    BY <1>1, <2>2 DEF Aligned
  <2>4. PICK r, t : r = Current /\ t = After
    OBVIOUS
  <2>5. r \in Request /\ t \in Seq(Alphabet) /\ Reading(r, t)
    BY <2>3, <2>4, CurrentTyped
  <2>6. InLF(r, t) /\ parser.name = <<r.name>>
    BY <1>4, <2>5 DEF Reading, InName, InStoreKey, InFlags, InExprTimeStart, InExprTime,
                      InBytes, InGetKey
  <2>7. /\ parser.keys = r.keys /\ parser.flags = FlagsOf(r)
        /\ parser.exprtime \in ExprTimes(r) /\ parser.bytes = SizeOf(r)
        /\ Rest = FromData(r, t)
    BY <1>4, <2>6 DEF InLF
  <2>8. CommandOf(r)'
    <3>1. CASE Stores(r)
      <4>1. Len(r.keys) = 1 /\ r.keys \in Seq(Seq(Alphabet))
        BY <2>5, <3>1, StoreParts, RequestParts
      <4>2. <<r.keys[1]>> = r.keys
        BY <4>1
      <4> QED BY <2>1, <2>6, <2>7, <3>1, <4>2 DEF CommandOf, Build, Stores
    <3>2. CASE ~Stores(r)
      BY <2>1, <2>6, <2>7, <3>2 DEF CommandOf, Build, Stores
    <3> QED BY <3>1, <3>2
  <2>9. CASE SizeOf(r) = 0
    <3>1. remains' = 0
      BY <2>1, <2>7, <2>9 DEF ArgumentSize
    <3>2. Filling(r, t)'
      BY <1>1, <1>2, <2>7, <2>8, <2>9, <3>1 DEF Filling
    <3>3. Filling(Current, After)'
      BY <1>2, <2>4, <3>2
    <3> QED BY <1>1, <2>1, <2>3, <3>3, BuildMakesCommand DEF Aligned
  <2>10. CASE SizeOf(r) # 0
    <3> DEFINE x == r.data \o CRLF
    <3>1. Stores(r) /\ SizeOf(r) = Len(r.data)
      BY <2>10 DEF SizeOf
    <3>2. r.data \in Seq(Alphabet) /\ Len(r.data) \in 0..99 /\ CRLF \in Seq(Alphabet)
          /\ Len(r.data) > 0
      <4>1. r.data \in Seq(Alphabet) /\ Len(r.data) \in 0..99
        BY <2>5, <3>1, StoreParts
      <4>2. CRLF \in Seq(Alphabet)
        BY Delimiters DEF CRLF
      <4> QED BY <2>10, <3>1, <4>1, <4>2
    <3>3. x \in Seq(Alphabet) /\ r.data \o (CRLF \o t) = x \o t
      <4>1. x \in Seq(Alphabet)
        BY <3>2, ConcatProperties
      <4>2. Assoc(r.data, CRLF, t)
        BY <2>5, <3>2, Associates
      <4> QED BY <4>1, <4>2 DEF Assoc
    <3>4. Rest = x \o t
      BY <2>7, <3>1, <3>3 DEF FromData
    <3> HIDE DEF x
    <3>5. Pre(x, 0) = <<>> /\ Post(x, 0) = x
      BY <3>3, WholeSequence
    <3>6. remains' = Len(r.data) + 2 - 0 /\ 0 \in 0..(Len(r.data) + 2)
      BY <2>1, <2>7, <3>1, <3>2 DEF ArgumentSize
    <3>7. \E j \in 0..(Len(r.data) + 2) :
            /\ argument' = Pre(x, j) /\ remains' = Len(r.data) + 2 - j
            /\ Rest' = Post(x, j) \o t
      BY <1>1, <1>2, <3>4, <3>5, <3>6
    <3>8. Filling(r, t)'
      BY <2>8, <2>10, <3>7 DEF Filling, x
    <3>9. Filling(Current, After)'
      BY <1>2, <2>4, <3>8
    <3> QED BY <1>1, <2>1, <2>3, <3>9, BuildMakesCommand DEF Aligned
  <2> QED BY <2>9, <2>10
<1> QED BY <1>3, <1>4

(* The data and its delimiter.                                             *)
LEMMA Block ==
  ASSUME NEW r \in Request, SizeOf(r) # 0
  PROVE  /\ Stores(r) /\ r.data \o CRLF \in Seq(Alphabet) /\ Len(r.data) \in Nat
         /\ Len(r.data \o CRLF) = Len(r.data) + 2 /\ r.data # <<>>
<1>1. Stores(r) /\ Len(r.data) # 0
  BY DEF SizeOf
<1>2. r.data \in Seq(Alphabet) /\ Len(r.data) \in 0..99
  BY <1>1, StoreParts
<1>3. CRLF \in Seq(Alphabet) /\ Len(CRLF) = 2
  BY Delimiters DEF CRLF
<1>4. r.data \o CRLF \in Seq(Alphabet) /\ Len(r.data \o CRLF) = Len(r.data) + Len(CRLF)
  BY <1>2, <1>3, ConcatProperties
<1>5. r.data # <<>>
  BY <1>1, <1>2, EmptySeq
<1> QED BY <1>1, <1>2, <1>3, <1>4, <1>5

LEMMA FillAligned ==
  ASSUME Typed, Aligned, FillArgument
  PROVE  Aligned'
<1> DEFINE n == IF command = NoCommand THEN 0
                ELSE IF remains < Len(buf) THEN remains ELSE Len(buf)
<1>1. /\ argument' = argument \o Pre(buf, n) /\ buf' = Post(buf, n)
      /\ remains' = remains - n /\ pc = "fill"
      /\ UNCHANGED <<parser, parsed, requests, unread, running, conn, command, executed>>
  BY DEF FillArgument, Pre, Post
<1>2. /\ buf \in Seq(Byte) /\ buf \in Seq(Alphabet) /\ unread \in Seq(Alphabet)
      /\ Len(buf) \in Nat /\ remains \in Nat /\ argument \in Seq(Byte)
  <2>1. buf \in Seq(Byte) /\ unread \in Seq(Byte) /\ argument \in Seq(Byte)
    BY DEF Typed
  <2>2. Byte \subseteq Alphabet
    BY DEF Alphabet
  <2>3. \A s \in Seq(Byte) : s \in Seq(Alphabet)
    BY <2>2
  <2>4. remains \in Nat
    BY ModulusAssumption DEF Typed
  <2> QED BY <2>1, <2>3, <2>4, LenProperties
<1>3. /\ n \in Nat /\ n <= Len(buf) /\ n <= remains
      /\ command = NoCommand \/ remains = 0 => n = 0
  BY <1>2
<1> HIDE DEF n
<1>4. Current' = Current /\ After' = After
  BY <1>1 DEF Current, After
<1>5. CASE n = 0
  <2>1. Pre(buf, 0) = <<>> /\ Post(buf, 0) = buf
    BY <1>2, WholeSequence
  <2>2. argument' = argument /\ buf' = buf /\ remains' = remains
    <3>1. argument \o <<>> = argument
      BY <1>2, ConcatProperties
    <3> QED BY <1>1, <1>2, <1>5, <2>1, <3>1
  <2>3. Rest' = Rest
    BY <1>1, <2>2 DEF Rest
  <2> QED BY <1>1, <2>2, <2>3, AlignedStays
<1>6. CASE n # 0
  <2>1. command # NoCommand /\ remains # 0
    BY <1>3, <1>6
  <2>2. PICK r, t : r = Current /\ t = After
    OBVIOUS
  <2>3. /\ Len(executed) < Len(requests) /\ Filling(r, t)
    BY <1>1, <2>1, <2>2 DEF Aligned
  <2>4. r \in Request /\ t \in Seq(Alphabet)
    BY <2>2, <2>3, CurrentTyped
  <2>5. SizeOf(r) # 0 /\ CommandOf(r)
    BY <2>1, <2>3 DEF Filling
  <2> DEFINE x == r.data \o CRLF
             m == Len(r.data) + 2
  <2>6. x \in Seq(Alphabet) /\ m \in Nat /\ Len(x) = m
    BY <2>4, <2>5, Block
  <2>7. PICK j \in 0..m : /\ argument = Pre(x, j) /\ remains = m - j
                          /\ Rest = Post(x, j) \o t
    BY SMTT(30), <2>3, <2>5 DEF Filling
  <2> HIDE DEF x, m
  <2>8. /\ j \in 0..Len(x) /\ n \in 0..(Len(x) - j) /\ j + n \in 0..m
        /\ Len(Post(x, j)) = Len(x) - j /\ Post(x, j) \in Seq(Alphabet)
        /\ remains - n = m - (j + n) /\ n <= Len(Post(x, j))
    <3>1. j \in 0..Len(x)
      BY <2>6, <2>7
    <3>2. Len(Post(x, j)) = Len(x) - j /\ Post(x, j) \in Seq(Alphabet)
      BY <2>6, <3>1, Halves
    <3> QED BY <1>3, <2>6, <2>7, <3>1, <3>2
  <2>9. /\ Pre(buf, n) = Pre(Post(x, j), n)
        /\ Post(buf, n) \o unread = Post(Post(x, j), n) \o t
    <3>1. buf \o unread = Post(x, j) \o t
      BY <2>7 DEF Rest
    <3> DEFINE p == Post(x, j)
    <3>2. buf \o unread = p \o t /\ p \in Seq(Alphabet) /\ n <= Len(p)
      BY <2>8, <3>1
    <3> HIDE DEF p
    <3>3. /\ buf \in Seq(Alphabet) /\ unread \in Seq(Alphabet) /\ t \in Seq(Alphabet)
          /\ n \in Nat /\ n <= Len(buf)
      BY <1>2, <1>3, <2>4
    <3>4. SameAfter(buf, unread, p, t, n)
      BY <3>2, <3>3, SameStream
    <3> QED BY <3>4 DEF p, SameAfter
  <2>10. /\ Pre(x, j) \o Pre(Post(x, j), n) = Pre(x, j + n)
         /\ Post(Post(x, j), n) = Post(x, j + n)
    BY <2>6, <2>8, HalvesAdd
  <2>11. /\ argument' = Pre(x, j + n) /\ remains' = m - (j + n)
         /\ Rest' = Post(x, j + n) \o t
    <3>1. Rest' = Post(buf, n) \o unread
      BY <1>1 DEF Rest
    <3> QED BY <1>1, <2>7, <2>8, <2>9, <2>10, <3>1
  <2>12. \E i \in 0..m : /\ argument' = Pre(x, i) /\ remains' = m - i
                         /\ Rest' = Post(x, i) \o t
    BY <2>8, <2>11
  <2>13. CommandOf(r)'
    BY <1>1, <2>5 DEF CommandOf
  <2>14. Filling(r, t)'
    <3>1. \E i \in 0..(Len(r.data) + 2) :
            /\ argument' = Pre(r.data \o CRLF, i) /\ remains' = Len(r.data) + 2 - i
            /\ Rest' = Post(r.data \o CRLF, i) \o t
      <4>1. x = r.data \o CRLF /\ m = Len(r.data) + 2
        BY DEF x, m
      <4>2. PICK i \in 0..m : /\ argument' = Pre(x, i) /\ remains' = m - i
                              /\ Rest' = Post(x, i) \o t
        BY <2>12
      <4>3. i \in 0..(Len(r.data) + 2) /\ remains' = Len(r.data) + 2 - i
        BY <4>1, <4>2
      <4>4. argument' = Pre(r.data \o CRLF, i) /\ Rest' = Post(r.data \o CRLF, i) \o t
        BY <4>1, <4>2
      <4> QED BY <4>3, <4>4
    <3> QED BY <2>5, <2>13, <3>1 DEF Filling
  <2>15. Filling(Current, After)'
    BY <1>4, <2>2, <2>14
  <2> QED BY <1>1, <2>1, <2>3, <2>15 DEF Aligned
<1> QED BY <1>5, <1>6

(* What is executed is what was sent, and the stream is left at the next   *)
(* request.                                                                *)
LEMMA RunAligned ==
  ASSUME IInv, Typed, Places, Aligned, Outcomes, Explained, RunCommand
  PROVE  Aligned' /\ Outcomes' /\ Explained'
<1> DEFINE e == [command |-> command, argument |-> argument]
<1>1. /\ pc = "run" /\ executed' = Append(executed, e)
      /\ UNCHANGED <<requests, unread, running>> /\ command # NoCommand /\ remains = 0
      /\ conn = "open"
  BY DEF RunCommand, RunCommandThen, IInv, Places
<1>2. PICK r, t : r = Current /\ t = After
  OBVIOUS
<1>3. Len(executed) < Len(requests) /\ Filling(r, t) /\ r \in Request /\ t \in Seq(Alphabet)
  <2>1. Len(executed) < Len(requests) /\ Filling(r, t)
    BY <1>1, <1>2 DEF Aligned
  <2> QED BY <1>2, <2>1, CurrentTyped
<1>4. /\ SizeOf(r) = 0 => argument = <<>> /\ Rest = FromData(r, t)
      /\ SizeOf(r) # 0 => argument = r.data \o CRLF /\ Rest = t
  <2>1. CASE SizeOf(r) = 0
    BY <1>3, <2>1 DEF Filling
  <2>2. CASE SizeOf(r) # 0
    <3> DEFINE x == r.data \o CRLF
    <3>1. x \in Seq(Alphabet) /\ Len(r.data) \in Nat /\ Len(x) = Len(r.data) + 2
      BY <1>3, <2>2, Block
    <3>2. PICK j \in 0..(Len(r.data) + 2) :
            /\ argument = Pre(x, j) /\ remains = Len(r.data) + 2 - j
            /\ Rest = Post(x, j) \o t
      BY <1>3, <2>2 DEF Filling
    <3> HIDE DEF x
    <3>3. j = Len(x)
      BY <1>1, <3>1, <3>2
    <3>4. Pre(x, j) = x /\ Post(x, j) = <<>>
      BY <3>1, <3>3, WholeSequence
    <3>5. <<>> \o t = t
      BY <1>3, ConcatProperties
    <3>6. argument = x /\ Rest = t
      BY <3>2, <3>4, <3>5
    <3> QED BY <2>2, <3>6 DEF x
  <2> QED BY <2>1, <2>2
<1>5. Outcome(e, r)
  <2>1. e.command = command /\ e.argument = argument
    OBVIOUS
  <2> HIDE DEF e
  <2>2. CommandOf(r)
    BY <1>3 DEF Filling
  <2>3. SizeOf(r) = 0 <=> ~Stores(r) \/ EmptyBlock(r)
    <3>1. CASE SizeOf(r) # 0
      BY <1>3, <3>1, Block DEF EmptyBlock
    <3>2. CASE SizeOf(r) = 0 /\ Stores(r)
      <4>1. r.data \in Seq(Alphabet) /\ Len(r.data) = 0
        BY <1>3, <3>2, StoreParts DEF SizeOf
      <4>2. r.data = <<>>
        BY <4>1, EmptySeq
      <4> QED BY <3>2, <4>2 DEF EmptyBlock
    <3>3. CASE ~Stores(r)
      BY <3>3 DEF SizeOf
    <3> QED BY <3>1, <3>2, <3>3
  <2>4. e.argument = IF ~Stores(r) \/ EmptyBlock(r) THEN <<>> ELSE r.data \o CRLF
    BY <1>4, <2>1, <2>3
  <2> QED BY <2>1, <2>2, <2>4 DEF Outcome, CommandOf, FlagsOf
<1> HIDE DEF e
<1>6. /\ Len(executed) \in Nat /\ Len(requests) \in Nat /\ requests \in Seq(Request)
      /\ executed' \in Seq(Range(executed) \cup {e}) /\ Len(executed') = Len(executed) + 1
      /\ executed'[Len(executed) + 1] = e
      /\ \A i \in 1..Len(executed) : executed'[i] = executed[i]
  <2>1. executed \in Seq(Range(executed) \cup {e}) /\ requests \in Seq(Request)
    BY DEF Typed
  <2>2. Len(executed) \in Nat /\ Len(requests) \in Nat
    BY <2>1, LenProperties
  <2>3. /\ Append(executed, e) \in Seq(Range(executed) \cup {e})
        /\ Len(Append(executed, e)) = Len(executed) + 1
        /\ Append(executed, e)[Len(executed) + 1] = e
        /\ \A i \in 1..Len(executed) : Append(executed, e)[i] = executed[i]
    BY <2>1, AppendProperties
  <2> QED BY <1>1, <2>1, <2>2, <2>3
<1>7. Outcomes'
  <2>1. Len(executed') <= Len(requests')
    BY <1>1, <1>3, <1>6
  <2>2. ASSUME NEW i \in DOMAIN executed' PROVE Outcome(executed'[i], requests'[i])
    <3>1. i \in 1..(Len(executed) + 1)
      BY <1>6
    <3>2. CASE i = Len(executed) + 1
      BY <1>1, <1>2, <1>5, <1>6, <3>2 DEF Current
    <3>3. CASE i \in 1..Len(executed)
      <4>1. i \in DOMAIN executed
        <5>1. executed \in Seq(Range(executed))
          BY DEF Typed
        <5> QED BY <3>3, <5>1
      <4> QED BY <1>1, <1>6, <3>3, <4>1 DEF Outcomes
    <3> QED BY <1>6, <3>1, <3>2, <3>3
  <2> QED BY <2>1, <2>2 DEF Outcomes
<1>8. CASE Close("lost")
  BY <1>7, <1>8 DEF Close, Aligned, Explained
<1>9. CASE ~Close("lost")
  <2>1. /\ command' = NoCommand /\ parser' = Reset(parser) /\ pc' = "loop" /\ buf' = buf
        /\ conn' = conn
    BY <1>9 DEF RunCommand, RunCommandThen
  <2>2. Explained'
    BY <1>1, <2>1 DEF Explained
  <2>3. parser' \in FreshParser
    <3>1. parser.negative \in BOOLEAN
      BY DEF Typed, ParserType
    <3>2. Reset(parser) = Reset([negative |-> parser.negative, keys |-> <<>>])
      BY DEF Reset
    <3> QED BY <2>1, <3>1, <3>2 DEF FreshParser
  <2>4. Rest' = Rest
    BY <1>1, <2>1 DEF Rest
  <2>5. Stream(Ahead)' = t
    <3>1. Ahead' = Post(requests, Len(executed) + 1)
      BY <1>1, <1>6 DEF Ahead
    <3>2. Stream(Ahead)' = Stream(Ahead')
      BY DEF Stream
    <3> QED BY <1>2, <3>1, <3>2 DEF After
  <2>6. Between'
    <3>1. CASE SizeOf(r) = 0 /\ EmptyBlock(r)
      <4>1. Rest' = r.data \o (CRLF \o t) /\ r.data = <<>>
        BY <1>4, <2>4, <3>1 DEF FromData, EmptyBlock
      <4>2. CRLF \o t \in Seq(Alphabet)
        <5>1. CRLF \in Seq(Alphabet)
          BY Delimiters DEF CRLF
        <5> QED BY <1>3, <5>1, ConcatProperties
      <4>3. <<>> \o (CRLF \o t) = CRLF \o t
        BY <4>2, ConcatProperties
      <4>4. Rest' = CRLF \o Stream(Ahead)'
        BY <2>5, <4>1, <4>3
      <4>5. executed' # <<>> /\ EmptyBlock(requests'[Len(executed')])
        <5>1. executed' # <<>>
          BY <1>6, EmptySeq
        <5> QED BY <1>1, <1>2, <1>6, <3>1, <5>1 DEF Current
      <4> QED BY <2>3, <4>4, <4>5 DEF Between
    <3>2. CASE SizeOf(r) = 0 /\ ~EmptyBlock(r)
      <4>1. ~Stores(r)
        <5> SUFFICES ASSUME Stores(r) PROVE FALSE
          OBVIOUS
        <5>1. r.data \in Seq(Alphabet) /\ Len(r.data) = 0
          BY <1>3, <3>2, StoreParts DEF SizeOf
        <5>2. r.data = <<>>
          BY <5>1, EmptySeq
        <5> QED BY <3>2, <5>2 DEF EmptyBlock
      <4>2. Rest' = Stream(Ahead)'
        BY <1>4, <2>4, <2>5, <3>2, <4>1 DEF FromData
      <4> QED BY <2>3, <4>2 DEF Between
    <3>3. CASE SizeOf(r) # 0
      BY <1>4, <2>3, <2>4, <2>5, <3>3 DEF Between
    <3> QED BY <3>1, <3>2, <3>3
  <2> QED BY <1>7, <2>1, <2>2, <2>6 DEF Aligned
<1> QED BY <1>8, <1>9

(* The handler is where the stream says, what is executed is what was      *)
(* sent, and a refusal has a cause.                                        *)
Sound == Aligned /\ Outcomes /\ Explained

LEMMA InitSound == Init => Sound
<1> SUFFICES ASSUME Init PROVE Sound
  OBVIOUS
<1>1. requests \in Seq(Request) /\ unread \in Seq(Byte)
  BY InitTyped DEF Typed
<1>2. buf = <<>> /\ executed = <<>> /\ command = NoCommand /\ parser \in FreshParser
      /\ conn = "open"
  BY DEF Init
<1>3. Len(executed) = 0 /\ Len(requests) \in Nat
  BY <1>1, <1>2, LenProperties
<1>4. Rest = Stream(Ahead)
  <2>1. Ahead = requests
    BY <1>1, <1>3, WholeSequence DEF Ahead
  <2>2. unread = Stream(requests)
    BY DEF Init, Stream
  <2>3. <<>> \o unread = unread
    BY <1>1, ConcatProperties
  <2> QED BY <1>2, <2>1, <2>2, <2>3 DEF Rest
<1>5. Between
  BY <1>2, <1>4 DEF Between
<1>6. Outcomes
  BY <1>2, <1>3 DEF Outcomes
<1> QED BY <1>2, <1>5, <1>6 DEF Sound, Aligned, Explained

(* A close for another reason than a refusal, and no command executed.     *)
LEMMA CloseSound ==
  ASSUME Sound, NEW reason \in {"stopped", "lost"}, Close(reason),
         UNCHANGED <<requests, executed>>
  PROVE  Sound'
<1>1. pc' = "done" /\ conn' = reason
  BY DEF Close
<1> QED BY <1>1 DEF Sound, Aligned, Outcomes, Explained

LEMMA NextSound == IInv /\ Typed /\ Places /\ Sound /\ [Next]_vars => Sound'
<1> SUFFICES ASSUME IInv, Typed, Places, Sound, [Next]_vars PROVE Sound'
  OBVIOUS
<1>0. Aligned /\ Outcomes /\ Explained
  BY DEF Sound
<1>a. ASSUME UNCHANGED <<requests, executed>> PROVE Outcomes'
  BY <1>0, <1>a DEF Outcomes
<1>b. ASSUME UNCHANGED <<requests, executed, conn>> PROVE Explained'
  BY <1>0, <1>b DEF Explained, RefusedNext
<1>c. ASSUME pc # "done", Rest' = Rest,
             UNCHANGED <<parser, requests, executed, session, conn>>
      PROVE  Sound'
  <2>1. Aligned'
    BY <1>0, <1>c, AlignedStays DEF session
  <2> QED BY <1>a, <1>b, <1>c, <2>1 DEF Sound
<1>1. CASE Stop
  <2>1. UNCHANGED <<parser, buf, parsed, requests, unread, pc, conn, session, executed>>
    BY <1>1 DEF Stop
  <2>2. CASE pc = "done"
    BY <1>a, <1>b, <2>1, <2>2 DEF Sound, Aligned
  <2>3. CASE pc # "done"
    BY <1>c, <2>1, <2>3 DEF Rest
  <2> QED BY <2>2, <2>3
<1>2. ASSUME NEW n \in 1..BufSize, n <= Len(unread), ReadBytes(n) PROVE Sound'
  <2>1. pc = "read" /\ unread' = Post(unread, n) /\ UNCHANGED <<requests, running, executed>>
    BY <1>2 DEF ReadBytes, ReadBytesIf, Post
  <2>2. CASE Close("stopped")
    BY <2>1, <2>2, CloseSound
  <2>3. CASE ~Close("stopped")
    <3>1. buf' = Pre(unread, n) /\ UNCHANGED <<parser, parsed, conn, session>>
      BY <1>2, <2>3 DEF ReadBytes, ReadBytesIf, Pre
    <3>2. Rest' = Rest
      <4>1. unread \in Seq(Byte) /\ n \in 0..Len(unread) /\ buf = <<>>
        BY <1>2, <2>1, LenProperties, BufferAssumption DEF Typed, Places
      <4>2. Pre(unread, n) \o Post(unread, n) = unread
        BY <4>1, HalvesJoin
      <4>3. <<>> \o unread = unread
        BY <4>1, ConcatProperties
      <4> QED BY <2>1, <3>1, <4>1, <4>2, <4>3 DEF Rest
    <3> QED BY <1>c, <2>1, <3>1, <3>2
  <2> QED BY <2>2, <2>3
<1>3. CASE ReadEnds
  BY <1>3, CloseSound DEF ReadEnds
<1>4. CASE Loop
  BY <1>4, <1>c DEF Loop, Rest
<1>5. CASE Parse
  <2>1. Aligned'
    BY <1>0, <1>5, ParseAligned
  <2>2. UNCHANGED <<requests, executed, conn>>
    BY <1>5 DEF Parse
  <2> QED BY <1>a, <1>b, <2>1, <2>2 DEF Sound
<1>6. CASE ParseFails
  <2>1. Explained'
    BY <1>0, <1>6, ParseFailsRefused
  <2>2. pc' = "done" /\ UNCHANGED <<requests, executed>>
    BY <1>6 DEF ParseFails, Close
  <2> QED BY <1>a, <2>1, <2>2 DEF Sound, Aligned
<1>7. CASE Parsed
  <2>1. Aligned'
    BY <1>0, <1>7, ParsedAligned
  <2>2. UNCHANGED <<requests, executed, conn>>
    BY <1>7 DEF Parsed
  <2> QED BY <1>a, <1>b, <2>1, <2>2 DEF Sound
<1>8. CASE FillArgument
  <2>1. Aligned'
    BY <1>0, <1>8, FillAligned
  <2>2. UNCHANGED <<requests, executed, conn>>
    BY <1>8 DEF FillArgument
  <2> QED BY <1>a, <1>b, <2>1, <2>2 DEF Sound
<1>9. CASE RunCommand
  BY <1>0, <1>9, RunAligned DEF Sound
<1>10. CASE UNCHANGED vars
  <2>1. UNCHANGED <<parser, buf, parsed, requests, unread, pc, conn, session, executed>>
    BY <1>10 DEF vars
  <2>2. CASE pc = "done"
    BY <1>a, <1>b, <2>1, <2>2 DEF Sound, Aligned
  <2>3. CASE pc # "done"
    BY <1>c, <2>1, <2>3 DEF Rest
  <2> QED BY <2>2, <2>3
<1> QED
  BY <1>1, <1>2, <1>3, <1>4, <1>5, <1>6, <1>7, <1>8, <1>9, <1>10
  DEF Next, ProcessConnection

(* What is left of the stream is never empty inside a request.             *)
LEMMA ReadingLeavesRest ==
  ASSUME NEW r \in Request, NEW t \in Seq(Alphabet), Reading(r, t),
         ~parser.parse_complete
  PROVE  Rest # <<>>
<1>1. \A x \in Seq(Alphabet), y \in Seq(Alphabet), c \in Alphabet : x \o (<<c>> \o y) # <<>>
  <2> SUFFICES ASSUME NEW x \in Seq(Alphabet), NEW y \in Seq(Alphabet), NEW c \in Alphabet
               PROVE  x \o (<<c>> \o y) # <<>>
    OBVIOUS
  <2>1. <<c>> \in Seq(Alphabet) /\ Len(<<c>>) = 1
    OBVIOUS
  <2>2. <<c>> \o y \in Seq(Alphabet) /\ Len(<<c>> \o y) = 1 + Len(y)
    BY <2>1, ConcatProperties
  <2>3. Len(x \o (<<c>> \o y)) = Len(x) + (1 + Len(y))
    BY <2>2, ConcatProperties
  <2>4. Len(x) \in Nat /\ Len(y) \in Nat
    BY LenProperties
  <2>5. Len(x \o (<<c>> \o y)) # 0
    BY <2>3, <2>4
  <2> QED BY <2>5, EmptySeq
<1>2. ASSUME NEW s \in Seq(Alphabet), NEW j \in 0..Len(s), NEW z \in Seq(Alphabet),
             NEW y \in Seq(Alphabet), NEW c \in Alphabet, z = <<c>> \o y,
             Rest = Post(s, j) \o z
      PROVE  Rest # <<>>
  <2>1. Post(s, j) \in Seq(Alphabet)
    BY Halves
  <2> QED BY <1>1, <1>2, <2>1
<1>3. <<LF>> \o FromData(r, t) \in Seq(Alphabet)
  BY RestTyped, Delimiters, ConcatProperties
<1>4. FromCR(r, t) = <<CR>> \o (<<LF>> \o FromData(r, t)) /\ FromCR(r, t) \in Seq(Alphabet)
  BY RestTyped DEF FromCR
<1>0. \A x, y, z \in Seq(Alphabet) : Assoc(x, y, z)
  BY Associates
<1>5. CASE InName(r, t)
  <2>1. CASE Stores(r)
    <3>1. r.keys[1] \o FromFlags(r, t) \in Seq(Alphabet)
      BY <2>1, StoreParts, RestTyped, ConcatProperties
    <3>2. Rest = <<SP>> \o (r.keys[1] \o FromFlags(r, t))
      BY <1>5, <2>1 DEF InName, FromName
    <3> QED BY <3>1, <3>2, Delimiters, TakeFirst
  <2>2. CASE ~Stores(r)
    <3> DEFINE k == FlattenSeq(Spaced(r.keys))
    <3>1. k \in Seq(Alphabet)
      BY RequestParts, SpacedFacts, FlattenTyped
    <3>2. Rest = k \o FromCR(r, t)
      BY <1>5, <2>2 DEF InName, FromName, FromKeys
    <3> HIDE DEF k
    <3> QED BY <1>1, <1>3, <1>4, <3>1, <3>2, Delimiters
  <2> QED BY <2>1, <2>2
<1>6. CASE InStoreKey(r, t)
  <2> DEFINE k == r.keys[1]
             y == r.flags \o FromExprTime(r, t)
             z == FromFlags(r, t)
  <2>1. Stores(r)
    BY <1>6 DEF InStoreKey
  <2>2. k \in Seq(Alphabet) /\ y \in Seq(Alphabet) /\ z \in Seq(Alphabet)
    BY <2>1, StoreParts, RestTyped, ConcatProperties
  <2>3. PICK j \in 0..Len(k) : Rest = Post(k, j) \o z
    BY <1>6 DEF InStoreKey
  <2>4. z = <<SP>> \o y
    BY DEF FromFlags
  <2> HIDE DEF k, y, z
  <2> QED BY <1>2, <2>2, <2>3, <2>4, Delimiters
<1>7. CASE InFlags(r, t)
  <2> DEFINE k == r.flags
             y == r.exprtime \o FromBytes(r, t)
             z == FromExprTime(r, t)
  <2>1. Stores(r)
    BY <1>7 DEF InFlags
  <2>2. k \in Seq(Alphabet) /\ y \in Seq(Alphabet) /\ z \in Seq(Alphabet)
    BY <2>1, StoreParts, RestTyped, ConcatProperties
  <2>3. PICK j \in 0..Len(k) : Rest = Post(k, j) \o z
    BY <1>7 DEF InFlags
  <2>4. z = <<SP>> \o y
    BY DEF FromExprTime
  <2> HIDE DEF k, y, z
  <2> QED BY <1>2, <2>2, <2>3, <2>4, Delimiters
<1>8. CASE InExprTimeStart(r, t)
  <2> DEFINE x == r.exprtime
             y == Decimal(Len(r.data)) \o FromCR(r, t)
             z == FromBytes(r, t)
  <2>1. Stores(r) /\ Rest = x \o z
    BY <1>8 DEF InExprTimeStart
  <2>2. x \in Seq(Alphabet) /\ y \in Seq(Alphabet)
    BY <2>1, StoreParts, RestTyped, ConcatProperties
  <2>3. z = <<SP>> \o y
    BY DEF FromBytes
  <2> HIDE DEF x, y, z
  <2> QED BY <1>1, <2>1, <2>2, <2>3, Delimiters
<1>9. CASE InExprTime(r, t)
  <2> DEFINE k == r.exprtime
             y == Decimal(Len(r.data)) \o FromCR(r, t)
             z == FromBytes(r, t)
  <2>1. Stores(r)
    BY <1>9 DEF InExprTime
  <2>2. k \in Seq(Alphabet) /\ y \in Seq(Alphabet) /\ z \in Seq(Alphabet)
    BY <2>1, StoreParts, RestTyped, ConcatProperties
  <2>3. PICK j \in 1..Len(k) : Rest = Post(k, j) \o z
    BY <1>9 DEF InExprTime
  <2>4. z = <<SP>> \o y
    BY DEF FromBytes
  <2> HIDE DEF k, y, z
  <2>5. j \in 0..Len(k)
    BY <2>2, LenProperties
  <2> QED BY <1>2, <2>2, <2>3, <2>4, <2>5, Delimiters
<1>10. CASE InBytes(r, t)
  <2> DEFINE k == Decimal(Len(r.data))
  <2>1. Stores(r)
    BY <1>10 DEF InBytes
  <2>2. k \in Seq(Alphabet)
    BY <2>1, StoreParts
  <2>3. PICK j \in 0..Len(k) : Rest = Post(k, j) \o FromCR(r, t)
    BY <1>10 DEF InBytes
  <2> HIDE DEF k
  <2> QED BY <1>2, <1>3, <1>4, <2>2, <2>3, Delimiters
<1>11. CASE InGetKey(r, t)
  <2>1. PICK i \in 1..Len(r.keys) : \E j \in 0..Len(r.keys[i]) :
          Rest = Post(r.keys[i], j) \o FromKeys(Post(r.keys, i), r, t)
    BY <1>11 DEF InGetKey
  <2>2. PICK j \in 0..Len(r.keys[i]) :
          Rest = Post(r.keys[i], j) \o FromKeys(Post(r.keys, i), r, t)
    BY <2>1
  <2> DEFINE k == r.keys[i]
             f == FlattenSeq(Spaced(Post(r.keys, i)))
  <2>3. r.keys \in Seq(Seq(Alphabet)) /\ Len(r.keys) \in Nat
    BY RequestParts, LenProperties
  <2>4. k \in Seq(Alphabet) /\ i \in 0..Len(r.keys)
    BY <2>3, LenProperties
  <2>5. Post(r.keys, i) \in Seq(Seq(Alphabet))
    BY <2>3, <2>4, Halves
  <2>6. f \in Seq(Alphabet)
    BY <2>5, SpacedFacts, FlattenTyped
  <2>7. Rest = Post(k, j) \o (f \o FromCR(r, t))
    BY <2>2 DEF FromKeys
  <2>8. j \in 0..Len(k)
    BY <2>2
  <2> HIDE DEF k, f
  <2>9. Post(k, j) \in Seq(Alphabet)
    BY <2>4, <2>8, Halves
  <2>10. /\ Post(k, j) \o f \in Seq(Alphabet)
         /\ Rest = (Post(k, j) \o f) \o FromCR(r, t)
    <3> DEFINE p == Post(k, j)
               z == FromCR(r, t)
    <3>1. p \in Seq(Alphabet) /\ z \in Seq(Alphabet) /\ Rest = p \o (f \o z)
      BY <1>4, <2>7, <2>9
    <3> HIDE DEF p, z
    <3>2. p \o f \in Seq(Alphabet)
      BY <2>6, <3>1, ConcatProperties
    <3>3. Assoc(p, f, z)
      BY <1>0, <2>6, <3>1
    <3> QED BY <3>1, <3>2, <3>3 DEF p, z, Assoc
  <2> QED BY <1>1, <1>3, <1>4, <2>10, Delimiters
<1>12. CASE InLF(r, t)
  <2>1. Rest = <<LF>> \o FromData(r, t)
    BY <1>12 DEF InLF
  <2> QED BY <2>1, RestTyped, Delimiters, TakeFirst
<1> QED BY <1>5, <1>6, <1>7, <1>8, <1>9, <1>10, <1>11, <1>12 DEF Reading

(* The server waits for input and the client has sent all of its: the      *)
(* stream is at its end, and that is after the last request.               *)
LEMMA NothingLeft == IInv /\ Typed /\ Places /\ Sound => NothingLost
<1> SUFFICES ASSUME IInv, Typed, Places, Sound, pc = "read", unread = <<>>
             PROVE  Len(executed) = Len(requests)
  BY DEF NothingLost
<1>1. Rest = <<>>
  <2>1. buf = <<>>
    BY DEF Places
  <2>2. <<>> \o <<>> = <<>>
    OBVIOUS
  <2> QED BY <2>1, <2>2 DEF Rest
<1>2. requests \in Seq(Request) /\ Len(executed) \in Nat /\ Len(requests) \in Nat
      /\ Len(executed) <= Len(requests)
  <2>1. requests \in Seq(Request) /\ executed \in Seq(Range(executed))
    BY DEF Typed
  <2> QED BY <2>1, LenProperties DEF Sound, Outcomes
<1>3. SUFFICES ASSUME Len(executed) < Len(requests) PROVE FALSE
  BY <1>2
<1>0. PICK r, t : r = Current /\ t = After
  OBVIOUS
<1>4. /\ r \in Request /\ t \in Seq(Alphabet)
      /\ Stream(Ahead) = <<r.name>> \o FromName(r, t)
  BY <1>0, <1>3, CurrentTyped
<1>5. CASE Between
  <2>1. FromName(r, t) \in Seq(Alphabet) /\ r.name \in Alphabet
    BY <1>4, RestTyped, RequestParts
  <2>2. Stream(Ahead) # <<>> /\ Stream(Ahead) \in Seq(Alphabet)
    <3>1. Stream(Ahead) # <<>>
      BY <1>4, <2>1, TakeFirst
    <3>2. <<r.name>> \in Seq(Alphabet)
      BY <2>1
    <3> QED BY <1>4, <2>1, <3>1, <3>2, ConcatProperties
  <2>3. CRLF \o Stream(Ahead) # <<>>
    <3> DEFINE z == Stream(Ahead)
    <3>1. z \in Seq(Alphabet) /\ CRLF \in Seq(Alphabet) /\ Len(CRLF) = 2
      BY <2>2, Delimiters DEF CRLF
    <3> HIDE DEF z
    <3>2. Len(CRLF \o z) = 2 + Len(z) /\ Len(z) \in Nat
      <4>1. Len(CRLF \o z) = Len(CRLF) + Len(z)
        BY <3>1, ConcatProperties
      <4>2. Len(z) \in Nat
        BY <3>1, LenProperties
      <4> QED BY <3>1, <4>1, <4>2
    <3>3. Len(CRLF \o z) # 0
      BY <3>2
    <3>4. CRLF \o z # <<>>
      BY <3>3, EmptySeq
    <3> QED BY <3>4 DEF z
  <2> QED BY <1>1, <1>5, <2>2, <2>3 DEF Between
<1>6. CASE command = NoCommand /\ Reading(Current, After)
  <2>1. ~parser.parse_complete
    BY <1>6 DEF IInv
  <2> QED BY <1>0, <1>1, <1>4, <1>6, <2>1, ReadingLeavesRest
<1>7. CASE command # NoCommand /\ Filling(Current, After)
  <2>1. remains > 0
    BY <1>7 DEF Places
  <2>2. SizeOf(r) # 0
    BY <1>0, <1>7, <2>1 DEF Filling
  <2> DEFINE x == r.data \o CRLF
             m == Len(r.data) + 2
  <2>3. x \in Seq(Alphabet) /\ m \in Nat /\ Len(x) = m
    BY <1>4, <2>2, Block
  <2>4. PICK j \in 0..m : remains = m - j /\ Rest = Post(x, j) \o t
    <3>1. Filling(r, t)
      BY <1>0, <1>7
    <3> QED BY <2>2, <3>1 DEF Filling
  <2> HIDE DEF x, m
  <2>5. j \in 0..(Len(x) - 1)
    BY <2>1, <2>3, <2>4
  <2> QED BY <1>1, <1>4, <2>3, <2>4, <2>5, TakeOne
<1> QED BY <1>5, <1>6, <1>7 DEF Sound, Aligned

LEMMA OneDigit ==
  ASSUME NEW s \in Seq(Digit), Len(s) = 1 PROVE Value(s) = DigitValue[s[1]]
<1>1. s[1] \in Digit /\ DigitValue[s[1]] \in Nat
  <2>1. s[1] \in Digit
    BY LenProperties
  <2> QED BY <2>1, DigitNumber
<1>2. Value(Pre(s, 0 + 1)) = Value(Pre(s, 0)) * 10 + DigitValue[s[0 + 1]]
  <2>1. 0 \in 0..(Len(s) - 1)
    OBVIOUS
  <2> QED BY <2>1, ValueFacts
<1>3. Value(Pre(s, 0)) = 0
  BY ValueFacts
<1>4. Pre(s, 1) = s
  BY WholeSequence
<1>5. Value(s) = 0 * 10 + DigitValue[s[1]]
  BY <1>2, <1>3, <1>4
<1> QED BY <1>1, <1>5

LEMMA SingleDigit ==
  ASSUME NEW s \in Seq(Alphabet), Len(s) = 1, s[1] \in Digit PROVE s \in Seq(Digit)
<1>1. <<s[1]>> \in Seq(Digit) /\ Len(<<s[1]>>) = 1 /\ <<s[1]>>[1] = s[1]
  OBVIOUS
<1>2. Digit \subseteq Alphabet
  BY DEF Alphabet
<1>3. <<s[1]>> \in Seq(Alphabet)
  BY <1>2
<1>4. s = <<s[1]>>
  BY <1>1, <1>3, SeqEqual
<1> QED BY <1>1, <1>4

LEMMA SmallModulo == \A n \in Nat : n < Modulus => n % Modulus = n
<1> SUFFICES ASSUME NEW n \in Nat, n < Modulus PROVE n % Modulus = n
  OBVIOUS
<1>1. Modulus \in Nat \ {0}
  BY ModulusAssumption
<1>2. n = Modulus * 0 + n
  BY <1>1
<1> QED BY <1>1, <1>2

(* An expiration time of one digit.                                        *)
LEMMA OneDigitTime ==
  ASSUME NEW x \in Seq(Alphabet), x # <<>>, Len(x) = 1 => x[1] \in Digit,
         \A j \in 2..Len(x) : x[j] \in Digit, Len(Unsigned(x)) = 1
  PROVE  \/ Len(x) = 1 /\ ExprTime(x) = DigitValue[x[1]]
         \/ Len(x) = 2 /\ x[1] = "-" /\ ExprTime(x) = -DigitValue[x[2]]
<1>1. Len(x) \in Nat
  BY LenProperties
<1>2. CASE x[1] = "-"
  <2> DEFINE y == Tail(x)
  <2>1. Unsigned(x) = y /\ Len(y) = 1
    BY <1>2 DEF Unsigned
  <2>2. y \in Seq(Alphabet) /\ Len(y) = Len(x) - 1
    BY HeadTailProperties
  <2>3. \A i \in 1..Len(y) : y[i] = x[i + 1]
    BY HeadTailProperties
  <2> HIDE DEF y
  <2>4. Len(x) = 2
    <3> DEFINE n == Len(x)
    <3>1. n \in Nat /\ 1 = n - 1
      BY <1>1, <2>1, <2>2
    <3> HIDE DEF n
    <3>2. n = 2
      BY <3>1
    <3> QED BY <3>2 DEF n
  <2>5. y[1] = x[2]
    <3>1. 1 \in 1..Len(y)
      BY <2>1
    <3>2. y[1] = x[1 + 1]
      BY <2>3, <3>1
    <3> QED BY <3>2
  <2>6. y[1] \in Digit
    BY <2>4, <2>5
  <2>7. y \in Seq(Digit)
    BY <2>1, <2>2, <2>6, SingleDigit
  <2>8. Value(y) = DigitValue[x[2]]
    BY <2>1, <2>5, <2>7, OneDigit
  <2>9. ExprTime(x) = -Value(y)
    BY <1>2, <2>1 DEF ExprTime
  <2> QED BY <1>2, <2>4, <2>8, <2>9
<1>3. CASE x[1] # "-"
  <2>1. Len(x) = 1 /\ x[1] \in Digit
    BY <1>3 DEF Unsigned
  <2>2. x \in Seq(Digit)
    BY <2>1, SingleDigit
  <2>3. Value(x) = DigitValue[x[1]]
    BY <2>1, <2>2, OneDigit
  <2>4. ExprTime(x) = Value(x)
    BY <1>3 DEF ExprTime
  <2> QED BY <2>1, <2>3, <2>4
<1> QED BY <1>2, <1>3

(* What the code makes of a request is the request.                        *)
LEMMA OutcomeFrames ==
  ASSUME NEW r \in Request, NEW e, Outcome(e, r) PROVE Frames(e, r)
<1>1. CASE ~Stores(r)
  BY <1>1 DEF Outcome, Frames, FlagsOf, ExprTimes
<1>2. CASE Stores(r)
  <2>1. e.argument \in {r.data, r.data \o CRLF}
    <3>1. CASE EmptyBlock(r)
      BY <3>1 DEF Outcome, EmptyBlock
    <3>2. CASE ~EmptyBlock(r)
      BY <1>2, <3>2 DEF Outcome
    <3> QED BY <3>1, <3>2
  <2>2. ASSUME Value(r.flags) < Modulus PROVE e.command.flags = Value(r.flags)
    <3>1. Value(r.flags) \in Nat
      BY <1>2, StoreParts, ValueFacts
    <3> QED BY <1>2, <2>2, <3>1, SmallModulo DEF Outcome, FlagsOf
  <2>3. PICK x : x = r.exprtime
    OBVIOUS
  <2>4. /\ x \in Seq(Alphabet) /\ x # <<>> /\ (Len(x) = 1 => x[1] \in Digit)
        /\ \A j \in 2..Len(x) : x[j] \in Digit
    BY <1>2, <2>3, StoreParts
  <2>5. e.command.expire \in
          CASE Len(x) = 1 -> {DigitValue[x[1]]}
            [] Len(x) = 2 /\ x[1] = "-" -> {-DigitValue[x[2]]}
            [] OTHER -> Int
    BY <1>2, <2>3 DEF Outcome, ExprTimes
  <2>6. ASSUME Len(Unsigned(x)) = 1 PROVE e.command.expire = ExprTime(x)
    <3>1. \/ Len(x) = 1 /\ ExprTime(x) = DigitValue[x[1]]
          \/ Len(x) = 2 /\ x[1] = "-" /\ ExprTime(x) = -DigitValue[x[2]]
      BY <2>4, <2>6, OneDigitTime
    <3>2. CASE Len(x) = 1
      BY <2>5, <3>1, <3>2
    <3>3. CASE Len(x) = 2 /\ x[1] = "-"
      BY <2>5, <3>1, <3>3
    <3> QED BY <3>1, <3>2, <3>3
  <2> QED BY <1>2, <2>1, <2>2, <2>3, <2>6 DEF Outcome, Frames
<1> QED BY <1>1, <1>2

(* However the reads cut the input, the commands executed are the first    *)
(* requests the client sent, in order, each with its own keys, numbers and *)
(* data (ServerImpl.cpp:105-158, Parser.cpp:23-162).                       *)
THEOREM FramingKeptCorrect == Spec => []FramingKept
<1>1. Typed /\ Sound => FramingKept
  <2> SUFFICES ASSUME Typed, Sound PROVE FramingKept
    OBVIOUS
  <2>1. Len(executed) <= Len(requests) /\ \A i \in DOMAIN executed : Outcome(executed[i], requests[i])
    BY DEF Sound, Outcomes
  <2>2. ASSUME NEW i \in DOMAIN executed PROVE requests[i] \in Request
    <3>1. /\ requests \in Seq(Request) /\ executed \in Seq(Range(executed))
          /\ Len(executed) \in Nat /\ Len(requests) \in Nat
      BY LenProperties DEF Typed
    <3>2. i \in 1..Len(executed)
      BY <3>1
    <3>3. i \in 1..Len(requests)
      BY <2>1, <3>1, <3>2
    <3> QED BY <3>1, <3>3
  <2> QED BY <2>1, <2>2, OutcomeFrames DEF FramingKept
<1> QED
  BY <1>1, InitReady, InitTyped, InitSound, NextReady, NextTyped, NextSound, PTL DEF Spec

(* Once the client has sent everything and the server waits for more,      *)
(* every request has been executed (ServerImpl.cpp:109-158).               *)
THEOREM NothingLostCorrect == Spec => []NothingLost
BY InitReady, InitTyped, InitSound, NextReady, NextTyped, NextSound, NothingLeft, PTL
   DEF Spec

(* A connection is refused only because the next request is not supported  *)
(* or the last one had an empty data block, which Parser.h:87-88 allows:   *)
(* nothing else costs a client its connection (ServerImpl.cpp:116-118,     *)
(* Parser.cpp:29-39).                                                      *)
THEOREM RefusalsExplained == Spec => []Explained
<1>1. Sound => Explained
  BY DEF Sound
<1> QED
  BY <1>1, InitReady, InitTyped, InitSound, NextReady, NextTyped, NextSound, PTL DEF Spec
=============================================================================
