------------------------------- MODULE Parser -------------------------------
(***************************************************************************)
(* The command parser of src/protocol/Parser.cpp: an automaton that eats   *)
(* the bytes of client_buffer one by one until a command line is complete. *)
(* One action per case of the switch in Parse.                             *)
(*                                                                         *)
(* A command word stands for one byte of the input; the other bytes are    *)
(* letters of keys and data, digits, the minus sign, SP, CR and LF.        *)
(***************************************************************************)
EXTENDS Integers, Sequences

CONSTANT Modulus  \* flags and bytes are unsigned modulo Modulus (2^32)

ASSUME ModulusAssumption == Modulus \in Nat \ {0}

VARIABLES
  parser,  \* the fields of the Parser object
  buf,     \* the readed_bytes first bytes of client_buffer
  parsed   \* the bytes this call of Parse has consumed

SP == "SP"
CR == "CR"
LF == "LF"
Digit == {"0", "1", "2", "3", "4", "5", "6", "7", "8", "9"}
DigitValue == [c \in Digit |->
  CHOOSE n \in 0..9 : <<"0", "1", "2", "3", "4", "5", "6", "7", "8", "9">>[n + 1] = c]

StoreName == {<<"set">>, <<"add">>, <<"append">>, <<"prepend">>}
GetName == {<<"get">>, <<"gets">>}
StatsName == <<"stats">>
KnownName == StoreName \cup GetName \cup {StatsName}

State == {"sLF", "sName", "spKey", "spFlags", "spExprTimeStart",
          "spExprTime", "spBytes", "sgKey"}

-----------------------------------------------------------------------------
(* Mutant: the keys of the last command stay.                              *)
ResetKeepsKeys(p) ==
  [state |-> "sName", name |-> <<>>, keys |-> p.keys, curKey |-> <<>>,
   parse_complete |-> FALSE, flags |-> 0, bytes |-> 0, exprtime |-> 0,
   negative |-> p.negative]

(* Reset leaves negative as it is: spFlags sets it before it is read.      *)
Reset(p) ==
  [state |-> "sName", name |-> <<>>, keys |-> <<>>, curKey |-> <<>>,
   parse_complete |-> FALSE, flags |-> 0, bytes |-> 0, exprtime |-> 0,
   negative |-> p.negative]

(* The constructor: the vector is empty, negative has no initial value.    *)
FreshParser == {Reset([negative |-> b, keys |-> <<>>]) : b \in BOOLEAN}

(* Mutant: wider than the field.                                           *)
ShiftedWide(n, c) == n * 10 + DigitValue[c]

(* A digit more: the product wraps at the width of the field.              *)
Shifted(n, c) == (n * 10 + DigitValue[c]) % Modulus
Overflows(n, c) == c \in Digit /\ Shifted(n, c) < n

(* Parse throws on byte c.  An overflow of exprtime, which takes millions  *)
(* of digits, is left out; keys is never empty after the push in sgKey.    *)
Rejects(p, c) ==
  \/ p.state = "sName" /\ c \in {SP, CR} /\ p.name \notin KnownName
  \/ p.state = "spFlags" /\ Overflows(p.flags, c)
  \/ p.state = "spBytes" /\ Overflows(p.bytes, c)
  \/ p.state = "sLF" /\ c # LF

ParseName(c) ==
  /\ parser.state = "sName"
  /\ parser' =
       IF c \notin {SP, CR} THEN [parser EXCEPT !.name = Append(@, c)]
       ELSE [parser EXCEPT !.state = CASE parser.name \in StoreName -> "spKey"
                                       [] parser.name \in GetName -> "sgKey"
                                       [] OTHER -> "sLF"]

ParseStoreKey(c) ==
  /\ parser.state = "spKey"
  /\ parser' =
       IF c = SP THEN [parser EXCEPT !.state = "spFlags",
                                     !.keys = Append(@, parser.curKey)]
       ELSE [parser EXCEPT !.curKey = Append(@, c)]

ParseGetKey(c) ==
  /\ parser.state = "sgKey"
  /\ parser' =
       IF c \in {SP, CR}
       THEN [parser EXCEPT !.keys = Append(@, parser.curKey), !.curKey = <<>>,
                           !.state = IF c = CR THEN "sLF" ELSE "sgKey"]
       ELSE [parser EXCEPT !.curKey = Append(@, c)]

ParseFlags(c) ==
  /\ parser.state = "spFlags"
  /\ parser' =
       CASE c = SP -> [parser EXCEPT !.negative = FALSE,
                                     !.state = "spExprTimeStart"]
         [] c \in Digit -> [parser EXCEPT !.flags = Shifted(@, c)]
         [] OTHER -> parser

ParseExprTimeStart(c) ==
  /\ parser.state = "spExprTimeStart"
  /\ parser' =
       CASE c = "-" -> [parser EXCEPT !.negative = TRUE, !.state = "spExprTime"]
         [] c \in Digit -> [parser EXCEPT !.exprtime = DigitValue[c],
                                          !.state = "spExprTime"]
         [] OTHER -> parser

(* The digits are added up, not shifted.                                   *)
ParseExprTime(c) ==
  /\ parser.state = "spExprTime"
  /\ parser' =
       CASE c = SP -> [parser EXCEPT !.state = "spBytes"]
         [] c \in Digit -> [parser EXCEPT !.exprtime =
              IF parser.negative THEN @ - DigitValue[c] ELSE @ + DigitValue[c]]
         [] OTHER -> parser

ParseBytes(c) ==
  /\ parser.state = "spBytes"
  /\ parser' =
       CASE c = CR -> [parser EXCEPT !.state = "sLF"]
         [] c \in Digit -> [parser EXCEPT !.bytes = Shifted(@, c)]
         [] OTHER -> parser

ParseLF(c) ==
  /\ parser.state = "sLF"
  /\ parser' = [parser EXCEPT !.parse_complete = TRUE]

(* One turn of the loop of Parse.                                          *)
ParseByte ==
  /\ buf # <<>> /\ ~parser.parse_complete
  /\ ~Rejects(parser, Head(buf))
  /\ \/ ParseName(Head(buf)) \/ ParseStoreKey(Head(buf))
     \/ ParseGetKey(Head(buf)) \/ ParseFlags(Head(buf))
     \/ ParseExprTimeStart(Head(buf)) \/ ParseExprTime(Head(buf))
     \/ ParseBytes(Head(buf)) \/ ParseLF(Head(buf))
  /\ buf' = Tail(buf)
  /\ parsed' = parsed + 1

ParseThrows ==
  /\ buf # <<>> /\ ~parser.parse_complete
  /\ Rejects(parser, Head(buf))

ParseReturns == buf = <<>> \/ parser.parse_complete

(* Build throws for the names that Parse lets through and it cannot make.  *)
Buildable(p) == p.name \notin {<<"gets">>, <<"prepend">>}

(* The command that Build makes; a store command takes the first key, a    *)
(* get command all of them.                                                *)
Build(p) ==
  [name |-> p.name[1], flags |-> p.flags, expire |-> p.exprtime,
   keys |-> IF p.name \in StoreName THEN <<p.keys[1]>> ELSE p.keys]
=============================================================================
