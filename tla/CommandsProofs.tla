--------------------------- MODULE CommandsProofs ---------------------------
(* Proofs about Commands, for any clients, keys, arguments and evictions.  *)
EXTENDS Commands, TLAPS

(* Typing facts about sequences.                                           *)
LEMMA SeqFacts ==
  ASSUME NEW S, NEW s \in Seq(S)
  PROVE  /\ \A e \in S : Append(s, e) \in Seq(S)
         /\ \A t \in Seq(S) : s \o t \in Seq(S)
         /\ s # <<>> => s[1] \in S /\ Tail(s) \in Seq(S)
         /\ Len(s) = 1 => s # <<>>
<1>1. s # <<>> => s[1] \in S /\ Tail(s) \in Seq(S)
  OBVIOUS
<1> QED BY <1>1

(* Storing a pair changes no other entry except by evicting it.            *)
LEMMA StoringType ==
  ASSUME NEW m \in [Key -> Data \cup {NoValue}], NEW k \in Key, NEW v \in Data,
         NEW n \in Storing(m, k, v)
  PROVE  n \in [Key -> Data \cup {NoValue}]
<1>1. PICK E : n = Replacing(m, E, k, v)
  BY DEF Storing
<1> QED BY <1>1 DEF Replacing

(* What the common part of Put, PutIfAbsent and Set leaves behind.         *)
LEMMA StoresType ==
  ASSUME TypeOK, NEW c \in Client, NEW k \in Key, NEW v \in Data,
         Stores(c, k, v) \/ Refuses(c)
  PROVE  /\ store' \in [Key -> Data \cup {NoValue}]
         /\ hung' \in BOOLEAN
         /\ done' \in [Client -> BOOLEAN]
<1>1. CASE Refuses(c)
  BY <1>1 DEF Refuses, TypeOK
<1>2. CASE Stores(c, k, v)
  <2>1. CASE Shrinks(k, v)
    BY <1>2, <2>1 DEF Stores, TypeOK
  <2>2. CASE ~Shrinks(k, v)
    <3>1. store' \in IF TooLarge(k, v) THEN {store} ELSE Storing(store, k, v)
      BY <1>2, <2>2 DEF Stores
    <3>2. store' \in [Key -> Data \cup {NoValue}]
      BY <3>1, StoringType DEF TypeOK
    <3>3. (~TooLarge(k, v)) \in BOOLEAN
      BY DEF TooLarge
    <3> QED BY <1>2, <2>2, <3>2, <3>3 DEF Stores, TypeOK
  <2> QED BY <2>1, <2>2
<1> QED BY <1>1, <1>2

(* An answer, or none because the call of the storage hangs.               *)
LEMMA AnswerType ==
  ASSUME IInv, NEW c \in Client, NEW r \in {"STORED", "NOT_STORED", "END"},
         Answer(c, r) \/ AnswerAfter(c, r)
  PROVE  /\ pc' \in [Client -> Pc]
         /\ cmd' \in [Client -> [name : Name, keys : Seq(Key), arg : Data]]
         /\ value' \in [Client -> Data]
         /\ items' \in [Client -> Seq([key : Key, value : Data])]
         /\ reply' \in [Client -> {"", "STORED", "NOT_STORED", "END"}]
         /\ OneKey'
<1>0. NoCmd \in [name : Name, keys : Seq(Key), arg : Data]
  BY DEF NoCmd, Name, Data
<1>1. CASE Answer(c, r)
  <2>1. /\ cmd' = [cmd EXCEPT ![c] = NoCmd]
        /\ cmd' \in [Client -> [name : Name, keys : Seq(Key), arg : Data]]
    BY <1>0, <1>1 DEF Answer, IInv, TypeOK
  <2>2. OneKey'
    BY <2>1 DEF OneKey, IInv, TypeOK, NoCmd
  <2>3. <<>> \in Data /\ <<>> \in Seq([key : Key, value : Data])
    BY DEF Data
  <2> QED BY <1>1, <2>1, <2>2, <2>3 DEF Answer, IInv, TypeOK, Pc
<1>2. CASE UNCHANGED <<reply, pc, cmd, value, items>>
  BY <1>2 DEF IInv, TypeOK, OneKey
<1> QED BY <1>1, <1>2 DEF AnswerAfter

(* The key of a command that has one.                                      *)
LEMMA KeyType ==
  ASSUME IInv, NEW c \in Client,
         cmd[c].name \notin {"get", "stats"} \/ cmd[c].keys # <<>>
  PROVE  K(c) \in Key /\ cmd[c].arg \in Data
<1>1. /\ cmd[c] \in [name : Name, keys : Seq(Key), arg : Data]
      /\ cmd[c].name \notin {"get", "stats"} => Len(cmd[c].keys) = 1
  BY DEF IInv, TypeOK, OneKey
<1>2. cmd[c].keys \in Seq(Key) /\ cmd[c].arg \in Data
  BY <1>1
<1>3. cmd[c].keys # <<>>
  BY <1>1, <1>2, SeqFacts
<1> QED BY <1>2, <1>3, SeqFacts DEF K

(* The first state satisfies the invariant.                                *)
LEMMA InitIInv == Init => IInv
<1> SUFFICES ASSUME Init PROVE IInv
  OBVIOUS
<1>1. NoCmd \in [name : Name, keys : Seq(Key), arg : Data]
  BY DEF NoCmd, Name, Data
<1>2. <<>> \in Data /\ <<>> \in Seq([key : Key, value : Data])
  BY DEF Data
<1>3. TypeOK
  BY <1>1, <1>2 DEF Init, TypeOK, Pc
<1>4. OneKey
  BY DEF Init, OneKey, NoCmd
<1> QED BY <1>3, <1>4 DEF IInv

(* A new command.                                                          *)
LEMMA RequestIInv ==
  ASSUME IInv, NEW c \in Client, Request(c) PROVE IInv'
<1>1. PICK n \in Name, ks \in Seq(Key), a \in Data :
        Start(c, n, ks, a) /\ (n \notin {"get", "stats"} => Len(ks) = 1)
  <2>1. CASE \E n \in {"set", "add", "append", "replace"}, k \in Key, a \in Arg :
               Start(c, n, <<k>>, a)
    <3>1. PICK n \in {"set", "add", "append", "replace"}, k \in Key, a \in Arg :
            Start(c, n, <<k>>, a)
      BY <2>1
    <3>2. <<k>> \in Seq(Key) /\ Len(<<k>>) = 1 /\ a \in Data /\ n \in Name
      BY ArgAssumption DEF Data, Name
    <3> QED BY <3>1, <3>2
  <2>2. CASE \E ks \in KeyList : Start(c, "get", ks, <<>>)
    <3>1. <<>> \in Data /\ "get" \in Name
      BY DEF Data, Name
    <3> QED BY <2>2, <3>1, KeyListAssumption
  <2>3. CASE Start(c, "stats", <<>>, <<>>)
    <3>1. <<>> \in Data /\ "stats" \in Name /\ <<>> \in Seq(Key)
      BY DEF Data, Name
    <3> QED BY <2>3, <3>1
  <2> QED BY <2>1, <2>2, <2>3 DEF Request
<1>2. /\ cmd' = [cmd EXCEPT ![c] = [name |-> n, keys |-> ks, arg |-> a]]
      /\ cmd' \in [Client -> [name : Name, keys : Seq(Key), arg : Data]]
  BY <1>1 DEF Start, IInv, TypeOK
<1>3. OneKey'
  BY <1>1, <1>2 DEF OneKey, IInv, TypeOK
<1>4. TypeOK'
  BY <1>1, <1>2 DEF Start, IInv, TypeOK, Pc
<1> QED BY <1>3, <1>4 DEF IInv

(* A step of a command.                                                    *)
LEMMA StepIInv ==
  ASSUME IInv, NEW c \in Client, Step(c) PROVE IInv'
<1>0. TypeOK
  BY DEF IInv
<1>1. CASE ExecuteSet(c)
  <2>1. K(c) \in Key /\ cmd[c].arg \in Data
    BY <1>1, KeyType DEF ExecuteSet, At
  <2>2. Stores(c, K(c), cmd[c].arg) /\ AnswerAfter(c, "STORED")
    BY <1>1 DEF ExecuteSet, Put
  <2> QED BY <1>0, <2>1, <2>2, StoresType, AnswerType DEF IInv, TypeOK
<1>2. CASE ExecuteAdd(c)
  <2>1. K(c) \in Key /\ cmd[c].arg \in Data
    BY <1>2, KeyType DEF ExecuteAdd, At
  <2>2. Stores(c, K(c), cmd[c].arg) \/ Refuses(c)
    BY <1>2 DEF ExecuteAdd, PutIfAbsent
  <2>3. \E r \in {"STORED", "NOT_STORED", "END"} : AnswerAfter(c, r)
    BY <1>2 DEF ExecuteAdd
  <2> QED BY <1>0, <2>1, <2>2, <2>3, StoresType, AnswerType DEF IInv, TypeOK
<1>3. CASE AppendGet(c) \/ ReplaceGet(c)
  <2>1. PICK p \in {"appendPut", "replaceSet"} : ReadFirst(c, p)
    BY <1>3 DEF AppendGet, ReplaceGet
  <2>2. K(c) \in Key
    BY <1>3, KeyType DEF AppendGet, ReplaceGet, At
  <2>3. CASE store[K(c)] = NoValue
    <3>1. Answer(c, "NOT_STORED") /\ UNCHANGED <<store, hung, done>>
      BY <2>1, <2>3 DEF ReadFirst
    <3> QED BY <1>0, <3>1, AnswerType DEF IInv, TypeOK
  <2>4. CASE store[K(c)] # NoValue
    <3>1. /\ value' = [value EXCEPT ![c] = store[K(c)]]
          /\ pc' = [pc EXCEPT ![c] = p]
          /\ UNCHANGED <<reply, cmd, items, store, hung, done>>
      BY <2>1, <2>4 DEF ReadFirst
    <3>2. store[K(c)] \in Data
      BY <1>0, <2>2, <2>4 DEF TypeOK
    <3>3. OneKey'
      BY <3>1 DEF IInv, OneKey
    <3> QED BY <1>0, <3>1, <3>2, <3>3 DEF IInv, TypeOK, Pc
  <2> QED BY <2>3, <2>4
<1>4. CASE AppendPut(c)
  <2>1. K(c) \in Key /\ cmd[c].arg \in Data
    BY <1>4, KeyType DEF AppendPut, At
  <2>2. value[c] \o cmd[c].arg \in Data
    <3>1. value[c] \in Seq(Block) /\ cmd[c].arg \in Seq(Block)
      BY <1>0, <2>1 DEF TypeOK, Data
    <3> QED BY <3>1, SeqFacts DEF Data
  <2>3. /\ Stores(c, K(c), value[c] \o cmd[c].arg)
        /\ AnswerAfter(c, "STORED")
    BY <1>4 DEF AppendPut, Put
  <2> QED BY <1>0, <2>1, <2>2, <2>3, StoresType, AnswerType DEF IInv, TypeOK
<1>5. CASE ReplaceSet(c)
  <2>1. K(c) \in Key /\ cmd[c].arg \in Data
    BY <1>5, KeyType DEF ReplaceSet, At
  <2>2. Stores(c, K(c), cmd[c].arg) \/ Refuses(c)
    BY <1>5 DEF ReplaceSet, Set
  <2>3. AnswerAfter(c, "STORED")
    BY <1>5 DEF ReplaceSet
  <2> QED BY <1>0, <2>1, <2>2, <2>3, StoresType, AnswerType DEF IInv, TypeOK
<1>6. CASE GetNext(c)
  <2>1. /\ K(c) \in Key /\ cmd[c].name = "get" /\ cmd[c].keys # <<>>
    BY <1>6, KeyType DEF GetNext, At
  <2>2. /\ cmd' = [cmd EXCEPT ![c].keys = Tail(cmd[c].keys)]
        /\ UNCHANGED <<store, hung, pc, reply, done>>
    BY <1>6 DEF GetNext
  <2>3. /\ cmd' \in [Client -> [name : Name, keys : Seq(Key), arg : Data]]
        /\ \A d \in Client : cmd'[d].name = cmd[d].name
        /\ \A d \in Client : d # c => cmd'[d] = cmd[d]
    <3>1. Tail(cmd[c].keys) \in Seq(Key)
      BY <1>0, <2>1, SeqFacts DEF TypeOK
    <3> QED BY <1>0, <2>2, <3>1 DEF TypeOK
  <2>4. OneKey'
    BY <2>1, <2>3 DEF OneKey, IInv
  <2>5. /\ value' \in [Client -> Data]
        /\ items' \in [Client -> Seq([key : Key, value : Data])]
    <3>1. CASE store[K(c)] = NoValue
      BY <1>0, <1>6, <3>1 DEF GetNext, TypeOK
    <3>2. CASE store[K(c)] # NoValue
      <4> DEFINE e == [key |-> K(c), value |-> store[K(c)]]
      <4>1. store[K(c)] \in Data
        BY <1>0, <2>1, <3>2 DEF TypeOK
      <4>2. e \in [key : Key, value : Data]
        BY <2>1, <4>1
      <4>3. /\ value' = [value EXCEPT ![c] = store[K(c)]]
            /\ items' = [items EXCEPT ![c] = Append(items[c], e)]
        BY <1>6, <3>2 DEF GetNext
      <4> HIDE DEF e
      <4>4. Append(items[c], e) \in Seq([key : Key, value : Data])
        <5>1. items[c] \in Seq([key : Key, value : Data])
          BY <1>0 DEF TypeOK
        <5> QED BY <4>2, <5>1, SeqFacts
      <4> QED BY <1>0, <4>1, <4>3, <4>4 DEF TypeOK
    <3> QED BY <3>1, <3>2
  <2> QED BY <1>0, <2>2, <2>3, <2>4, <2>5 DEF IInv, TypeOK
<1>7. CASE GetEnd(c) \/ ExecuteStats(c)
  <2>1. Answer(c, "END") /\ UNCHANGED <<store, hung, done>>
    BY <1>7 DEF GetEnd, ExecuteStats
  <2> QED BY <1>0, <2>1, AnswerType DEF IInv, TypeOK
<1> QED BY <1>1, <1>2, <1>3, <1>4, <1>5, <1>6, <1>7 DEF Step

(* Every step preserves the invariant.                                     *)
LEMMA NextIInv == IInv /\ [Next]_vars => IInv'
<1> SUFFICES ASSUME IInv, [Next]_vars PROVE IInv'
  OBVIOUS
<1>1. CASE UNCHANGED vars
  BY <1>1 DEF vars, IInv, TypeOK, OneKey
<1>2. CASE Next
  BY <1>1, <1>2, RequestIInv, StepIInv DEF Next, Hung
<1> QED BY <1>1, <1>2

(* The variables keep their types: in particular the value a command holds *)
(* between its two calls of the storage is always one that was stored.     *)
THEOREM TypeCorrect == Spec => []TypeOK
<1>1. IInv => TypeOK
  BY DEF IInv
<1> QED BY <1>1, InitIInv, NextIInv, PTL DEF Spec

(* Whose command a step belongs to: the others are where they were.        *)
LEMMA OthersWait ==
  ASSUME TypeOK, NEW c \in Client, NEW d \in Client, d # c,
         Request(c) \/ Step(c)
  PROVE  pc'[d] = pc[d] /\ items'[d] = items[d]
<1>1. CASE Request(c)
  BY <1>1 DEF Request, Start, TypeOK
<1>2. CASE Step(c)
  BY <1>2 DEF Step, ExecuteSet, ExecuteAdd, AppendGet, AppendPut, ReplaceGet,
     ReplaceSet, ReadFirst, GetNext, GetEnd, ExecuteStats, Answer, AnswerAfter,
     TypeOK
<1> QED BY <1>1, <1>2

(* What one step does to the conditional commands.                         *)
LEMMA StepConditions ==
  ASSUME TypeOK, Next, NEW c \in Client,
         cmd[c].name \in {"add", "replace"}, pc[c] # "idle", pc'[c] = "idle"
  PROVE  IF cmd[c].name = "add"
         THEN store[K(c)] # NoValue => store'[K(c)] = store[K(c)]
         ELSE store[K(c)] = NoValue => store'[K(c)] = NoValue
<1>1. CASE Hung
  BY <1>1 DEF Hung, vars
<1>2. ASSUME NEW d \in Client, Request(d) \/ Step(d) PROVE d = c
  BY <1>2, OthersWait
<1>3. CASE Request(c)
  BY <1>3 DEF Request, Start
<1>4. CASE Step(c)
  <2>1. CASE cmd[c].name = "add"
    <3>1. ExecuteAdd(c)
      BY <1>4, <2>1 DEF Step, ExecuteSet, AppendGet, AppendPut, ReplaceGet,
         ReplaceSet, GetNext, GetEnd, ExecuteStats, At
    <3> QED BY <2>1, <3>1 DEF ExecuteAdd, PutIfAbsent, Refuses
  <2>2. CASE cmd[c].name = "replace"
    <3>1. ReplaceGet(c) \/ ReplaceSet(c)
      BY <1>4, <2>2 DEF Step, ExecuteSet, ExecuteAdd, AppendGet, AppendPut,
         GetNext, GetEnd, ExecuteStats, At
    <3>2. CASE ReplaceGet(c)
      BY <2>2, <3>2 DEF ReplaceGet, ReadFirst
    <3>3. CASE ReplaceSet(c)
      BY <2>2, <3>3 DEF ReplaceSet, Set, Refuses
    <3> QED BY <3>1, <3>2, <3>3
  <2> QED BY <2>1, <2>2
<1> QED BY <1>1, <1>2, <1>3, <1>4 DEF Next

(* The conditional commands keep their condition when they take effect,    *)
(* for any number of clients and any evictions between their calls.        *)
THEOREM ConditionsCorrect == Spec => ConditionsKept
<1>1. TypeOK /\ [Next]_vars =>
        [\A c \in Client :
           cmd[c].name \in {"add", "replace"} /\ pc[c] # "idle" /\ pc'[c] = "idle" =>
             IF cmd[c].name = "add"
             THEN store[K(c)] # NoValue => store'[K(c)] = store[K(c)]
             ELSE store[K(c)] = NoValue => store'[K(c)] = NoValue]_vars
  BY StepConditions
<1> QED BY <1>1, TypeCorrect, PTL DEF Spec, ConditionsKept

(* What one step adds to the answer of a get.                              *)
LEMMA StepItems ==
  ASSUME TypeOK, Next, NEW c \in Client, NEW i \in 1..Len(items'[c]),
         i > Len(items[c])
  PROVE  items'[c][i].value = store[items'[c][i].key]
<1>0. items[c] \in Seq([key : Key, value : Data])
  BY DEF TypeOK
<1>1. CASE items'[c] = items[c] \/ items'[c] = <<>>
  BY <1>0, <1>1
<1>2. CASE Hung
  BY <1>1, <1>2 DEF Hung, vars
<1>3. ASSUME NEW d \in Client, Request(d) \/ Step(d), d # c
      PROVE  items'[c] = items[c]
  BY <1>3, OthersWait
<1>4. CASE Request(c)
  BY <1>1, <1>4 DEF Request, Start
<1>5. CASE Step(c)
  <2>1. CASE GetNext(c) /\ store[K(c)] # NoValue
    <3> DEFINE e == [key |-> K(c), value |-> store[K(c)]]
    <3>1. items'[c] = Append(items[c], e)
      BY <2>1 DEF GetNext, TypeOK
    <3> HIDE DEF e
    <3>2. items'[c][i] = e
      BY <1>0, <3>1
    <3> QED BY <3>2 DEF e
  <2>2. CASE GetNext(c) /\ store[K(c)] = NoValue
    BY <1>1, <2>2 DEF GetNext
  <2>3. CASE ~GetNext(c)
    <3>1. items'[c] = items[c] \/ items'[c] = <<>>
      BY <1>5, <2>3 DEF Step, ExecuteSet, ExecuteAdd, AppendGet, AppendPut,
         ReplaceGet, ReplaceSet, ReadFirst, GetEnd, ExecuteStats, Answer,
         AnswerAfter, TypeOK
    <3> QED BY <3>1, <1>1
  <2> QED BY <2>1, <2>2, <2>3
<1> QED BY <1>1, <1>2, <1>3, <1>4, <1>5 DEF Next

(* A get sends for each key what that key has at that moment.              *)
THEOREM GetCorrect == Spec => GetFresh
<1>1. TypeOK /\ [Next]_vars =>
        [\A c \in Client : \A i \in 1..Len(items'[c]) :
           i > Len(items[c]) => items'[c][i].value = store[items'[c][i].key]]_vars
  BY StepItems
<1> QED BY <1>1, TypeCorrect, PTL DEF Spec, GetFresh
=============================================================================
