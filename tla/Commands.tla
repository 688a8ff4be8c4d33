------------------------------ MODULE Commands ------------------------------
(***************************************************************************)
(* The memcached commands of src/execute/*.cpp, run by concurrent clients  *)
(* on one shared storage.  ThreadSafeSimplLRU holds its lock for one call  *)
(* of the storage, so each call is a step, and a command that makes        *)
(* several calls is interleaved with the others between them.              *)
(***************************************************************************)
EXTENDS StorageOps, Sequences

CONSTANTS
  Client,    \* threads that run commands for clients
  Block,     \* pieces of data
  Arg,       \* the arguments that commands come with
  KeyList    \* the key lists of get requests

ASSUME ArgAssumption == Arg \subseteq Seq(Block)
ASSUME KeyListAssumption == KeyList \subseteq Seq(Key)
ASSUME NoValueAssumption == NoValue \notin Seq(Block)

VARIABLES
  store,  \* the storage: key -> value
  hung,   \* a call of the storage never returns, and holds its lock
  pc,     \* where each client's command is
  cmd,    \* the command: [name, keys, arg]
  value,  \* its local variable of that name
  items,  \* Get: what has gone into outStream, as [key, value]
  reply,  \* the last answer of the command
  done    \* what the storage said to the last Put, PutIfAbsent or Set

vars == <<store, hung, pc, cmd, value, items, reply, done>>

Name == {"set", "add", "append", "get", "replace", "stats"}

Pc == {"idle", "execute", "appendPut", "replaceSet"}

NoCmd == [name |-> "stats", keys |-> <<>>, arg |-> <<>>]

Data == Seq(Block)

TypeOK ==
  /\ store \in [Key -> Data \cup {NoValue}]
  /\ hung \in BOOLEAN
  /\ pc \in [Client -> Pc]
  /\ cmd \in [Client -> [name : Name, keys : Seq(Key), arg : Data]]
  /\ value \in [Client -> Data]
  /\ items \in [Client -> Seq([key : Key, value : Data])]
  /\ reply \in [Client -> {"", "STORED", "NOT_STORED", "END"}]
  /\ done \in [Client -> BOOLEAN]

Init ==
  /\ store = [k \in Key |-> NoValue]
  /\ hung = FALSE
  /\ pc = [c \in Client |-> "idle"]
  /\ cmd = [c \in Client |-> NoCmd]
  /\ value = [c \in Client |-> <<>>]
  /\ items = [c \in Client |-> <<>>]
  /\ reply = [c \in Client |-> ""]
  /\ done = [c \in Client |-> FALSE]

-----------------------------------------------------------------------------
(* Calls of the storage by client c.                                       *)

(* A shorter value under a stored key: SimpleLRU evicts everything and     *)
(* then never returns (see PutReplaces of SimpleLRU).                      *)
Shrinks(k, v) == store[k] # NoValue /\ VLen(v) < VLen(store[k])

(* The part that Put, PutIfAbsent and Set share.                           *)
Stores(c, k, v) ==
  IF Shrinks(k, v)
  THEN /\ hung' = TRUE /\ store' = [x \in Key |-> NoValue]
       /\ UNCHANGED done
  ELSE /\ store' \in IF TooLarge(k, v) THEN {store} ELSE Storing(store, k, v)
       /\ done' = [done EXCEPT ![c] = ~TooLarge(k, v)]
       /\ UNCHANGED hung

(* Nothing is stored.                                                      *)
Refuses(c) ==
  /\ done' = [done EXCEPT ![c] = FALSE]
  /\ UNCHANGED <<store, hung>>

Put(c, k, v) == Stores(c, k, v)

PutIfAbsent(c, k, v) ==
  IF store[k] = NoValue THEN Stores(c, k, v) ELSE Refuses(c)

Set(c, k, v) ==
  IF store[k] # NoValue THEN Stores(c, k, v) ELSE Refuses(c)

-----------------------------------------------------------------------------
(* A connection has parsed a command and calls its Execute.                *)
Start(c, n, ks, a) ==
  /\ pc[c] = "idle" /\ ~hung
  /\ pc' = [pc EXCEPT ![c] = "execute"]
  /\ cmd' = [cmd EXCEPT ![c] = [name |-> n, keys |-> ks, arg |-> a]]
  /\ reply' = [reply EXCEPT ![c] = ""]
  /\ done' = [done EXCEPT ![c] = FALSE]
  /\ UNCHANGED <<store, hung, value, items>>

Request(c) ==
  \/ \E n \in {"set", "add", "append", "replace"}, k \in Key, a \in Arg :
       Start(c, n, <<k>>, a)
  \/ \E ks \in KeyList : Start(c, "get", ks, <<>>)
  \/ Start(c, "stats", <<>>, <<>>)

(* c is at pc p of command n, and the storage's lock can be had.           *)
At(c, n, p) == pc[c] = p /\ cmd[c].name = n /\ ~hung

K(c) == cmd[c].keys[1]

(* The command returns with the answer r and its variables are gone.       *)
Answer(c, r) ==
  /\ reply' = [reply EXCEPT ![c] = r]
  /\ pc' = [pc EXCEPT ![c] = "idle"]
  /\ cmd' = [cmd EXCEPT ![c] = NoCmd]
  /\ value' = [value EXCEPT ![c] = <<>>]
  /\ items' = [items EXCEPT ![c] = <<>>]

(* The answer after a call of the storage, if that returns.                *)
AnswerAfter(c, r) ==
  IF hung' THEN UNCHANGED <<reply, pc, cmd, value, items>> ELSE Answer(c, r)

(* Set::Execute: the answer does not depend on what Put returns.           *)
ExecuteSet(c) ==
  /\ At(c, "set", "execute")
  /\ Put(c, K(c), cmd[c].arg)
  /\ AnswerAfter(c, "STORED")

ExecuteAdd(c) ==
  /\ At(c, "add", "execute")
  /\ PutIfAbsent(c, K(c), cmd[c].arg)
  /\ AnswerAfter(c, IF done'[c] THEN "STORED" ELSE "NOT_STORED")

(* Mutant: the result of Get is not looked at.                             *)
ReadFirstUnchecked(c, p) ==
  /\ value' = [value EXCEPT ![c] = store[K(c)]]
  /\ pc' = [pc EXCEPT ![c] = p]
  /\ UNCHANGED <<store, hung, done, reply, cmd, items>>

(* The Get with which Append and Replace begin; p is where they go on.     *)
ReadFirst(c, p) ==
  /\ IF store[K(c)] = NoValue
     THEN Answer(c, "NOT_STORED")
     ELSE /\ value' = [value EXCEPT ![c] = store[K(c)]]
          /\ pc' = [pc EXCEPT ![c] = p]
          /\ UNCHANGED <<reply, cmd, items>>
  /\ UNCHANGED <<store, hung, done>>

(* Append::Execute, its Get and then its Put.                              *)
AppendGet(c) == At(c, "append", "execute") /\ ReadFirst(c, "appendPut")

AppendPut(c) ==
  /\ At(c, "append", "appendPut")
  /\ Put(c, K(c), value[c] \o cmd[c].arg)
  /\ AnswerAfter(c, "STORED")

(* Replace::Execute, its Get and then its Set, whose result is ignored.    *)
ReplaceGet(c) == At(c, "replace", "execute") /\ ReadFirst(c, "replaceSet")

(* Mutant: the second call of replace stores in any case.                  *)
ReplacePuts(c) ==
  /\ At(c, "replace", "replaceSet")
  /\ Put(c, K(c), cmd[c].arg)
  /\ AnswerAfter(c, "STORED")

ReplaceSet(c) ==
  /\ At(c, "replace", "replaceSet")
  /\ Set(c, K(c), cmd[c].arg)
  /\ AnswerAfter(c, "STORED")

(* Mutant: a key that is not found is sent with what value holds.          *)
GetNextStale(c) ==
  /\ At(c, "get", "execute")
  /\ cmd[c].keys # <<>>
  /\ LET k == K(c)
         v == IF store[k] = NoValue THEN value[c] ELSE store[k]
     IN /\ value' = [value EXCEPT ![c] = v]
        /\ items' = [items EXCEPT ![c] = Append(@, [key |-> k, value |-> v])]
  /\ cmd' = [cmd EXCEPT ![c].keys = Tail(@)]
  /\ UNCHANGED <<store, hung, pc, reply, done>>

(* Get::Execute, one turn of its loop; keys holds the keys still to do.    *)
GetNext(c) ==
  /\ At(c, "get", "execute")
  /\ cmd[c].keys # <<>>
  /\ LET k == K(c)
     IN IF store[k] = NoValue
        THEN UNCHANGED <<value, items>>
        ELSE /\ value' = [value EXCEPT ![c] = store[k]]
             /\ items' = [items EXCEPT ![c] =
                            Append(@, [key |-> k, value |-> store[k]])]
  /\ cmd' = [cmd EXCEPT ![c].keys = Tail(@)]
  /\ UNCHANGED <<store, hung, pc, reply, done>>

GetEnd(c) ==
  /\ pc[c] = "execute" /\ cmd[c].name = "get" /\ cmd[c].keys = <<>>
  /\ Answer(c, "END")
  /\ UNCHANGED <<store, hung, done>>

ExecuteStats(c) ==
  /\ pc[c] = "execute" /\ cmd[c].name = "stats"
  /\ Answer(c, "END")
  /\ UNCHANGED <<store, hung, done>>

(* The call that never returns.                                            *)
Hung == hung /\ UNCHANGED vars

Step(c) ==
  \/ ExecuteSet(c) \/ ExecuteAdd(c) \/ AppendGet(c) \/ AppendPut(c)
  \/ ReplaceGet(c) \/ ReplaceSet(c) \/ GetNext(c) \/ GetEnd(c)
  \/ ExecuteStats(c)

Next == (\E c \in Client : Request(c) \/ Step(c)) \/ Hung

Spec == Init /\ [][Next]_vars

-----------------------------------------------------------------------------
(* Properties.                                                             *)

(* What a get puts into its answer for a key is what this key, and not     *)
(* another one, has at that moment: the value variable that the loop       *)
(* reuses is never sent for a key that has been evicted since the request  *)
(* began (Get.cpp:31-37).                                                  *)
GetFresh ==
  [][\A c \in Client : \A i \in 1..Len(items'[c]) :
       i > Len(items[c]) => items'[c][i].value = store[items'[c][i].key]]_vars

(* The conditional commands keep their condition at the moment they take   *)
(* effect, whatever other clients and evictions do between their two calls *)
(* (Add.cpp:9-10, Replace.cpp:9-10): add never touches data that is there, *)
(* replace never brings back a key that has gone.                          *)
ConditionsKept ==
  [][\A c \in Client :
       cmd[c].name \in {"add", "replace"} /\ pc[c] # "idle" /\ pc'[c] = "idle" =>
         IF cmd[c].name = "add"
         THEN store[K(c)] # NoValue => store'[K(c)] = store[K(c)]
         ELSE store[K(c)] = NoValue => store'[K(c)] = NoValue]_vars

(* A command that stores has the one key it was parsed with: what TypeOK   *)
(* needs to be inductive.                                                  *)
OneKey ==
  \A c \in Client : cmd[c].name \notin {"get", "stats"} => Len(cmd[c].keys) = 1

IInv == TypeOK /\ OneKey
=============================================================================
