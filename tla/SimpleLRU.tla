----------------------------- MODULE SimpleLRU ------------------------------
(***************************************************************************)
(* The LRU storage of src/storage/SimpleLRU.{h,cpp} at the level of its    *)
(* pointers: a doubly linked list whose nodes are owned by the unique_ptr  *)
(* before them (_lru_head, or the predecessor's next), the raw back        *)
(* pointers, the index of nodes by key, and the free-space counter.        *)
(*                                                                         *)
(* One call runs at a time: SimpleLRU is used from one thread, or under    *)
(* the lock that ThreadSafeSimplLRU holds for the whole of each call.      *)
(* A call is one step, except that each turn of an eviction loop is a step *)
(* of its own, so that the loop itself can be reasoned about.              *)
(***************************************************************************)
EXTENDS Integers, FiniteSets

CONSTANTS
  Key, Value,  \* the strings used as keys and as values
  KLen, VLen,  \* their lengths
  Addr,        \* addresses `new lru_node' may return
  Null,        \* nullptr, and the absent value
  MaxSize,     \* _max_size
  WORD         \* 2^64, the modulus of size_t (scaled down for TLC)

ASSUME LengthsAssumption == KLen \in [Key -> Nat] /\ VLen \in [Value -> Nat]
ASSUME NullAssumption == Null \notin Key \cup Value \cup Addr
ASSUME SizeAssumption ==
  MaxSize \in Nat /\ WORD \in Nat /\ 2 * MaxSize < WORD
(* An allocation never fails: there are at least as many places for nodes  *)
(* as there are keys.                                                      *)
ASSUME AddrAssumption ==
  /\ IsFiniteSet(Addr)
  /\ IsFiniteSet(Key)
  /\ Cardinality(Addr) >= Cardinality(Key)

VARIABLES
  head, tail,                \* _lru_head, _lru_tail
  next, prev, key, value,    \* the fields of the nodes, by address
  live,                      \* the allocated nodes
  index,                     \* _lru_index: key -> node, Null if absent
  free,                      \* _free_size
  pc,                        \* where the current call is
  call,                      \* its name and arguments
  it,                        \* the iterator a Put or Set of a stored key holds
  need,                      \* new_node_size, or the signed delta_size
  ok, out                    \* result and output parameter of the last call

list == <<head, tail, next, prev>>
nodes == <<key, value, live, index>>
store == <<list, nodes, free>>
vars == <<store, pc, call, it, need, ok, out>>

Op == {"ctor", "Put", "PutIfAbsent", "Set", "Delete", "Get"}
Pc == {"idle", "insert", "update", "undefined", "destroy", "destroyed"}

PtrOrNull == Addr \cup {Null}

(* Every variable has its type; free never exceeds _max_size, so the       *)
(* unsigned counter has never wrapped below zero (SimpleLRU.cpp:54, 72,    *)
(* 101, 114).                                                              *)
TypeOK ==
  /\ head \in PtrOrNull /\ tail \in PtrOrNull
  /\ next \in [Addr -> PtrOrNull] /\ prev \in [Addr -> PtrOrNull]
  /\ key \in [Addr -> Key \cup {Null}]
  /\ value \in [Addr -> Value \cup {Null}]
  /\ live \in SUBSET Addr
  /\ index \in [Key -> PtrOrNull]
  /\ free \in 0..MaxSize
  /\ pc \in Pc
  /\ call \in [op : Op, key : Key \cup {Null}, value : Value \cup {Null}]
  /\ it \in PtrOrNull
  /\ need \in (-MaxSize)..MaxSize
  /\ ok \in BOOLEAN /\ out \in Value \cup {Null}

-----------------------------------------------------------------------------
(* size_t arithmetic, and the conversion of an int64_t operand to size_t.  *)

SizeTPlus(a, b) == IF a + b >= WORD THEN a + b - WORD ELSE a + b
SizeTMinus(a, b) == IF a < b THEN a - b + WORD ELSE a - b
AsSizeT(d) == IF d < 0 THEN d + WORD ELSE d

PairSize(k, v) == KLen[k] + VLen[v]
NodeSize(a) == PairSize(key[a], value[a])

TooLarge(k, v) == PairSize(k, v) > MaxSize

Init ==
  /\ head = Null /\ tail = Null
  /\ next = [a \in Addr |-> Null] /\ prev = [a \in Addr |-> Null]
  /\ key = [a \in Addr |-> Null] /\ value = [a \in Addr |-> Null]
  /\ live = {} /\ index = [k \in Key |-> Null]
  /\ free = MaxSize
  /\ pc = "idle"
  /\ call = [op |-> "ctor", key |-> Null, value |-> Null]
  /\ it = Null /\ need = 0
  /\ ok = TRUE /\ out = Null

-----------------------------------------------------------------------------
(* The private helpers.                                                    *)

(* Mutant: the successor of the moved node is lost.                        *)
MoveToHeadDropsNext(k) ==
  LET r == index[k]
      p == prev[r]
  IN IF key[head] = k
     THEN UNCHANGED list
     ELSE /\ head' = r
          /\ tail' = IF next[r] # Null THEN tail ELSE p
          /\ next' = [next EXCEPT ![p] = Null, ![r] = head]
          /\ prev' = [prev EXCEPT ![head] = r, ![r] = Null]

(* MoveToHead of a stored key.  The assignments are sequential, so each    *)
(* stage of the prev fields is named.                                      *)
MoveToHead(k) ==
  LET r == index[k]
      p == prev[r]
      n == next[r]
      prev1 == IF n # Null THEN [prev EXCEPT ![n] = p] ELSE prev
      prev2 == [prev1 EXCEPT ![head] = r]
      prev3 == IF prev2[p] = Null THEN [prev2 EXCEPT ![p] = r] ELSE prev2
  IN IF key[head] = k
     THEN UNCHANGED list
     ELSE /\ head' = r
          /\ tail' = IF n # Null THEN tail ELSE p
          /\ next' = [next EXCEPT ![p] = n, ![r] = head]
          /\ prev' = [prev3 EXCEPT ![r] = Null]

(* Delete of a stored key: the node leaves the index and the list, and the *)
(* assignment to the unique_ptr that owned it frees it.  The fields of a   *)
(* freed node are Null.                                                    *)
DeleteNode(k) ==
  LET r == index[k]
      p == prev[r]
      n == next[r]
  IN /\ free' = SizeTPlus(free, NodeSize(r))
     /\ index' = [index EXCEPT ![k] = Null]
     /\ head' = IF p # Null THEN head ELSE n
     /\ tail' = IF n # Null THEN tail ELSE p
     /\ next' = [a \in Addr |-> IF a = r THEN Null
                                ELSE IF a = p THEN n ELSE next[a]]
     /\ prev' = [a \in Addr |-> IF a = r THEN Null
                                ELSE IF a = n THEN p ELSE prev[a]]
     /\ live' = live \ {r}
     /\ key' = [key EXCEPT ![r] = Null]
     /\ value' = [value EXCEPT ![r] = Null]

Called(o, k, v) == call' = [op |-> o, key |-> k, value |-> v]

(* The call returns b, leaving x in the output parameter.                  *)
Return(b, x) ==
  /\ pc' = "idle" /\ ok' = b /\ out' = x
  /\ it' = Null /\ need' = 0

(* The first part of PutInHead, up to its eviction loop.                   *)
PutInHead(k, v) ==
  /\ UNCHANGED store
  /\ IF TooLarge(k, v)
     THEN Return(FALSE, Null)
     ELSE /\ pc' = "insert" /\ it' = Null /\ need' = PairSize(k, v)
          /\ UNCHANGED <<ok, out>>

(* Mutant: the new size is not compared with _max_size.                    *)
UpdateStoredUnchecked(k, v) ==
  /\ MoveToHead(k)
  /\ UNCHANGED <<nodes, free>>
  /\ pc' = "update" /\ it' = index[k]
  /\ need' = PairSize(k, v) - NodeSize(index[k])
  /\ UNCHANGED <<ok, out>>

(* Put or Set of a stored key, up to the eviction loop: the node moves to  *)
(* the head even when the new value turns out to be too large.             *)
UpdateStored(k, v) ==
  /\ MoveToHead(k)
  /\ UNCHANGED <<nodes, free>>
  /\ IF TooLarge(k, v)
     THEN Return(FALSE, Null)
     ELSE /\ pc' = "update" /\ it' = index[k]
          /\ need' = PairSize(k, v) - NodeSize(index[k])
          /\ UNCHANGED <<ok, out>>

-----------------------------------------------------------------------------
(* The calls of Afina::Storage.                                            *)

Put(k, v) ==
  /\ pc = "idle"
  /\ Called("Put", k, v)
  /\ IF index[k] = Null THEN PutInHead(k, v) ELSE UpdateStored(k, v)

PutIfAbsent(k, v) ==
  /\ pc = "idle"
  /\ Called("PutIfAbsent", k, v)
  /\ IF index[k] = Null
     THEN PutInHead(k, v)
     ELSE Return(FALSE, Null) /\ UNCHANGED store

Set(k, v) ==
  /\ pc = "idle"
  /\ Called("Set", k, v)
  /\ IF index[k] = Null
     THEN Return(FALSE, Null) /\ UNCHANGED store
     ELSE UpdateStored(k, v)

Delete(k) ==
  /\ pc = "idle"
  /\ Called("Delete", k, Null)
  /\ IF index[k] = Null
     THEN Return(FALSE, Null) /\ UNCHANGED store
     ELSE Return(TRUE, Null) /\ DeleteNode(k)

(* Mutant: a read does not count as a use.                                 *)
GetInPlace(k) ==
  /\ pc = "idle"
  /\ Called("Get", k, Null)
  /\ IF index[k] = Null
     THEN Return(FALSE, Null) ELSE Return(TRUE, value[index[k]])
  /\ UNCHANGED store

Get(k) ==
  /\ pc = "idle"
  /\ Called("Get", k, Null)
  /\ IF index[k] = Null
     THEN Return(FALSE, Null) /\ UNCHANGED store
     ELSE /\ Return(TRUE, value[index[k]])
          /\ MoveToHead(k)
          /\ UNCHANGED <<nodes, free>>

(* Mutants: the loop ends one byte too early, or a turn too late.          *)
NoRoomTooEarly == free + 1 < AsSizeT(need)
NoRoomTooLate == free <= AsSizeT(need)

(* The condition of the three eviction loops: in PutInHead both sides are  *)
(* size_t; in Put and Set the int64_t delta_size is converted to size_t.   *)
NoRoom == free < AsSizeT(need)

Evicting == pc \in {"insert", "update"} /\ NoRoom

(* One turn of the loop: Delete(_lru_tail->key).                           *)
EvictTail ==
  /\ Evicting
  /\ tail # Null
  /\ DeleteNode(key[tail])
  /\ UNCHANGED <<pc, call, it, need, ok, out>>

(* The loop finds the list empty and dereferences the null _lru_tail.      *)
EvictFromEmpty ==
  /\ Evicting
  /\ tail = Null
  /\ pc' = "undefined"
  /\ UNCHANGED <<store, call, it, need, ok, out>>

(* From there the build either spins (the lookup in the empty index fails  *)
(* without reading the key, so the loop goes on) or the process is gone:   *)
(* in no case does the call return.                                        *)
Undefined == pc = "undefined" /\ UNCHANGED vars

(* The rest of PutInHead, after its eviction loop.                         *)
InsertNode ==
  /\ pc = "insert" /\ ~NoRoom
  /\ \E a \in Addr \ live :
       /\ live' = live \cup {a}
       /\ key' = [key EXCEPT ![a] = call.key]
       /\ value' = [value EXCEPT ![a] = call.value]
       /\ head' = a
       /\ tail' = IF head = Null THEN a ELSE tail
       /\ next' = [next EXCEPT ![a] = head]
       /\ prev' = [x \in Addr |-> IF x = a THEN Null
                                  ELSE IF x = head THEN a ELSE prev[x]]
       /\ index' = [index EXCEPT ![call.key] = a]
  /\ free' = SizeTMinus(free, need)
  /\ Return(TRUE, Null)
  /\ UNCHANGED call

(* Mutant: the free space is not adjusted.                                 *)
UpdateNodeUncounted ==
  /\ pc = "update" /\ ~NoRoom
  /\ value' = [value EXCEPT ![it] = call.value]
  /\ Return(TRUE, Null)
  /\ UNCHANGED <<list, key, live, index, free, call>>

(* The rest of Put or Set of a stored key, after the eviction loop.        *)
UpdateNode ==
  /\ pc = "update" /\ ~NoRoom
  /\ free' = SizeTMinus(free, AsSizeT(need))
  /\ value' = [value EXCEPT ![it] = call.value]
  /\ Return(TRUE, Null)
  /\ UNCHANGED <<list, key, live, index, call>>

-----------------------------------------------------------------------------
(* The destructor: it frees the list from its tail, so that no node is     *)
(* freed while it still owns a successor (which would recurse).            *)

DestroyStart ==
  /\ pc = "idle"
  /\ pc' = "destroy"
  /\ index' = [k \in Key |-> Null]
  /\ UNCHANGED <<list, key, value, live, free, call, it, need, ok, out>>

(* Freeing a node that owns nothing.                                       *)
FreeNode(a) ==
  /\ live' = live \ {a}
  /\ key' = [key EXCEPT ![a] = Null]
  /\ value' = [value EXCEPT ![a] = Null]

(* Mutant: the walk to the head releases nothing.                          *)
DestroyStepKeepsNext ==
  /\ pc = "destroy" /\ tail # Null
  /\ tail' = prev[tail]
  /\ UNCHANGED <<head, next, prev, nodes, free, pc, call, it, need, ok, out>>

(* _lru_tail->next.reset(); _lru_tail = _lru_tail->prev                    *)
DestroyStep ==
  /\ pc = "destroy" /\ tail # Null
  /\ LET n == next[tail]
     IN IF n = Null
        THEN UNCHANGED <<key, value, live, prev>>
        ELSE FreeNode(n) /\ prev' = [prev EXCEPT ![n] = Null]
  /\ next' = [next EXCEPT ![tail] = Null]
  /\ tail' = prev[tail]
  /\ UNCHANGED <<head, index, free, pc, call, it, need, ok, out>>

(* _lru_head.reset()                                                       *)
DestroyFinish ==
  /\ pc = "destroy" /\ tail = Null
  /\ pc' = "destroyed"
  /\ head' = Null
  /\ IF head = Null THEN UNCHANGED <<key, value, live>> ELSE FreeNode(head)
  /\ UNCHANGED <<tail, next, prev, index, free, call, it, need, ok, out>>

Destroyed == pc = "destroyed" /\ UNCHANGED vars

-----------------------------------------------------------------------------
Call ==
  \E k \in Key :
    \/ \E v \in Value : Put(k, v) \/ PutIfAbsent(k, v) \/ Set(k, v)
    \/ Delete(k)
    \/ Get(k)

(* The steps that a call in progress takes by itself.                      *)
Continue == EvictTail \/ EvictFromEmpty \/ InsertNode \/ UpdateNode

Destructor == DestroyStart \/ DestroyStep \/ DestroyFinish \/ Destroyed

Next == Call \/ Continue \/ Undefined \/ Destructor

(* A thread that has called the storage keeps running.                     *)
Fairness == WF_vars(Continue)

Spec == Init /\ [][Next]_vars /\ Fairness

-----------------------------------------------------------------------------
(* Properties.                                                             *)

(* No pointer dangles: the list's ends, the links of every allocated node  *)
(* and the references in the index name allocated nodes, after every       *)
(* relinking of MoveToHead, PutInHead and Delete, between the turns of an  *)
(* eviction loop and during the destructor.                                *)
PointersLive ==
  /\ {head, tail} \subseteq live \cup {Null}
  /\ \A a \in live : {next[a], prev[a]} \subseteq live \cup {Null}
  /\ \A k \in Key : index[k] \in live \cup {Null}

(* `List owns all nodes' (SimpleLRU.h:68): every allocated node is owned   *)
(* by exactly one unique_ptr, _lru_head or one predecessor's next.  With   *)
(* none the node leaks, with two it is freed twice; the release() and      *)
(* reset() calls of MoveToHead (SimpleLRU.cpp:25-28) put this at risk.     *)
Owners(a) ==
  {b \in live : next[b] = a} \cup (IF head = a THEN {Null} ELSE {})

UniqueOwner == \A a \in live : \E o \in PtrOrNull : Owners(a) = {o}

(* The raw back pointers mirror the owning ones, and _lru_tail is the one  *)
(* node without a successor: what Delete and the eviction loops rely on    *)
(* to find a node's neighbours (SimpleLRU.cpp:116-125).                    *)
BackLinks ==
  pc # "destroy" =>
    /\ \A a \in live :
         /\ prev[a] = Null <=> head = a
         /\ next[a] = Null <=> tail = a
         /\ next[a] # Null => prev[next[a]] = a
    /\ head = Null <=> live = {}
    /\ tail = Null <=> live = {}

(* The index holds exactly the nodes of the list, each under its own key,  *)
(* although the entries are inserted, evicted and updated by different     *)
(* functions (SimpleLRU.cpp:53, 115); the destructor clears it before it   *)
(* frees the first node (SimpleLRU.h:23).                                  *)
IndexMatchesList ==
  IF pc \in {"destroy", "destroyed"}
  THEN \A k \in Key : index[k] = Null
  ELSE /\ \A a \in live : index[key[a]] = a
       /\ \A k \in Key : index[k] # Null => /\ index[k] \in live
                                            /\ key[index[k]] = k

(* The list is sound: no pointer dangles, nothing leaks or is owned twice, *)
(* a node's neighbours and the index entry that refers to it are the right *)
(* ones.  Each call rewires several of these in an order that matters      *)
(* (SimpleLRU.cpp:10-34, 44-53, 112-126).                                  *)
ListSound == PointersLive /\ UniqueOwner /\ BackLinks /\ IndexMatchesList

(* The eviction loops stop in time.  That of an insertion never finds the  *)
(* list empty; that of an update that does not shrink the value never      *)
(* reaches the node it is updating, so the iterator that Put and Set hold  *)
(* across the evictions stays valid (SimpleLRU.cpp:41-43, 69-73, 98-102).  *)
EvictionSafe ==
  /\ pc = "insert" /\ NoRoom => tail # Null
  /\ pc = "update" /\ need >= 0 =>
       /\ it \in live /\ it = head /\ key[it] = call.key
       /\ NoRoom => tail \notin {Null, it}

(* What the destructor is written for (SimpleLRU.h:24): no node is freed   *)
(* while it owns another, so destruction does not recurse; and when it is  *)
(* done nothing is left.                                                   *)
DestructorFlat ==
  /\ pc = "destroy" /\ tail # Null /\ next[tail] # Null
       => next[next[tail]] = Null
  /\ pc = "destroy" /\ tail = Null /\ head # Null => next[head] = Null
  /\ pc = "destroyed" => live = {}

-----------------------------------------------------------------------------
(* The certificate the proofs carry along: s lists the nodes from head to  *)
(* tail, and c[i] is the space taken by the first i of them.               *)

Count == Cardinality(live)

(* s is a way to walk the list by next from head, back by prev.            *)
Walk(s) ==
  /\ \A i, j \in 1..Count : s[i] = s[j] => i = j
  /\ \A a \in live : \E i \in 1..Count : s[i] = a
  /\ head = IF Count = 0 THEN Null ELSE s[1]
  /\ \A i \in 1..Count :
       /\ next[s[i]] = IF i = Count THEN Null ELSE s[i + 1]
       /\ prev[s[i]] = IF i = 1 THEN Null ELSE s[i - 1]

(* c[i] is the size of the first i nodes, and all of them with the free    *)
(* space make up _max_size.                                                *)
PrefixSizes(s, c) ==
  /\ c[0] = 0
  /\ \A i \in 1..Count : c[i] = c[i - 1] + NodeSize(s[i])
  /\ \A i, j \in 0..Count : i <= j => c[i] <= c[j]
  /\ c[Count] + free = MaxSize

(* Where _lru_tail is: at the last node, except that the destructor's walk *)
(* is one node ahead of what it has freed.                                 *)
TailAt(s) ==
  LET last == IF Count = 0 THEN Null ELSE s[Count]
      before == IF Count <= 1 THEN Null ELSE s[Count - 1]
  IN IF pc = "destroy" THEN tail \in {last, before} ELSE tail = last

(* The list is one acyclic chain through all allocated nodes, and the      *)
(* free-space counter is exactly what the stored pairs leave of _max_size, *)
(* through every overwriting, eviction and deletion (SimpleLRU.cpp:54, 72, *)
(* 101, 114).                                                              *)
ChainAndSpace ==
  \E s \in [1..Count -> live] :
    /\ Walk(s)
    /\ TailAt(s)
    /\ pc \notin {"destroy", "destroyed"} =>
         \E c \in [0..Count -> 0..MaxSize] : PrefixSizes(s, c)

(* The nodes hold keys and values.                                         *)
NodesFilled == \A a \in live : key[a] \in Key /\ value[a] \in Value

(* What a call in progress has established before its eviction loop.       *)
CallInProgress ==
  /\ pc \in {"insert", "update"} =>
       /\ call.key \in Key /\ call.value \in Value
       /\ ~TooLarge(call.key, call.value)
  /\ pc = "insert" =>
       index[call.key] = Null /\ need = PairSize(call.key, call.value)
  /\ pc = "update" /\ need >= 0 =>
       /\ it \in live /\ it = head /\ key[it] = call.key
       /\ need = PairSize(call.key, call.value) - NodeSize(it)
  /\ pc = "destroyed" => live = {}

(* The inductive invariant: the list and index are sound whatever the call *)
(* is doing, and a call in progress knows what it needs.                   *)
IInv ==
  TypeOK /\ ChainAndSpace /\ NodesFilled /\ IndexMatchesList /\ CallInProgress

-----------------------------------------------------------------------------
(* A stored key is being given a shorter value, or has been: the call is   *)
(* lost (PutReplaces), and no contract of the storage covers what follows. *)
Shrinking == pc \in {"update", "undefined"} /\ need < 0

(* Every call returns: the eviction loops make room and end, unless a      *)
(* value is shrunk (SimpleLRU.cpp:41-43, 69-71, 98-100).                   *)
CallReturns == pc \in {"insert", "update"} ~> pc = "idle" \/ Shrinking

(* Storage.h:21-22, `If key is already present in storage then replace     *)
(* existing value by the new one': the node of the key must survive until  *)
(* its value is replaced.                                                  *)
PutReplaces == pc = "update" => it \in live
=============================================================================
