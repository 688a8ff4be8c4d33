--------------------------- MODULE LRURefinement ----------------------------
(***************************************************************************)
(* SimpleLRU as an LRU cache and as a storage: the refinement mappings.    *)
(***************************************************************************)
EXTENDS SimpleLRU, Sequences

(* The nodes from head to tail, and their entries.                         *)
Entries ==
  LET node[i \in 1..Count] == IF i = 1 THEN head ELSE next[node[i - 1]]
  IN [i \in 1..Count |-> [key |-> key[node[i]], value |-> value[node[i]]]]

(* The element of a singleton: TLC computes the state functions below once,*)
(* as sets of one element, and not whenever they are mentioned.            *)
The(S) == CHOOSE x \in S : TRUE

InCall == pc \in {"insert", "update"}

Pure == INSTANCE LRUCache WITH
          NoKey <- Null, NoValue <- Null,
          cache <- <<>>, call <- call, ok <- ok, out <- out

(* A call takes effect at its first step: while it evicts, the abstract    *)
(* cache is already the one it will leave, and its result is known.        *)
CacheOf(e) == IF InCall THEN Pure!Store(e, call.key, call.value) ELSE e

AbstractCache == The({CacheOf(e) : e \in {Entries}})

Result == IF InCall THEN TRUE ELSE ok
Output == IF InCall THEN Null ELSE out

LRU == INSTANCE LRUCache WITH
         NoKey <- Null, NoValue <- Null,
         cache <- AbstractCache, call <- call, ok <- Result, out <- Output

(* Past the contract: a value has been shrunk, or the storage destroyed.   *)
Over == Shrinking \/ pc \in {"destroy", "destroyed"}

(* SimpleLRU is an LRU cache (Storage.h:19-86): each call returns what the *)
(* interface promises and evicts exactly the least recently used entries,  *)
(* as few as possible, until a stored value is shrunk.                     *)
ImplementsLRU == LRU!Init /\ [][Over' \/ LRU!Next]_(LRU!vars)

LenOf(v) == VLen[v]

AsMap(c) ==
  [k \in Key |-> IF Pure!Has(c, k) THEN Pure!EntryOf(c, k).value ELSE Null]

AbstractMap == The({AsMap(c) : c \in {AbstractCache}})

Contract == INSTANCE Storage WITH
              NoKey <- Null, NoValue <- Null, VLen <- LenOf,
              map <- AbstractMap, call <- call, ok <- Result, out <- Output

(* SimpleLRU keeps the promise of Storage.h to callers who know nothing of *)
(* recency: a stored pair is found under its key, no other entry changes,  *)
(* and none is lost while there is room for all.                           *)
ImplementsStorage == Contract!Init /\ [][Over' \/ Contract!Next]_(Contract!vars)
=============================================================================
