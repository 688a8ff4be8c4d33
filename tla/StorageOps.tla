---------------------------- MODULE StorageOps ------------------------------
(***************************************************************************)
(* What storing a pair may do to a bounded storage, seen as a map from     *)
(* keys to values, whichever entries the backend chooses to evict.         *)
(***************************************************************************)
EXTENDS Integers, FiniteSets

CONSTANTS
  Key,      \* keys
  NoValue,  \* the value of a key that is not stored
  KLen,     \* key.length()
  VLen(_),  \* value.length()
  MaxSize   \* _max_size

PairSize(k, v) == KLen[k] + VLen(v)

TooLarge(k, v) == PairSize(k, v) > MaxSize

Stored(m) == {k \in Key : m[k] # NoValue}

(* The number of bytes that the stored pairs take.                         *)
Used(m) ==
  Cardinality(UNION {{k} \X (1..PairSize(k, m[k])) : k \in Stored(m)})

(* m without the keys of E, and with v under k.                            *)
Replacing(m, E, k, v) ==
  [x \in Key |-> IF x = k THEN v ELSE IF x \in E THEN NoValue ELSE m[x]]

(* What may be evicted to store (k, v): other entries, and only when there *)
(* is no room for all of them.                                             *)
Evicted(m, k, v) ==
  LET Fits(E) == Used(Replacing(m, E, k, v)) <= MaxSize
  IN IF Fits({}) THEN {{}} ELSE {E \in SUBSET (Stored(m) \ {k}) : Fits(E)}

Storing(m, k, v) == {Replacing(m, E, k, v) : E \in Evicted(m, k, v)}
=============================================================================
