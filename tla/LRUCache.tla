------------------------------ MODULE LRUCache ------------------------------
(***************************************************************************)
(* What a storage backend promises (include/afina/Storage.h), made precise *)
(* for a backend that evicts the least recently used entry when it runs    *)
(* out of room.  Every operation is one atomic step on a sequence of       *)
(* entries, freshest first.  SimpleLRU is shown to implement this module,  *)
(* and Commands runs the memcached commands on top of it.                  *)
(***************************************************************************)
EXTENDS Integers, Sequences, SequencesExt, FiniteSetsExt

CONSTANTS
  Key,      \* keys
  Value,    \* values
  NoKey,    \* "no key": the key of the call before the first one
  NoValue,  \* "no value": operations without a value, output not written
  KLen,     \* key.length()
  VLen,     \* value.length()
  MaxSize   \* _max_size: bytes the cache may hold

-----------------------------------------------------------------------------
(* The pure operations, on a cache c: a sequence of [key, value].          *)

Entry(k, v) == [key |-> k, value |-> v]

EntrySize(e) == KLen[e.key] + VLen[e.value]

TotalSize(c) ==
  LET sum[n \in 0..Len(c)] == IF n = 0 THEN 0 ELSE sum[n - 1] + EntrySize(c[n])
  IN sum[Len(c)]

Has(c, k) == \E i \in 1..Len(c) : c[i].key = k

Place(c, k) == CHOOSE i \in 1..Len(c) : c[i].key = k

EntryOf(c, k) == c[Place(c, k)]

Without(c, k) == IF Has(c, k) THEN RemoveAt(c, Place(c, k)) ELSE c

(* The freshest entries of c that fit in n bytes: the rest is evicted.     *)
Fit(c, n) ==
  SubSeq(c, 1, Max({m \in 0..Len(c) : TotalSize(SubSeq(c, 1, m)) <= n}))

TooLarge(k, v) == KLen[k] + VLen[v] > MaxSize

(* Using an entry makes it the freshest one.                               *)
Touch(c, k) == IF Has(c, k) THEN <<EntryOf(c, k)>> \o Without(c, k) ELSE c

(* Storing (k, v) makes it the freshest entry and evicts from the far end. *)
(* A pair larger than the cache is refused, but its key has been used.     *)
Store(c, k, v) ==
  IF TooLarge(k, v) THEN Touch(c, k)
  ELSE <<Entry(k, v)>> \o Fit(Without(c, k), MaxSize - EntrySize(Entry(k, v)))

-----------------------------------------------------------------------------
VARIABLES
  cache,  \* the entries, freshest first
  call,   \* the last call: [op, key, value]
  ok,     \* its result
  out     \* the value Get copied to its output parameter

vars == <<cache, call, ok, out>>

Init ==
  /\ cache = <<>>
  /\ call = [op |-> "ctor", key |-> NoKey, value |-> NoValue]
  /\ ok = TRUE
  /\ out = NoValue

Called(o, k, v) == call' = [op |-> o, key |-> k, value |-> v]

Put(k, v) ==
  /\ Called("Put", k, v)
  /\ cache' = Store(cache, k, v)
  /\ ok' = ~TooLarge(k, v)
  /\ out' = NoValue

PutIfAbsent(k, v) ==
  /\ Called("PutIfAbsent", k, v)
  /\ cache' = IF Has(cache, k) THEN cache ELSE Store(cache, k, v)
  /\ ok' = (~Has(cache, k) /\ ~TooLarge(k, v))
  /\ out' = NoValue

Set(k, v) ==
  /\ Called("Set", k, v)
  /\ cache' = IF Has(cache, k) THEN Store(cache, k, v) ELSE cache
  /\ ok' = (Has(cache, k) /\ ~TooLarge(k, v))
  /\ out' = NoValue

Delete(k) ==
  /\ Called("Delete", k, NoValue)
  /\ cache' = Without(cache, k)
  /\ ok' = Has(cache, k)
  /\ out' = NoValue

Get(k) ==
  /\ Called("Get", k, NoValue)
  /\ cache' = Touch(cache, k)
  /\ ok' = Has(cache, k)
  /\ out' = IF Has(cache, k) THEN EntryOf(cache, k).value ELSE NoValue

Next ==
  \E k \in Key :
    \/ \E v \in Value : Put(k, v) \/ PutIfAbsent(k, v) \/ Set(k, v)
    \/ Delete(k)
    \/ Get(k)

Spec == Init /\ [][Next]_vars
=============================================================================
