------------------------------ MODULE Storage -------------------------------
(***************************************************************************)
(* include/afina/Storage.h: the promise that the callers of a storage rely *)
(* on.  Which entries are evicted is left open; LRUCache says which.       *)
(***************************************************************************)
EXTENDS StorageOps

CONSTANTS Value, NoKey

VARIABLES map, call, ok, out

vars == <<map, call, ok, out>>

Init ==
  /\ map = [k \in Key |-> NoValue]
  /\ call = [op |-> "ctor", key |-> NoKey, value |-> NoValue]
  /\ ok = TRUE /\ out = NoValue

Called(o, k, v) == call' = [op |-> o, key |-> k, value |-> v]

(* A pair that can never fit is refused.                                   *)
Stores(k, v) ==
  /\ map' \in IF TooLarge(k, v) THEN {map} ELSE Storing(map, k, v)
  /\ ok' = ~TooLarge(k, v)

Refuses == ok' = FALSE /\ UNCHANGED map

Put(k, v) == Called("Put", k, v) /\ Stores(k, v) /\ out' = NoValue

PutIfAbsent(k, v) ==
  /\ Called("PutIfAbsent", k, v) /\ out' = NoValue
  /\ IF map[k] = NoValue THEN Stores(k, v) ELSE Refuses

Set(k, v) ==
  /\ Called("Set", k, v) /\ out' = NoValue
  /\ IF map[k] # NoValue THEN Stores(k, v) ELSE Refuses

Delete(k) ==
  /\ Called("Delete", k, NoValue) /\ out' = NoValue
  /\ ok' = (map[k] # NoValue)
  /\ map' = [map EXCEPT ![k] = NoValue]

Get(k) ==
  /\ Called("Get", k, NoValue) /\ out' = map[k]
  /\ ok' = (map[k] # NoValue)
  /\ UNCHANGED map

Next ==
  \E k \in Key :
    \/ \E v \in Value : Put(k, v) \/ PutIfAbsent(k, v) \/ Set(k, v)
    \/ Delete(k)
    \/ Get(k)

Spec == Init /\ [][Next]_vars
=============================================================================
