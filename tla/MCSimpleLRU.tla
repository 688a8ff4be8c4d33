---------------------------- MODULE MCSimpleLRU -----------------------------
(***************************************************************************)
(* Small instances of SimpleLRU and of its refinement of LRUCache and of   *)
(* Storage.                                                                *)
(***************************************************************************)
EXTENDS LRURefinement, TLC

CONSTANTS k1, k2, k3, v0, v1, v4

(* A one-byte, a one-byte and a two-byte key; an empty value, a one-byte   *)
(* one and a four-byte one, which fills the cache (or is too large for it).*)
MCKeyLen == k1 :> 1 @@ k2 :> 1 @@ k3 :> 2
MCValueLen == v0 :> 0 @@ v1 :> 1 @@ v4 :> 4

AddrSymmetry == Permutations(Addr)
=============================================================================
