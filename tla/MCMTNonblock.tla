---------------------------- MODULE MCMTNonblock ----------------------------
(* Small instances of MTNonblock.                                          *)
EXTENDS MTNonblock, TLC

ServerSymmetry ==
  Permutations(Acceptor) \cup Permutations(Worker) \cup Permutations(Client)
    \cup Permutations(Addr)
=============================================================================
