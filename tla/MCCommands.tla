----------------------------- MODULE MCCommands -----------------------------
(* Small instances of Commands.                                            *)
EXTENDS Commands, TLC

CONSTANTS k1, k2, a, b

MCKeyLen == k1 :> 1 @@ k2 :> 1
MCLen(v) == Len(v)

(* Two short arguments, and one that is too large with any key.            *)
MCArg == {<<a>>, <<b>>, <<a, a, a, a>>}
MCKeyList == {<<k1, k2>>}

ClientSymmetry == Permutations(Client)
=============================================================================
