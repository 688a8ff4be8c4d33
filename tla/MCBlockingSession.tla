-------------------------- MODULE MCBlockingSession -------------------------
(* A small instance of BlockingSession: every command, keys of one and two *)
(* letters, data that looks like a command, numbers at and over the width. *)
EXTENDS BlockingSession

Store(name, key, flags, exprtime, data) ==
  [name |-> name, keys |-> <<key>>, flags |-> flags, exprtime |-> exprtime,
   data |-> data]
Retrieve(name, keys) == [name |-> name, keys |-> keys]

MCRequest == {
  Store("set", <<"k">>, <<"0">>, <<"0">>, <<"a">>),
  Store("set", <<"k">>, <<"0">>, <<"0">>, <<>>),
  Store("add", <<"k", "l">>, <<"1", "2">>, <<"-", "1">>, <<"stats", CR, LF>>),
  Store("append", <<"l">>, <<"2", "0">>, <<"1", "2">>,
        <<"a", "a", "a", "a", "a", "a", "a", "a", "a", "a", "a">>),
  Store("set", <<"l">>, <<"1", "6">>, <<"0">>, <<"a">>),
  Store("prepend", <<"k">>, <<"0">>, <<"0">>, <<"a">>),
  Retrieve("get", <<<<"k">>, <<"k", "l">>>>),
  Retrieve("gets", <<<<"k">>>>),
  Retrieve("stats", <<>>),
  Retrieve("bogus", <<>>)}
=============================================================================
