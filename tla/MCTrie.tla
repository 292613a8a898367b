------------------------------- MODULE MCTrie -------------------------------
(***************************************************************************)
(* Four threads on keys of two characters: one inserts, two remove keys    *)
(* that share their beginnings with each other's, and one reads keys that  *)
(* neither removes, under the same beginnings.  No two remove one key:     *)
(* the second of them, and a reader of the key, would use freed nodes.     *)
(***************************************************************************)
EXTENDS Trie

MCKeys == {<<"a", "a">>, <<"a", "b">>, <<"b", "a">>, <<"a", "c">>, <<>>}
MCValues == {[type |-> "int", val |-> 5], [type |-> "string", val |-> 5]}
MCNoValue == [type |-> "none"]
RemovedBy(t) == CASE t = 2 -> {<<"a", "a">>, <<"b", "a">>, <<>>} [] t = 3 -> {<<"a", "c">>} [] OTHER -> {}
MCMayCall(t, call, key) ==
    CASE call = "insert" -> t = 1
      [] call = "remove" -> key \in RemovedBy(t)
      [] call = "get" -> t = 4 /\ (key = <<>> \/ key \notin RemovedBy(2) \cup RemovedBy(3))

=============================================================================
