------------------------------ MODULE TypedMap ------------------------------
(***************************************************************************)
(* What the trie of src/include/primer/p0_trie.h promises: a map from keys *)
(* to values of any type, used by several threads.  A key is given a value *)
(* once, keeps it until it is removed, and is never the empty string.      *)
(***************************************************************************)
CONSTANTS
    Threads,
    Keys,      \* strings, as sequences of characters
    Values,    \* records with a type
    NoValue    \* "nothing under this key"

VARIABLES
    map,       \* key -> its value, or NoValue
    ret        \* the last call that returned, with its result
vars == <<map, ret>>

NoCall == [op |-> "none"]
Result(t, op, key, ok, value) == [thread |-> t, op |-> op, key |-> key, ok |-> ok, value |-> value]

Init == map = [k \in Keys |-> NoValue] /\ ret = NoCall

Insert(t, k, v) ==
    LET ok == k # <<>> /\ map[k] = NoValue IN
    /\ map' = IF ok THEN [map EXCEPT ![k] = v] ELSE map
    /\ ret' = Result(t, "insert", k, ok, NoValue)
Remove(t, k) ==
    /\ map' = [map EXCEPT ![k] = NoValue]
    /\ ret' = Result(t, "remove", k, map[k] # NoValue, NoValue)
\* A value of another type than the one asked for is not found.
GetValue(t, k, type) ==
    LET ok == map[k] # NoValue /\ map[k].type = type IN
    /\ ret' = Result(t, "get", k, ok, IF ok THEN map[k] ELSE NoValue)
    /\ UNCHANGED map

Next ==
    \E t \in Threads, k \in Keys :
        \/ Remove(t, k)
        \/ \E v \in Values : Insert(t, k, v) \/ GetValue(t, k, v.type)
Spec == Init /\ [][Next]_vars

=============================================================================
