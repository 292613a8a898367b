----------------------------- MODULE KeyValueMap -----------------------------
(***************************************************************************)
(* What a HashTable<K, V> promises its callers: a finite map, operated on  *)
(* one call at a time.  It is the abstract specification that             *)
(* ExtendibleHashTable implements, and what BufferPoolManager assumes of   *)
(* its page table.                                                         *)
(***************************************************************************)
CONSTANTS
  Key,        \* the keys callers use
  Value,      \* the values they store
  NotFound    \* "no value under this key"

VARIABLES
  map,        \* the value stored under each key, or NotFound
  ret         \* the last call that returned, with its result

vars == <<map, ret>>

NoCall == [op |-> "none"]

(* The results a call can return.                                          *)
Returned ==
  {NoCall}
    \cup [op : {"Insert"}, key : Key]
    \cup [op : {"Find"}, key : Key, value : Value \cup {NotFound}]
    \cup [op : {"Remove"}, key : Key, found : BOOLEAN]

TypeOK ==
  /\ map \in [Key -> Value \cup {NotFound}]
  /\ ret \in Returned

Init ==
  /\ map = [k \in Key |-> NotFound]
  /\ ret = NoCall

(* An existing value is replaced.                                          *)
Insert(k, v) ==
  /\ map' = [map EXCEPT ![k] = v]
  /\ ret' = [op |-> "Insert", key |-> k]

Find(k) ==
  /\ ret' = [op |-> "Find", key |-> k, value |-> map[k]]
  /\ UNCHANGED map

Remove(k) ==
  /\ map' = [map EXCEPT ![k] = NotFound]
  /\ ret' = [op |-> "Remove", key |-> k, found |-> map[k] # NotFound]

Next ==
  \E k \in Key :
    \/ \E v \in Value : Insert(k, v)
    \/ Find(k)
    \/ Remove(k)

Spec == Init /\ [][Next]_vars

==============================================================================
