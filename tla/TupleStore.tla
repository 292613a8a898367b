----------------------------- MODULE TupleStore -----------------------------
(***************************************************************************)
(* What a table page promises its users: numbered slots, each empty or     *)
(* with a tuple that may be marked as deleted.  A tuple keeps its slot and *)
(* its bytes until it is updated or removed; an insert is refused exactly  *)
(* when the tuple and a new slot would not fit, an update when the tuple   *)
(* would not fit in the place of the old one.                              *)
(***************************************************************************)
EXTENDS Integers, Sequences

CONSTANTS Capacity, SlotBytes, Tuples

VARIABLES store,      \* slot number + 1 -> [tuple, marked]; <<>> in an empty slot
          answer      \* the last call and what it returned
storeVars == <<store, answer>>

\* The first n values of f, added up.
Sum(f, n) == LET upto[i \in 0..n] == IF i = 0 THEN 0 ELSE upto[i - 1] + f[i] IN upto[n]
Lengths == [i \in 1..Len(store) |-> Len(store[i].tuple)]
Room == Capacity - SlotBytes * Len(store) - Sum(Lengths, Len(store))
Live(i) == i \in 1..Len(store) /\ store[i].tuple # <<>> /\ ~store[i].marked
Numbers == 0..(Len(store))
Says(op, slot, tuple) == [op |-> op, slot |-> slot, tuple |-> tuple]

StoreInit == store = <<>> /\ answer = Says("none", 0, <<>>)

StoreInsert(t) ==
    IF Room < Len(t) + SlotBytes
    THEN answer' = Says("refused", 0, t) /\ UNCHANGED store
    ELSE LET empty == {i \in 1..Len(store) : store[i].tuple = <<>>}
             i == IF empty = {} THEN Len(store) + 1
                  ELSE CHOOSE k \in empty : \A m \in empty : k <= m
             e == [tuple |-> t, marked |-> FALSE]
         IN  /\ store' = IF empty = {} THEN Append(store, e) ELSE [store EXCEPT ![i] = e]
             /\ answer' = Says("inserted", i - 1, t)

StoreMark(s) ==
    IF Live(s + 1)
    THEN store' = [store EXCEPT ![s + 1].marked = TRUE] /\ answer' = Says("marked", s, <<>>)
    ELSE answer' = Says("refused", s, <<>>) /\ UNCHANGED store

StoreUpdate(s, t) ==
    IF Live(s + 1) /\ Len(t) <= Room + Len(store[s + 1].tuple)
    THEN /\ answer' = Says("updated", s, store[s + 1].tuple)
         /\ store' = [store EXCEPT ![s + 1].tuple = t]
    ELSE answer' = Says("refused", s, t) /\ UNCHANGED store

\* Only for a slot with a tuple, marked or not.
StoreRemove(s) ==
    /\ s + 1 \in 1..Len(store) /\ store[s + 1].tuple # <<>>
    /\ store' = [store EXCEPT ![s + 1] = [tuple |-> <<>>, marked |-> FALSE]]
    /\ answer' = Says("removed", s, <<>>)

StoreRestore(s) ==
    /\ s + 1 \in 1..Len(store)
    /\ store' = [store EXCEPT ![s + 1].marked = FALSE]
    /\ answer' = Says("restored", s, <<>>)

StoreGet(s) ==
    /\ answer' = IF Live(s + 1) THEN Says("got", s, store[s + 1].tuple) ELSE Says("refused", s, <<>>)
    /\ UNCHANGED store

\* The live slot that follows a slot (-1: the first one).
StoreNext(s) ==
    LET later == {i \in 1..Len(store) : Live(i) /\ i > s + 1}
    IN  /\ answer' = Says("next", IF later = {} THEN -1 ELSE (CHOOSE i \in later : \A j \in later : i <= j) - 1,
                          <<s>>)
        /\ UNCHANGED store

StoreStep ==
    \/ \E t \in Tuples : StoreInsert(t)
    \/ \E s \in Numbers : StoreMark(s) \/ StoreRemove(s) \/ StoreRestore(s) \/ StoreGet(s)
    \/ \E s \in Numbers, t \in Tuples : StoreUpdate(s, t)
    \/ \E s \in Numbers \union {-1} : StoreNext(s)

StoreSpec == StoreInit /\ [][StoreStep]_storeVars
=============================================================================
