----------------------------- MODULE TablePage -----------------------------
(***************************************************************************)
(* One table page under any sequence of the calls of TablePage, as its     *)
(* user sees them: the last call is kept with its answer.  A rid is a slot *)
(* number here.  ApplyDelete is called where its assertions hold, the      *)
(* program stops elsewhere (see TableHeap).                                *)
(***************************************************************************)
EXTENDS SlottedPage

CONSTANT Tuples       \* what is inserted: sequences of bytes

ASSUME TuplesAssumption == \A t \in Tuples : t \in Seq(Nat) /\ Len(t) \in 1..PageSize

VARIABLES page, answer

vars == <<page, answer>>

Says(op, slot, tuple) == [op |-> op, slot |-> slot, tuple |-> tuple]
SlotNumbers == 0..page.count

Init == page = Init_(0, INVALID_PAGE_ID) /\ answer = Says("none", 0, <<>>)

Insert ==
    \E t \in Tuples :
        LET r == InsertTuple(page, t)
        IN  /\ page' = r.page
            /\ answer' = IF r.ok THEN Says("inserted", r.slot, t) ELSE Says("refused", 0, t)

Mark ==
    \E s \in SlotNumbers :
        LET r == MarkDelete(page, s)
        IN  page' = r.page /\ answer' = Says(IF r.ok THEN "marked" ELSE "refused", s, <<>>)

Update ==
    \E s \in SlotNumbers, t \in Tuples :
        LET r == UpdateTuple(page, t, s)
        IN  /\ page' = r.page
            /\ answer' = IF r.ok THEN Says("updated", s, r.old) ELSE Says("refused", s, t)

Apply ==
    \E s \in Slots(page) :
        /\ CanApplyDelete(page, s)
        /\ page' = ApplyDelete(page, s)
        /\ answer' = Says("removed", s, <<>>)

Rollback ==
    \E s \in Slots(page) : page' = RollbackDelete(page, s) /\ answer' = Says("restored", s, <<>>)

Get ==
    \E s \in SlotNumbers :
        LET r == GetTuple(page, s)
        IN  /\ answer' = Says(IF r.ok THEN "got" ELSE "refused", s, r.tuple)
            /\ UNCHANGED page

\* A walk: the answer is the slot that comes after the one given; -1 is before all.
First == answer' = Says("next", GetFirstTupleRid(page), <<-1>>) /\ UNCHANGED page

Following ==
    \E s \in SlotNumbers : answer' = Says("next", GetNextTupleRid(page, s), <<s>>) /\ UNCHANGED page

Next == Insert \/ Mark \/ Update \/ Apply \/ Rollback \/ Get \/ First \/ Following

Spec == Init /\ [][Next]_vars

-----------------------------------------------------------------------------
\* Type invariant: counts, offsets and size words are unsigned numbers, one
\* entry of the directory per slot.
TypeOK ==
    /\ page.count \in Nat /\ page.free \in Nat
    /\ page.offset \in [Slots(page) -> Nat] /\ page.size \in [Slots(page) -> Nat]
    /\ DOMAIN page.data = 0..(PageSize - 1)
    /\ \A i \in Slots(page) : UnsetDeletedFlag(page.size[i]) <= PageSize

\* Safety: no sequence of inserts, growing and shrinking updates, deletes and
\* rollbacks makes tuples overlap, leave the page or run into the directory.
WellLaidOut == LaidOut(page)

\* What the page is for its users: a store of numbered tuples.
Bytes(p, i) == BytesAt(p, p.offset[i], SizeOf(p, i))
Entry(p, i) == [tuple |-> Bytes(p, i), marked |-> p.size[i] >= DELETE_MASK]
Store == INSTANCE TupleStore WITH
    Capacity <- PageSize - SIZE_TABLE_PAGE_HEADER,
    SlotBytes <- SIZE_TUPLE,
    store <- [i \in 1..page.count |-> Entry(page, i - 1)]

\* Safety: no byte is lost.  What is neither header, directory nor a tuple is
\* free space that the next insert can use (SetFreeSpacePointer in UpdateTuple
\* and ApplyDelete).
Sizes(p) == [i \in 1..p.count |-> SizeOf(p, i - 1)]
NothingLeaks == page.free + Store!Sum(Sizes(page), page.count) = PageSize

\* Action property: a tuple, marked or not, keeps its slot and its bytes while
\* InsertTuple, UpdateTuple and ApplyDelete of others move it within the page.
Replaced(i) == answer'.op \in {"updated", "removed"} /\ answer'.slot = i
TuplesStay ==
    [][\A i \in Occupied(page) : ~Replaced(i) => i \in Occupied(page') /\ Bytes(page', i) = Bytes(page, i)]_vars

\* Refinement: for its users the page is a store of numbered tuples; every read
\* returns the bytes last written under that rid, wherever they were moved to.
IsATupleStore == Store!StoreSpec
=============================================================================
