---------------------------- MODULE SlottedPage ----------------------------
(***************************************************************************)
(* One table page as a value: the header fields, the slot directory and    *)
(* the bytes of the tuples (src/storage/page/table_page.cpp).  A tuple is  *)
(* the sequence of its bytes.  The bytes that hold header and directory    *)
(* are kept as fields; where they would run into the tuples is asked of    *)
(* the offsets.  A size word carries the deleted flag in its top bit.      *)
(***************************************************************************)
EXTENDS Integers, Sequences

CONSTANTS PageSize,                  \* BUSTUB_PAGE_SIZE
          SIZE_TABLE_PAGE_HEADER,    \* bytes before the directory
          SIZE_TUPLE,                \* bytes of one directory entry
          DELETE_MASK,               \* the top bit of a size word
          INVALID_PAGE_ID

ASSUME PageAssumption ==
    /\ PageSize \in Nat /\ SIZE_TABLE_PAGE_HEADER \in Nat /\ SIZE_TUPLE \in Nat
    /\ 0 < SIZE_TABLE_PAGE_HEADER /\ SIZE_TABLE_PAGE_HEADER <= PageSize
    /\ DELETE_MASK \in Nat /\ PageSize < DELETE_MASK
    /\ INVALID_PAGE_ID \in Int /\ INVALID_PAGE_ID < 0

IsDeleted(size) == size >= DELETE_MASK \/ size = 0
SetDeletedFlag(size) == IF size >= DELETE_MASK THEN size ELSE size + DELETE_MASK
UnsetDeletedFlag(size) == IF size >= DELETE_MASK THEN size - DELETE_MASK ELSE size

Slots(p) == 0..(p.count - 1)

\* Mutant: the directory is not counted.
RemainingWithoutSlots(p) == (p.free - SIZE_TABLE_PAGE_HEADER) % (2 * DELETE_MASK)

\* Unsigned words of 32 bits, that is twice the mask.
GetFreeSpaceRemaining(p) ==
    (p.free - SIZE_TABLE_PAGE_HEADER - SIZE_TUPLE * p.count) % (2 * DELETE_MASK)

memcpy(data, to, bytes) ==
    [i \in DOMAIN data |-> IF i \in to..(to + Len(bytes) - 1) THEN bytes[i - to + 1] ELSE data[i]]
\* Mutant: the bytes are copied front to back, over bytes that are still to be read.
memmoveForward(data, to, from, n) ==
    [i \in DOMAIN data |->
        IF i \notin to..(to + n - 1) THEN data[i]
        ELSE IF to > from THEN data[from + ((i - to) % (to - from))] ELSE data[i - to + from]]
memmove(data, to, from, n) ==
    [i \in DOMAIN data |-> IF i \in to..(to + n - 1) THEN data[i - to + from] ELSE data[i]]
BytesAt(p, at, n) == [k \in 1..n |-> p.data[at + k - 1]]

\* Mutant: the page does not know the page before it.
InitUnlinked(page_id, prev_page_id) ==
    [id |-> page_id, prev |-> INVALID_PAGE_ID, next |-> INVALID_PAGE_ID, free |-> PageSize,
     count |-> 0, offset |-> <<>>, size |-> <<>>, data |-> [i \in 0..(PageSize - 1) |-> 0]]
Init_(page_id, prev_page_id) ==
    [id |-> page_id, prev |-> prev_page_id, next |-> INVALID_PAGE_ID, free |-> PageSize,
     count |-> 0, offset |-> <<>>, size |-> <<>>, data |-> [i \in 0..(PageSize - 1) |-> 0]]

\* The first empty slot, or else one behind the last.
FreeSlot(p) ==
    LET empty == {i \in Slots(p) : p.size[i] = 0}
    IN  IF empty = {} THEN p.count ELSE CHOOSE i \in empty : \A j \in empty : i <= j

Refused(p) == [ok |-> FALSE, page |-> p]

InsertTuple(p, tuple) ==
    IF GetFreeSpaceRemaining(p) < Len(tuple) + SIZE_TUPLE THEN [ok |-> FALSE, page |-> p, slot |-> 0]
    ELSE LET i == FreeSlot(p)
             n == IF i = p.count THEN p.count + 1 ELSE p.count
             at == p.free - Len(tuple)
         IN  [ok |-> TRUE, slot |-> i,
              page |-> [p EXCEPT !.free = at, !.count = n,
                                 !.data = memcpy(@, at, tuple),
                                 !.offset = [j \in 0..(n - 1) |-> IF j = i THEN at ELSE @[j]],
                                 !.size = [j \in 0..(n - 1) |-> IF j = i THEN Len(tuple) ELSE @[j]]]]

MarkDelete(p, slot_num) ==
    IF slot_num >= p.count \/ IsDeleted(p.size[slot_num]) THEN Refused(p)
    ELSE [ok |-> TRUE, page |-> [p EXCEPT !.size[slot_num] = SetDeletedFlag(@)]]

\* The tuples that lie below a place move.
Shifted(offset, size, below, by) ==
    [i \in DOMAIN offset |-> IF size[i] # 0 /\ offset[i] < below THEN offset[i] + by ELSE offset[i]]

\* Not enough space: the caller has to delete and insert.
Fits(p, new, size) == GetFreeSpaceRemaining(p) + size >= Len(new)

\* The tuples below the end of the old one move by the difference, the updated
\* tuple with them.
UpdateTuple(p, new, slot_num) ==
    IF \/ slot_num >= p.count
       \/ IsDeleted(p.size[slot_num])
       \/ ~Fits(p, new, p.size[slot_num])
    THEN [ok |-> FALSE, page |-> p, old |-> <<>>]
    ELSE LET size == p.size[slot_num]
             offset == p.offset[slot_num]
             by == size - Len(new)
             moved == memmove(p.data, p.free + by, p.free, offset - p.free)
             resized == [p.size EXCEPT ![slot_num] = Len(new)]
         IN  [ok |-> TRUE, old |-> BytesAt(p, offset, size),
              page |-> [p EXCEPT !.free = @ + by, !.size = resized,
                                 !.data = memcpy(moved, offset + by, new),
                                 !.offset = Shifted(@, resized, offset + size, by)]]

\* The two assertions of ApplyDelete.
CanApplyDelete(p, slot_num) == slot_num < p.count /\ p.offset[slot_num] >= p.free

\* Mutant: the bytes of the tuple are not given back.
ReclaimNothing(p, size) == p.free
Reclaimed(p, size) == p.free + size

\* Commits a delete, or undoes an insert.
ApplyDelete(p, slot_num) ==
    LET size == UnsetDeletedFlag(p.size[slot_num])
        offset == p.offset[slot_num]
        emptied == [p.size EXCEPT ![slot_num] = 0]
        cleared == [p.offset EXCEPT ![slot_num] = 0]
    IN  [p EXCEPT !.free = Reclaimed(p, size), !.size = emptied,
                  !.data = memmove(@, p.free + size, p.free, offset - p.free),
                  !.offset = Shifted(cleared, emptied, offset, size)]

\* Mutant: the flag stays.
RollbackNothing(p, slot_num) == p
RollbackDelete(p, slot_num) ==
    IF IsDeleted(p.size[slot_num]) THEN [p EXCEPT !.size[slot_num] = UnsetDeletedFlag(@)] ELSE p

GetTuple(p, slot_num) ==
    IF slot_num >= p.count \/ IsDeleted(p.size[slot_num]) THEN [ok |-> FALSE, tuple |-> <<>>]
    ELSE [ok |-> TRUE, tuple |-> BytesAt(p, p.offset[slot_num], p.size[slot_num])]

\* The first live slot from a slot on; -1 if there is none.
LiveFrom(p, first) ==
    LET live == {i \in Slots(p) : i >= first /\ ~IsDeleted(p.size[i])}
    IN  IF live = {} THEN -1 ELSE CHOOSE i \in live : \A j \in live : i <= j

GetFirstTupleRid(p) == LiveFrom(p, 0)
\* Mutant: off by one.
NextButOne(p, slot_num) == LiveFrom(p, slot_num + 2)
GetNextTupleRid(p, slot_num) == LiveFrom(p, slot_num + 1)

-----------------------------------------------------------------------------
Occupied(p) == {i \in Slots(p) : p.size[i] # 0}
SizeOf(p, i) == UnsetDeletedFlag(p.size[i])
EndOf(p, i) == p.offset[i] + SizeOf(p, i)

\* The directory ends where the free space begins; every tuple, marked ones
\* included, lies between the free space and the end of the page; no two share
\* a byte.
LaidOut(p) ==
    /\ SIZE_TABLE_PAGE_HEADER + SIZE_TUPLE * p.count <= p.free
    /\ p.free <= PageSize
    /\ \A i \in Occupied(p) : p.free <= p.offset[i] /\ EndOf(p, i) <= PageSize
    /\ \A i, j \in Occupied(p) : i # j => EndOf(p, i) <= p.offset[j] \/ EndOf(p, j) <= p.offset[i]
=============================================================================
