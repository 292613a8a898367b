-------------------------- MODULE TupleStoreProofs --------------------------
(***************************************************************************)
(* For its users a table page is a store of numbered tuples, and no byte   *)
(* of it is lost.  The invariant of TablePageProofs needs two facts more:  *)
(* the sizes and the free space add up to the page (or an insert could be  *)
(* refused that fits), and an empty slot has offset 0 (or ApplyDelete      *)
(* could pass its assertion for it).                                       *)
(***************************************************************************)
EXTENDS TablePageProofs

-----------------------------------------------------------------------------
(* What the users see of a slot.                                           *)

\* An empty slot has no place: a tuple of no bytes cannot be removed again.
Cleared(count, offset, size) == \A i \in 0..(count - 1) : size[i] = 0 => offset[i] = 0
StoreOf(p) == [i \in 1..p.count |-> Entry(p, i - 1)]

\* A sequence of bytes has the length it is made with.
LEMMA BytesLength ==
    ASSUME NEW p, NEW at, NEW n \in Nat
    PROVE  /\ DOMAIN BytesAt(p, at, n) = 1..n /\ Len(BytesAt(p, at, n)) = n
           /\ BytesAt(p, at, n) = <<>> <=> n = 0
<1> DEFINE b == BytesAt(p, at, n)
           C == {b[k] : k \in 1..n}
<1>1. b \in [1..n -> C] /\ DOMAIN b = 1..n
  BY DEF BytesAt
<1> HIDE DEF b, C
<1>2. b \in Seq(C) /\ Len(b) = n
  BY <1>1
<1>3. b = <<>> => n = 0
  BY <1>2
<1>4. n = 0 => b = <<>>
  BY <1>2
<1> QED
  BY <1>1, <1>2, <1>3, <1>4 DEF b

\* The parts of a page in use.
LEMMA Parts ==
    ASSUME IInv
    PROVE  /\ page.count \in Nat /\ page.free \in Nat /\ Slots(page) = 0..(page.count - 1)
           /\ page.offset \in [0..(page.count - 1) -> Nat] /\ page.size \in [0..(page.count - 1) -> Nat]
BY DEF IInv, Layout, Words, Room, Slots

\* A slot holds a tuple as long as its size says, and none when the word is zero.
LEMMA SlotHolds ==
    ASSUME IInv, NEW i \in Slots(page)
    PROVE  /\ page.size[i] \in Nat /\ SizeOf(page, i) \in Nat
           /\ SizeOf(page, i) = 0 <=> page.size[i] = 0
           /\ Len(Bytes(page, i)) = SizeOf(page, i)
           /\ Bytes(page, i) = <<>> <=> page.size[i] = 0
<1>1. page.size[i] \in Nat
  BY Parts
<1>2. SizeOf(page, i) \in Nat
  BY <1>1, PageAssumption DEF SizeOf, UnsetDeletedFlag
<1>3. page.size[i] # 0 => SizeOf(page, i) >= 1
  BY DEF IInv, Layout, Inside, Slots, SizeOf
<1>4. page.size[i] = 0 => SizeOf(page, i) = 0
  BY PageAssumption DEF SizeOf, UnsetDeletedFlag
<1>5. SizeOf(page, i) = 0 <=> page.size[i] = 0
  BY <1>2, <1>3, <1>4
<1>6. Len(Bytes(page, i)) = SizeOf(page, i) /\ (Bytes(page, i) = <<>> <=> SizeOf(page, i) = 0)
  BY <1>2, BytesLength DEF Bytes
<1> QED
  BY <1>1, <1>2, <1>5, <1>6

\* The store has an entry for every slot.
LEMMA StoreParts ==
    ASSUME IInv
    PROVE  /\ DOMAIN StoreOf(page) = 1..page.count /\ Len(StoreOf(page)) = page.count
           /\ \A s \in Slots(page) :
                 /\ s + 1 \in 1..page.count
                 /\ StoreOf(page)[s + 1] = Entry(page, s)
                 /\ StoreOf(page)[s + 1].tuple = Bytes(page, s)
                 /\ StoreOf(page)[s + 1].marked = (page.size[s] >= DELETE_MASK)
<1> DEFINE b == StoreOf(page)
           C == {b[k] : k \in 1..page.count}
<1>1. page.count \in Nat /\ Slots(page) = 0..(page.count - 1)
  BY Parts
<1>2. b \in [1..page.count -> C]
  BY DEF StoreOf
<1>3. ASSUME NEW s \in Slots(page)
      PROVE  /\ s + 1 \in 1..page.count
             /\ b[s + 1] = Entry(page, s)
             /\ b[s + 1].tuple = Bytes(page, s)
             /\ b[s + 1].marked = (page.size[s] >= DELETE_MASK)
  <2>1. s + 1 \in 1..page.count /\ (s + 1) - 1 = s
    BY <1>1
  <2>2. b[s + 1] = Entry(page, s)
    BY <2>1 DEF StoreOf
  <2> HIDE DEF b
  <2>3. b[s + 1].tuple = Bytes(page, s) /\ b[s + 1].marked = (page.size[s] >= DELETE_MASK)
    BY <2>2 DEF Entry
  <2> QED
    BY <2>1, <2>2, <2>3
<1> HIDE DEF b, C
<1>4. DOMAIN b = 1..page.count /\ Len(b) = page.count
  BY <1>1, <1>2
<1> QED
  BY <1>3, <1>4 DEF b

\* A slot is live for the users when its word has a size and no flag.
LEMMA SlotLive ==
    ASSUME IInv, NEW s \in 0..page.count
    PROVE  Store!Live(s + 1) <=> ~(s >= page.count \/ IsDeleted(page.size[s]))
<1>1. page.count \in Nat
  BY Parts
<1>2. Store!Live(s + 1) <=> /\ s + 1 \in 1..page.count
                           /\ StoreOf(page)[s + 1].tuple # <<>> /\ ~StoreOf(page)[s + 1].marked
  <2>1. Len(StoreOf(page)) = page.count
    BY StoreParts
  <2>2. Store!Live(s + 1) <=> /\ s + 1 \in 1..Len(StoreOf(page))
                             /\ StoreOf(page)[s + 1].tuple # <<>> /\ ~StoreOf(page)[s + 1].marked
    BY Zenon DEF Store!Live, StoreOf
  <2> QED
    BY <2>1, <2>2
<1>3. CASE s = page.count
  BY <1>1, <1>2, <1>3
<1>4. CASE s # page.count
  <2>1. s \in Slots(page) /\ ~(s >= page.count)
    BY <1>1, <1>4 DEF Slots
  <2>2. Store!Live(s + 1) <=> Bytes(page, s) # <<>> /\ ~(page.size[s] >= DELETE_MASK)
    <3>1. /\ s + 1 \in 1..page.count
          /\ StoreOf(page)[s + 1].tuple = Bytes(page, s)
          /\ StoreOf(page)[s + 1].marked = (page.size[s] >= DELETE_MASK)
      BY <2>1, StoreParts
    <3> QED
      BY <3>1, <1>2, Zenon
  <2>3. Bytes(page, s) = <<>> <=> page.size[s] = 0
    BY <2>1, SlotHolds
  <2> QED
    BY <2>1, <2>2, <2>3, Zenon DEF IsDeleted
<1> QED
  BY <1>3, <1>4

\* A slot that is not touched, and keeps its tuple if it has one, looks the same.
LEMMA EntryKept ==
    ASSUME IInv, NEW i \in Slots(page), page'.size[i] = page.size[i], i \in Occupied(page) => Kept(i)
    PROVE  Entry(page', i) = Entry(page, i) /\ SizeOf(page', i) = SizeOf(page, i)
<1>1. SizeOf(page', i) = SizeOf(page, i)
  BY DEF SizeOf
<1>2. CASE page.size[i] # 0
  <2>1. Bytes(page', i) = Bytes(page, i)
    BY <1>2 DEF Kept, Occupied
  <2> QED
    BY <2>1, <1>1 DEF Entry
<1>3. CASE page.size[i] = 0
  <2>1. SizeOf(page, i) = 0
    BY <1>3, SlotHolds
  <2>2. Bytes(page, i) = <<>> /\ Bytes(page', i) = <<>>
    BY <2>1, <1>1, BytesLength DEF Bytes
  <2> QED
    BY <2>2, <1>1 DEF Entry
<1> QED
  BY <1>2, <1>3

\* The room the users see is what GetFreeSpaceRemaining says, when nothing has leaked.
LEMMA RoomSeen ==
    ASSUME IInv, NothingLeaks
    PROVE  /\ Store!Room = GetFreeSpaceRemaining(page)
           /\ GetFreeSpaceRemaining(page) = page.free - SIZE_TABLE_PAGE_HEADER - SIZE_TUPLE * page.count
<1>1. page.count \in Nat /\ page.free \in Nat /\ Slots(page) = 0..(page.count - 1)
  BY Parts
<1>2. Len(StoreOf(page)) = page.count
  BY StoreParts
<1>3. [i \in 1..page.count |-> Len(StoreOf(page)[i].tuple)] = Sizes(page)
  <2>1. ASSUME NEW i \in 1..page.count
        PROVE  Len(StoreOf(page)[i].tuple) = SizeOf(page, i - 1)
    <3>1. i - 1 \in Slots(page) /\ (i - 1) + 1 = i
      BY <1>1
    <3>2. StoreOf(page)[i].tuple = Bytes(page, i - 1)
      BY <3>1, StoreParts
    <3> QED
      BY <3>1, <3>2, SlotHolds
  <2> QED
    BY <2>1 DEF Sizes
<1>4. Store!Lengths = Sizes(page)
  <2>1. Store!Lengths = [i \in 1..Len(StoreOf(page)) |-> Len(StoreOf(page)[i].tuple)]
    BY Zenon DEF Store!Lengths, StoreOf
  <2> QED
    BY <2>1, <1>2, <1>3
<1>5. Store!Room = (PageSize - SIZE_TABLE_PAGE_HEADER) - SIZE_TUPLE * page.count - Store!Sum(Sizes(page), page.count)
  <2>1. Store!Room = (PageSize - SIZE_TABLE_PAGE_HEADER) - SIZE_TUPLE * Len(StoreOf(page))
                     - Store!Sum(Store!Lengths, Len(StoreOf(page)))
    BY Zenon DEF Store!Room, StoreOf
  <2> QED
    BY <2>1, <1>2, <1>4
<1>6. Sizes(page) \in [1..page.count -> Int]
  <2>1. ASSUME NEW i \in 1..page.count
        PROVE  SizeOf(page, i - 1) \in Int
    <3>1. i - 1 \in Slots(page)
      BY <1>1
    <3> QED
      BY <3>1, SlotHolds
  <2> QED
    BY <2>1 DEF Sizes
<1>7. Store!Sum(Sizes(page), page.count) \in Int
  BY <1>1, <1>6, SumIsNumber
<1>8. SIZE_TUPLE * page.count \in Nat
  BY <1>1, OneMoreSlot, Zenon
<1>9. GetFreeSpaceRemaining(page) = page.free - SIZE_TABLE_PAGE_HEADER - SIZE_TUPLE * page.count
  BY NoWrap DEF IInv, Layout, Words
<1>10. PICK sum \in Int : sum = Store!Sum(Sizes(page), page.count)
  BY <1>7
<1>11. PICK dir \in Nat : dir = SIZE_TUPLE * page.count
  BY <1>8
<1>12. page.free + sum = PageSize
  BY <1>10 DEF NothingLeaks
<1>13. (PageSize - SIZE_TABLE_PAGE_HEADER) - dir - sum = page.free - SIZE_TABLE_PAGE_HEADER - dir
  BY <1>1, <1>12, PageAssumption, SMTT(30)
<1> QED
  BY <1>5, <1>9, <1>10, <1>11, <1>13

-----------------------------------------------------------------------------
(* What each operation does to the slot it is called for.                  *)

\* What memcpy has written is there to read.
LEMMA CopiedBytes ==
    ASSUME NEW d, DOMAIN d = 0..(PageSize - 1), NEW t \in Seq(Nat), NEW at \in Nat, at + Len(t) <= PageSize,
           NEW p, p.data = memcpy(d, at, t)
    PROVE  BytesAt(p, at, Len(t)) = t
<1>1. Len(t) \in Nat /\ t = [k \in 1..Len(t) |-> t[k]]
  OBVIOUS
<1>2. ASSUME NEW k \in 1..Len(t)
      PROVE  p.data[at + k - 1] = t[k]
  <2>1. PICK y \in 0..(PageSize - 1) : y = at + k - 1
    BY <1>1, PageAssumption, SMTT(30)
  <2>2. y \in at..(at + Len(t) - 1) /\ y - at + 1 = k
    BY <2>1, <1>1, SMTT(30)
  <2>3. p.data[y] = t[y - at + 1]
    BY <2>2 DEF memcpy
  <2> QED
    BY <2>1, <2>2, <2>3
<1>3. BytesAt(p, at, Len(t)) = [k \in 1..Len(t) |-> p.data[at + k - 1]]
  BY DEF BytesAt
<1> QED
  BY <1>1, <1>2, <1>3

\* A tuple is a sequence of at least one byte and at most a page.
LEMMA TupleParts ==
    ASSUME NEW t \in Tuples
    PROVE  /\ t \in Seq(Nat) /\ Len(t) \in Nat /\ Len(t) >= 1 /\ Len(t) <= PageSize
           /\ UnsetDeletedFlag(Len(t)) = Len(t) /\ ~(Len(t) >= DELETE_MASK)
<1>1. t \in Seq(Nat) /\ Len(t) \in 1..PageSize
  BY TuplesAssumption
<1> QED
  BY <1>1, PageAssumption DEF UnsetDeletedFlag

\* InsertTuple, when there is room, puts the tuple in the free slot.
LEMMA InsertDoes ==
    ASSUME IInv, NEW t \in Tuples, ~(GetFreeSpaceRemaining(page) < Len(t) + SIZE_TUPLE),
           page' = InsertTuple(page, t).page, NEW i, i = FreeSlot(page),
           NEW n, n = IF i = page.count THEN page.count + 1 ELSE page.count
    PROVE  /\ InsertTuple(page, t).ok /\ InsertTuple(page, t).slot = i
           /\ page'.count = n /\ page'.free = page.free - Len(t)
           /\ i \in 0..(n - 1) /\ page'.size[i] = Len(t)
           /\ \A j \in 0..(n - 1) : j # i => /\ j \in Slots(page) /\ page'.size[j] = page.size[j]
                                             /\ page'.offset[j] = page.offset[j]
           /\ Entry(page', i) = [tuple |-> t, marked |-> FALSE] /\ SizeOf(page', i) = Len(t)
<1> DEFINE at == page.free - Len(t)
           oo == [j \in 0..(n - 1) |-> IF j = i THEN at ELSE page.offset[j]]
           zz == [j \in 0..(n - 1) |-> IF j = i THEN Len(t) ELSE page.size[j]]
<1>1. InsertTuple(page, t) =
        [ok |-> TRUE, slot |-> i,
         page |-> [page EXCEPT !.free = at, !.count = n, !.data = memcpy(@, at, t), !.offset = oo, !.size = zz]]
  BY Zenon DEF InsertTuple
<1>2. page' = [page EXCEPT !.free = at, !.count = n, !.data = memcpy(@, at, t), !.offset = oo, !.size = zz]
  <2> HIDE DEF at, oo, zz
  <2> QED
    BY <1>1
<1>3. /\ page'.count = n /\ page'.free = at /\ page'.offset = oo /\ page'.size = zz
      /\ page'.data = memcpy(page.data, at, t)
  <2> HIDE DEF at, oo, zz
  <2> QED
    BY <1>2 DEF IInv, Fields
<1>4. page.count \in Nat /\ page.free \in Nat /\ Slots(page) = 0..(page.count - 1) /\ page.free <= PageSize
  BY Parts DEF IInv, Layout, Room
<1>5. i \in 0..page.count
  BY <1>4, FreeSlotIsFree
<1>6. i \in 0..(n - 1) /\ \A j \in 0..(n - 1) : j # i => j \in 0..(page.count - 1)
  BY <1>4, <1>5
<1>7. page'.size[i] = Len(t) /\ page'.offset[i] = at
  BY <1>3, <1>6
<1>8. \A j \in 0..(n - 1) : j # i => /\ j \in Slots(page) /\ page'.size[j] = page.size[j]
                                     /\ page'.offset[j] = page.offset[j]
  BY <1>3, <1>4, <1>6
<1>9. t \in Seq(Nat) /\ Len(t) \in Nat /\ UnsetDeletedFlag(Len(t)) = Len(t) /\ ~(Len(t) >= DELETE_MASK)
  BY TupleParts
<1>10. at \in Nat /\ at + Len(t) <= PageSize
  <2>1. GetFreeSpaceRemaining(page) = page.free - SIZE_TABLE_PAGE_HEADER - SIZE_TUPLE * page.count
    BY NoWrap DEF IInv, Layout, Words
  <2>2. PICK dir \in Nat : dir = SIZE_TUPLE * page.count
    BY <1>4, OneMoreSlot, Zenon
  <2>3. ~(page.free - SIZE_TABLE_PAGE_HEADER - dir < Len(t) + SIZE_TUPLE)
    BY <2>1, <2>2
  <2>4. PICK free \in Nat, len \in Nat : free = page.free /\ len = Len(t)
    BY <1>4, <1>9
  <2>5. ~(free - SIZE_TABLE_PAGE_HEADER - dir < len + SIZE_TUPLE) /\ free <= PageSize
    BY <2>3, <2>4, <1>4
  <2>6. free - len \in Nat /\ free - len + len <= PageSize
    BY <2>5, PageAssumption
  <2> QED
    BY <2>4, <2>6
<1>11. SizeOf(page', i) = Len(t)
  BY <1>7, <1>9 DEF SizeOf
<1>12. Bytes(page', i) = t
  <2>1. DOMAIN page.data = 0..(PageSize - 1)
    BY DEF IInv
  <2>2. PICK p : p = page'
    OBVIOUS
  <2>3. p.data = memcpy(page.data, at, t)
    BY <2>2, <1>3
  <2> HIDE DEF at
  <2>4. BytesAt(p, at, Len(t)) = t
    BY <2>1, <2>3, <1>9, <1>10, CopiedBytes
  <2> QED
    BY <2>2, <2>4, <1>7, <1>11 DEF Bytes
<1>13. Entry(page', i) = [tuple |-> t, marked |-> FALSE]
  <2>1. (page'.size[i] >= DELETE_MASK) = FALSE
    BY <1>7, <1>9
  <2> QED
    BY <2>1, <1>12, Zenon DEF Entry
<1>14. InsertTuple(page, t).ok /\ InsertTuple(page, t).slot = i
  <2> HIDE DEF at, oo, zz
  <2> QED
    BY <1>1
<1> QED
  BY <1>3, <1>6, <1>7, <1>8, <1>11, <1>13, <1>14, Zenon

\* UpdateTuple, when it is not refused, writes the new tuple in its slot and returns the old.
LEMMA UpdateDoes ==
    ASSUME IInv, NEW s \in 0..page.count, NEW t \in Tuples,
           ~(s >= page.count \/ IsDeleted(page.size[s]) \/ ~Fits(page, t, page.size[s])),
           page' = UpdateTuple(page, t, s).page
    PROVE  /\ UpdateTuple(page, t, s).ok /\ UpdateTuple(page, t, s).old = Bytes(page, s)
           /\ s \in Slots(page) /\ SizeOf(page, s) = page.size[s]
           /\ page'.count = page.count /\ page'.free = page.free + (page.size[s] - Len(t))
           /\ page'.size[s] = Len(t)
           /\ \A j \in Slots(page) : j # s => /\ page'.size[j] = page.size[j]
                                              /\ page.size[j] = 0 => page'.offset[j] = page.offset[j]
           /\ Entry(page', s) = [tuple |-> t, marked |-> FALSE] /\ SizeOf(page', s) = Len(t)
<1> DEFINE by == page.size[s] - Len(t)
           moved == memmove(page.data, page.free + by, page.free, page.offset[s] - page.free)
           zz == [page.size EXCEPT ![s] = Len(t)]
           oo == Shifted(page.offset, zz, page.offset[s] + page.size[s], by)
<1>1. UpdateTuple(page, t, s) =
        [ok |-> TRUE, old |-> BytesAt(page, page.offset[s], page.size[s]),
         page |-> [page EXCEPT !.free = @ + by, !.size = zz, !.data = memcpy(moved, page.offset[s] + by, t),
                               !.offset = oo]]
  BY Zenon DEF UpdateTuple
<1>2. page' = [page EXCEPT !.free = @ + by, !.size = zz, !.data = memcpy(moved, page.offset[s] + by, t),
                           !.offset = oo]
  <2> HIDE DEF by, moved, oo, zz
  <2> QED
    BY <1>1
<1>3. /\ page'.count = page.count /\ page'.free = page.free + by /\ page'.offset = oo
      /\ page'.size = zz /\ page'.data = memcpy(moved, page.offset[s] + by, t)
  <2> HIDE DEF by, moved, oo, zz
  <2> QED
    BY <1>2 DEF IInv, Fields
<1>4. /\ page.count \in Nat /\ page.free \in Nat /\ Slots(page) = 0..(page.count - 1)
      /\ page.offset \in [0..(page.count - 1) -> Nat] /\ page.size \in [0..(page.count - 1) -> Nat]
  BY Parts
<1>5. s \in 0..(page.count - 1) /\ page.size[s] \in Nat /\ page.offset[s] \in Nat
      /\ page.size[s] # 0 /\ ~(page.size[s] >= DELETE_MASK)
  BY <1>4 DEF IsDeleted
<1>6. SizeOf(page, s) = page.size[s]
  BY <1>5 DEF SizeOf, UnsetDeletedFlag
<1>7. /\ t \in Seq(Nat) /\ Len(t) \in Nat /\ UnsetDeletedFlag(Len(t)) = Len(t) /\ ~(Len(t) >= DELETE_MASK)
      /\ Len(t) >= 1
  BY TupleParts
<1>8. page'.size[s] = Len(t) /\ \A j \in Slots(page) : j # s => page'.size[j] = page.size[j]
  BY <1>3, <1>4, <1>5, Zenon
<1>9. page'.offset[s] = page.offset[s] + by
  <2>1. zz[s] # 0 /\ page.offset[s] < page.offset[s] + page.size[s] /\ s \in DOMAIN page.offset
    BY <1>4, <1>5, <1>7, SMTT(30)
  <2> HIDE DEF zz, by
  <2> QED
    BY <2>1, <1>3 DEF Shifted
<1>10. ASSUME NEW j \in Slots(page), j # s, page.size[j] = 0
       PROVE  page'.offset[j] = page.offset[j]
  <2>1. zz[j] = 0 /\ j \in DOMAIN page.offset
    BY <1>4, <1>10
  <2> HIDE DEF zz, by
  <2> QED
    BY <2>1, <1>3 DEF Shifted
<1>11. page.offset[s] + by \in Nat /\ page.offset[s] + by + Len(t) <= PageSize
  <2>1. page.free <= page.offset[s] /\ page.offset[s] + page.size[s] <= PageSize
    BY <1>5, <1>6 DEF IInv, Layout, Inside, SizeOf
  <2>2. page.free + by >= 0
    <3>1. GetFreeSpaceRemaining(page) = page.free - SIZE_TABLE_PAGE_HEADER - SIZE_TUPLE * page.count
      BY NoWrap DEF IInv, Layout, Words
    <3>2. PICK dir \in Nat : dir = SIZE_TUPLE * page.count
      BY <1>4, OneMoreSlot, Zenon
    <3>3. page.free - SIZE_TABLE_PAGE_HEADER - dir + page.size[s] >= Len(t)
      BY <3>1, <3>2 DEF Fits
    <3>4. PICK free \in Nat, len \in Nat, size \in Nat : free = page.free /\ len = Len(t) /\ size = page.size[s]
      BY <1>4, <1>5, <1>7, SMTT(30)
    <3>5. free - SIZE_TABLE_PAGE_HEADER - dir + size >= len
      BY <3>3, <3>4
    <3>6. free + (size - len) >= 0
      BY <3>5, PageAssumption
    <3> QED
      BY <3>4, <3>6
  <2>3. PICK free \in Nat, len \in Nat, size \in Nat, at \in Nat :
          free = page.free /\ len = Len(t) /\ size = page.size[s] /\ at = page.offset[s]
    BY <1>4, <1>5, <1>7, SMTT(30)
  <2>4. free <= at /\ at + size <= PageSize /\ free + (size - len) >= 0
    BY <2>1, <2>2, <2>3
  <2>5. at + (size - len) \in Nat /\ at + (size - len) + len <= PageSize
    BY <2>4, PageAssumption
  <2> QED
    BY <2>3, <2>5
<1>12. SizeOf(page', s) = Len(t)
  BY <1>7, <1>8 DEF SizeOf
<1>13. Bytes(page', s) = t
  <2>1. DOMAIN moved = 0..(PageSize - 1)
    BY DEF IInv, memmove
  <2>2. PICK p : p = page'
    OBVIOUS
  <2>3. p.data = memcpy(moved, page.offset[s] + by, t)
    BY <2>2, <1>3
  <2> HIDE DEF by, moved
  <2>4. BytesAt(p, page.offset[s] + by, Len(t)) = t
    BY <2>1, <2>3, <1>7, <1>11, CopiedBytes, Zenon
  <2> QED
    BY <2>2, <2>4, <1>9, <1>12 DEF Bytes
<1>14. Entry(page', s) = [tuple |-> t, marked |-> FALSE]
  <2>1. (page'.size[s] >= DELETE_MASK) = FALSE
    BY <1>7, <1>8
  <2> QED
    BY <2>1, <1>13, Zenon DEF Entry
<1>15. UpdateTuple(page, t, s).ok /\ UpdateTuple(page, t, s).old = Bytes(page, s)
  <2> HIDE DEF by, moved, oo, zz
  <2> QED
    BY <1>1, <1>6 DEF Bytes
<1> QED
  BY <1>3, <1>4, <1>5, <1>6, <1>8, <1>10, <1>12, <1>14, <1>15, Zenon

\* ApplyDelete empties its slot.
LEMMA ApplyDoes ==
    ASSUME IInv, NEW s \in Slots(page), page' = ApplyDelete(page, s)
    PROVE  /\ page'.count = page.count /\ page'.free = page.free + SizeOf(page, s)
           /\ page'.size[s] = 0 /\ page'.offset[s] = 0
           /\ \A j \in Slots(page) : j # s => /\ page'.size[j] = page.size[j]
                                              /\ page.size[j] = 0 => page'.offset[j] = page.offset[j]
           /\ Entry(page', s) = [tuple |-> <<>>, marked |-> FALSE] /\ SizeOf(page', s) = 0
<1> DEFINE w == UnsetDeletedFlag(page.size[s])
           zz == [page.size EXCEPT ![s] = 0]
           cleared == [page.offset EXCEPT ![s] = 0]
           oo == Shifted(cleared, zz, page.offset[s], w)
           moved == memmove(page.data, page.free + w, page.free, page.offset[s] - page.free)
<1>1. page' = [page EXCEPT !.free = page.free + w, !.size = zz, !.data = moved, !.offset = oo]
  BY Zenon DEF ApplyDelete, Reclaimed
<1>2. page'.count = page.count /\ page'.free = page.free + w /\ page'.offset = oo /\ page'.size = zz
  <2> HIDE DEF w, moved, oo, zz
  <2> QED
    BY <1>1 DEF IInv, Fields
<1>3. /\ page.count \in Nat /\ Slots(page) = 0..(page.count - 1)
      /\ page.offset \in [0..(page.count - 1) -> Nat] /\ page.size \in [0..(page.count - 1) -> Nat]
  BY Parts
<1>4. zz[s] = 0 /\ cleared[s] = 0 /\ DOMAIN cleared = Slots(page)
  BY <1>3
<1>5. \A j \in Slots(page) : j # s => zz[j] = page.size[j] /\ cleared[j] = page.offset[j]
  BY <1>3
<1> HIDE DEF zz, cleared, w
<1>6. \A j \in Slots(page) : zz[j] = 0 => oo[j] = cleared[j]
  BY <1>4 DEF Shifted
<1>7. page'.size[s] = 0 /\ page'.offset[s] = 0
  BY <1>2, <1>4, <1>6
<1>8. \A j \in Slots(page) : j # s => /\ page'.size[j] = page.size[j]
                                      /\ page.size[j] = 0 => page'.offset[j] = page.offset[j]
  BY <1>2, <1>5, <1>6
<1>9. SizeOf(page', s) = 0 /\ ~(page'.size[s] >= DELETE_MASK)
  BY <1>7, PageAssumption DEF SizeOf, UnsetDeletedFlag
<1>10. Bytes(page', s) = <<>>
  BY <1>9, BytesLength DEF Bytes
<1>11. Entry(page', s) = [tuple |-> <<>>, marked |-> FALSE]
  <2>1. (page'.size[s] >= DELETE_MASK) = FALSE
    BY <1>9
  <2> QED
    BY <2>1, <1>10, Zenon DEF Entry
<1> QED
  BY <1>2, <1>7, <1>8, <1>9, <1>11 DEF w, SizeOf

-----------------------------------------------------------------------------
(* Nothing leaks.                                                          *)

\* A change of one size word that keeps the size, as MarkDelete and RollbackDelete make it.
LEMMA FlagDoes ==
    ASSUME IInv, NEW s \in Slots(page), NEW w \in Nat, UnsetDeletedFlag(w) = UnsetDeletedFlag(page.size[s]),
           page' = [page EXCEPT !.size[s] = w]
    PROVE  /\ page'.count = page.count /\ page'.free = page.free /\ page'.offset = page.offset
           /\ page'.size[s] = w /\ SizeOf(page', s) = SizeOf(page, s)
           /\ \A j \in Slots(page) : j # s => page'.size[j] = page.size[j]
           /\ Entry(page', s) = [tuple |-> Bytes(page, s), marked |-> w >= DELETE_MASK]
<1>1. /\ page'.count = page.count /\ page'.free = page.free /\ page'.offset = page.offset
      /\ page'.size = [page.size EXCEPT ![s] = w] /\ page'.data = page.data
  BY DEF IInv, Fields
<1>2. Slots(page) = 0..(page.count - 1) /\ page.size \in [0..(page.count - 1) -> Nat]
  BY Parts
<1>3. page'.size[s] = w /\ \A j \in Slots(page) : j # s => page'.size[j] = page.size[j]
  <2>1. PICK z : z = page.size
    OBVIOUS
  <2>2. DOMAIN z = Slots(page) /\ page'.size = [z EXCEPT ![s] = w]
    BY <2>1, <1>1, <1>2
  <2> QED
    BY <2>1, <2>2
<1>4. SizeOf(page', s) = SizeOf(page, s)
  BY <1>3 DEF SizeOf
<1>5. Bytes(page', s) = Bytes(page, s)
  BY <1>1, <1>4 DEF Bytes, BytesAt
<1>6. Entry(page', s) = [tuple |-> Bytes(page, s), marked |-> w >= DELETE_MASK]
  BY <1>3, <1>5, Zenon DEF Entry
<1> QED
  BY <1>1, <1>3, <1>4, <1>6

\* The sizes of a page are numbers.
LEMMA SizesType ==
    ASSUME NEW p, Words(p.count, p.offset, p.size)
    PROVE  /\ p.count \in Nat /\ Sizes(p) \in [1..p.count -> Int]
           /\ \A s \in 0..(p.count - 1) :
                s + 1 \in 1..p.count /\ Sizes(p)[s + 1] = SizeOf(p, s) /\ SizeOf(p, s) \in Nat
<1>1. p.count \in Nat /\ \A s \in 0..(p.count - 1) : p.size[s] \in Nat
  BY DEF Words
<1>2. \A s \in 0..(p.count - 1) : SizeOf(p, s) \in Nat
  BY <1>1, PageAssumption DEF SizeOf, UnsetDeletedFlag
<1>3. \A i \in 1..p.count : SizeOf(p, i - 1) \in Int
  <2> SUFFICES ASSUME NEW i \in 1..p.count PROVE SizeOf(p, i - 1) \in Int
    OBVIOUS
  <2>1. i - 1 \in 0..(p.count - 1)
    BY <1>1
  <2> QED
    BY <2>1, <1>2
<1>4. Sizes(p) \in [1..p.count -> Int]
  BY <1>3 DEF Sizes
<1>5. ASSUME NEW s \in 0..(p.count - 1)
      PROVE  s + 1 \in 1..p.count /\ Sizes(p)[s + 1] = SizeOf(p, s)
  <2>1. s + 1 \in 1..p.count /\ (s + 1) - 1 = s
    BY <1>1
  <2> QED
    BY <2>1 DEF Sizes
<1> QED
  BY <1>1, <1>2, <1>4, <1>5

\* A step on one slot gives back what the slot gets smaller by, or takes what it grows by.
LEMMA OneSlotBalances ==
    ASSUME IInv, IInv', NothingLeaks, NEW s \in Slots(page), page'.count = page.count,
           \A j \in Slots(page) : j # s => SizeOf(page', j) = SizeOf(page, j),
           page'.free = page.free + SizeOf(page, s) - SizeOf(page', s)
    PROVE  NothingLeaks'
<1> DEFINE n == page.count
<1>1. PICK p, q : p = page /\ q = page'
  OBVIOUS
<1>2. Words(p.count, p.offset, p.size) /\ Words(q.count, q.offset, q.size)
  BY <1>1 DEF IInv, Layout
<1>3. n \in Nat /\ p.count = n /\ q.count = n /\ Slots(page) = 0..(n - 1) /\ page.free \in Nat
  BY <1>1, Parts
<1>4. /\ Sizes(p) \in [1..n -> Int] /\ Sizes(q) \in [1..n -> Int]
      /\ \A j \in 0..(n - 1) : /\ j + 1 \in 1..n /\ Sizes(p)[j + 1] = SizeOf(p, j) /\ SizeOf(p, j) \in Nat
                               /\ Sizes(q)[j + 1] = SizeOf(q, j) /\ SizeOf(q, j) \in Nat
  BY <1>2, <1>3, SizesType
<1> HIDE DEF n
<1>5. \A i \in 1..n : i # s + 1 => Sizes(q)[i] = Sizes(p)[i]
  <2> SUFFICES ASSUME NEW i \in 1..n, i # s + 1 PROVE Sizes(q)[i] = Sizes(p)[i]
    OBVIOUS
  <2>1. PICK j \in 0..(n - 1) : i = j + 1
    <3>1. i - 1 \in 0..(n - 1) /\ i = (i - 1) + 1
      BY <1>3
    <3> QED
      BY <3>1
  <2>2. j # s
    BY <2>1
  <2> QED
    BY <2>1, <2>2, <1>1, <1>3, <1>4, Zenon
<1>6. s + 1 \in 1..n /\ s \in 0..(n - 1)
  BY <1>3, <1>4, SMTT(30)
<1>7. Store!Sum(Sizes(q), n) = Store!Sum(Sizes(p), n) + Sizes(q)[s + 1] - Sizes(p)[s + 1]
  <2>1. PICK k \in 1..n : k = s + 1
    BY <1>6
  <2>2. \A i \in 1..n : i # k => Sizes(q)[i] = Sizes(p)[i]
    BY <2>1, <1>5
  <2>3. Store!Sum(Sizes(q), n) = Store!Sum(Sizes(p), n) + Sizes(q)[k] - Sizes(p)[k]
    BY <2>2, <1>3, <1>4, SumChanges, Zenon
  <2> QED
    BY <2>1, <2>3
<1>8. PICK a \in Int : a = Store!Sum(Sizes(p), n)
  BY <1>3, <1>4, SumIsNumber, Zenon
<1>9. PICK x \in Nat, y \in Nat : x = SizeOf(p, s) /\ y = SizeOf(q, s)
  BY <1>4, <1>6
<1>10. Store!Sum(Sizes(q), n) = a + y - x
  BY <1>4, <1>6, <1>7, <1>8, <1>9
<1>11. page.free + a = PageSize /\ page'.free = page.free + x - y
  BY <1>1, <1>3, <1>8, <1>9 DEF NothingLeaks
<1>12. page'.free + (a + y - x) = PageSize
  BY <1>3, <1>11
<1> QED
  BY <1>1, <1>3, <1>10, <1>12 DEF NothingLeaks

\* So does a step that makes a slot.
LEMMA NewSlotBalances ==
    ASSUME IInv, IInv', NothingLeaks, page'.count = page.count + 1,
           \A j \in Slots(page) : SizeOf(page', j) = SizeOf(page, j),
           page'.free = page.free - SizeOf(page', page.count)
    PROVE  NothingLeaks'
<1> DEFINE n == page.count
<1>1. PICK p, q : p = page /\ q = page'
  OBVIOUS
<1>2. Words(p.count, p.offset, p.size) /\ Words(q.count, q.offset, q.size)
  BY <1>1 DEF IInv, Layout
<1>3. n \in Nat /\ p.count = n /\ q.count = n + 1 /\ Slots(page) = 0..(n - 1) /\ page.free \in Nat
  BY <1>1, Parts
<1> HIDE DEF n
<1>4. /\ Sizes(p) \in [1..n -> Int] /\ Sizes(q) \in [1..(n + 1) -> Int]
      /\ \A j \in 0..(n - 1) : Sizes(p)[j + 1] = SizeOf(p, j)
      /\ \A j \in 0..n : Sizes(q)[j + 1] = SizeOf(q, j) /\ SizeOf(q, j) \in Nat
  <2>1. (n + 1) - 1 = n
    BY <1>3
  <2> QED
    BY <2>1, <1>2, <1>3, SizesType, Zenon
<1>5. \A i \in 1..n : Sizes(q)[i] = Sizes(p)[i]
  <2> SUFFICES ASSUME NEW i \in 1..n PROVE Sizes(q)[i] = Sizes(p)[i]
    OBVIOUS
  <2>1. PICK j \in 0..(n - 1) : i = j + 1 /\ j \in 0..n
    <3>1. i - 1 \in 0..(n - 1) /\ i = (i - 1) + 1 /\ i - 1 \in 0..n
      BY <1>3
    <3> QED
      BY <3>1
  <2> QED
    BY <2>1, <1>1, <1>3, <1>4, ZenonT(30)
<1>6. Store!Sum(Sizes(q), n + 1) = Store!Sum(Sizes(p), n) + Sizes(q)[n + 1]
  BY <1>3, <1>4, <1>5, SumGrows, Zenon
<1>7. PICK a \in Int : a = Store!Sum(Sizes(p), n)
  BY <1>3, <1>4, SumIsNumber, Zenon
<1>8. PICK y \in Nat : y = SizeOf(q, n) /\ Sizes(q)[n + 1] = y
  <2>1. n \in 0..n
    BY <1>3
  <2> QED
    BY <2>1, <1>4
<1>9. page.free + a = PageSize /\ page'.free = page.free - y
  BY <1>1, <1>3, <1>7, <1>8 DEF NothingLeaks, n
<1>10. page'.free + (a + y) = PageSize
  BY <1>3, <1>9
<1> QED
  BY <1>1, <1>3, <1>6, <1>7, <1>8, <1>10 DEF NothingLeaks

-----------------------------------------------------------------------------
(* The page is a store of tuples.                                          *)

StoreInv == IInv /\ Cleared(page.count, page.offset, page.size) /\ NothingLeaks

Least(T) == CHOOSE i \in T : \A j \in T : i <= j

\* Slots are numbered from 0 and entries from 1: the least of one is the least of the other.
LEMMA LeastShifted ==
    ASSUME NEW A, A \subseteq Nat, NEW B, B \subseteq Nat,
           \A x \in A : x + 1 \in B, \A y \in B : y - 1 \in A, A # {}
    PROVE  B # {} /\ Least(A) \in A /\ Least(B) = Least(A) + 1
<1>1. \E i \in A : \A j \in A : i <= j
  BY Smallest, Zenon
<1>2. Least(A) \in A /\ \A j \in A : Least(A) <= j
  BY <1>1, Zenon DEF Least
<1>3. B # {}
  BY <1>2, Zenon
<1>4. \E i \in B : \A j \in B : i <= j
  BY <1>3, Smallest, Zenon
<1>5. Least(B) \in B /\ \A j \in B : Least(B) <= j
  BY <1>4, Zenon DEF Least
<1>6. PICK a \in A, b \in B : a = Least(A) /\ b = Least(B)
  BY <1>2, <1>5, Zenon
<1>7. a \in Nat /\ b \in Nat /\ a <= b - 1 /\ b <= a + 1
  BY <1>2, <1>5, <1>6
<1>8. b = a + 1
  BY <1>7
<1> QED
  BY <1>2, <1>3, <1>6, <1>8

\* The first empty slot, as the users count.
LEMMA FreeSlotSeen ==
    ASSUME IInv, NEW empty, empty = {i \in 1..Len(StoreOf(page)) : StoreOf(page)[i].tuple = <<>>}
    PROVE  /\ empty = {} => FreeSlot(page) = page.count
           /\ empty # {} => /\ FreeSlot(page) \in Slots(page)
                            /\ Least(empty) = FreeSlot(page) + 1
<1> DEFINE A == {i \in Slots(page) : page.size[i] = 0}
<1>1. page.count \in Nat /\ Slots(page) = 0..(page.count - 1) /\ Len(StoreOf(page)) = page.count
  BY Parts, StoreParts
<1>2. \A x \in A : x + 1 \in empty
  <2> SUFFICES ASSUME NEW x \in Slots(page), page.size[x] = 0 PROVE x + 1 \in empty
    OBVIOUS
  <2>1. Bytes(page, x) = <<>> /\ x + 1 \in 1..page.count /\ StoreOf(page)[x + 1].tuple = Bytes(page, x)
    BY SlotHolds, StoreParts
  <2> QED
    BY <2>1, <1>1
<1>3. \A y \in empty : y - 1 \in A
  <2> SUFFICES ASSUME NEW y \in 1..page.count, StoreOf(page)[y].tuple = <<>> PROVE y - 1 \in A
    BY <1>1, SMTT(30)
  <2>1. PICK x \in Slots(page) : y = x + 1 /\ y - 1 = x
    <3>1. y - 1 \in Slots(page) /\ y = (y - 1) + 1
      BY <1>1
    <3> QED
      BY <3>1
  <2>2. StoreOf(page)[y].tuple = Bytes(page, x)
    BY <2>1, StoreParts
  <2>3. page.size[x] = 0
    BY <2>2, SlotHolds
  <2> QED
    BY <2>1, <2>3
<1>4. A \subseteq Nat /\ empty \subseteq Nat
  BY <1>1
<1>5. FreeSlot(page) = IF A = {} THEN page.count ELSE Least(A)
  BY DEF FreeSlot, Least
<1>6. A \subseteq Slots(page)
  OBVIOUS
<1> HIDE DEF A
<1>7. CASE A = {}
  BY <1>3, <1>5, <1>7
<1>8. CASE A # {}
  <2>1. empty # {} /\ Least(A) \in A /\ Least(empty) = Least(A) + 1
    BY <1>2, <1>3, <1>4, <1>8, LeastShifted, Zenon
  <2> QED
    BY <2>1, <1>5, <1>6, <1>8
<1> QED
  BY <1>7, <1>8

\* The walk over the live slots, as the users count.
LEMMA LiveFromSeen ==
    ASSUME IInv, NEW s \in -1..page.count,
           NEW later, later = {i \in 1..Len(StoreOf(page)) : Store!Live(i) /\ i > s + 1}
    PROVE  LiveFrom(page, s + 1) =
             IF later = {} THEN -1 ELSE Least(later) - 1
<1> DEFINE A == {i \in Slots(page) : i >= s + 1 /\ ~IsDeleted(page.size[i])}
<1>1. page.count \in Nat /\ Slots(page) = 0..(page.count - 1) /\ Len(StoreOf(page)) = page.count
  BY Parts, StoreParts
<1>2. ASSUME NEW x \in Slots(page)
      PROVE  Store!Live(x + 1) <=> ~IsDeleted(page.size[x])
  <2>1. x \in 0..page.count /\ ~(x >= page.count)
    BY <1>1
  <2> QED
    BY <2>1, SlotLive
<1>3. \A x \in A : x + 1 \in later
  <2> SUFFICES ASSUME NEW x \in Slots(page), x >= s + 1, ~IsDeleted(page.size[x]) PROVE x + 1 \in later
    OBVIOUS
  <2>1. x + 1 \in 1..page.count /\ x + 1 > s + 1
    BY <1>1
  <2> QED
    BY <2>1, <1>1, <1>2
<1>4. \A y \in later : y - 1 \in A
  <2> SUFFICES ASSUME NEW y \in 1..page.count, Store!Live(y), y > s + 1 PROVE y - 1 \in A
    BY <1>1
  <2>1. PICK x \in Slots(page) : y = x + 1 /\ y - 1 = x
    <3>1. y - 1 \in Slots(page) /\ y = (y - 1) + 1
      BY <1>1
    <3> QED
      BY <3>1
  <2>2. x >= s + 1
    BY <2>1, <1>1
  <2> QED
    BY <2>1, <2>2, <1>2
<1>5. A \subseteq Nat /\ later \subseteq Nat
  BY <1>1
<1>6. LiveFrom(page, s + 1) = IF A = {} THEN -1 ELSE Least(A)
  BY DEF LiveFrom, Least
<1> HIDE DEF A
<1>7. CASE A = {}
  BY <1>4, <1>6, <1>7
<1>8. CASE A # {}
  <2>1. later # {} /\ Least(A) \in A /\ Least(later) = Least(A) + 1
    BY <1>3, <1>4, <1>5, <1>8, LeastShifted, Zenon
  <2>2. PICK a \in Nat : a = Least(A)
    BY <2>1, <1>5, Zenon
  <2>3. (a + 1) - 1 = a
    OBVIOUS
  <2> QED
    BY <2>1, <2>2, <2>3, <1>6, <1>8
<1> QED
  BY <1>7, <1>8

\* A step on one slot changes one entry.
LEMMA OneEntry ==
    ASSUME IInv, NEW s \in Slots(page), page'.count = page.count,
           \A j \in Slots(page) : j # s => page'.size[j] = page.size[j] /\ (j \in Occupied(page) => Kept(j))
    PROVE  /\ StoreOf(page') = [StoreOf(page) EXCEPT ![s + 1] = Entry(page', s)]
           /\ \A j \in Slots(page) : j # s => SizeOf(page', j) = SizeOf(page, j)
<1>1. page.count \in Nat /\ Slots(page) = 0..(page.count - 1)
  BY Parts
<1>2. \A j \in Slots(page) : j # s => Entry(page', j) = Entry(page, j) /\ SizeOf(page', j) = SizeOf(page, j)
  BY EntryKept
<1> DEFINE old == StoreOf(page)
           new == StoreOf(page')
<1>3. old = [i \in 1..page.count |-> Entry(page, i - 1)] /\ new = [i \in 1..page.count |-> Entry(page', i - 1)]
  BY DEF StoreOf
<1>4. ASSUME NEW i \in 1..page.count
      PROVE  new[i] = IF i = s + 1 THEN Entry(page', s) ELSE old[i]
  <2>1. PICK j \in Slots(page) : j = i - 1 /\ i = j + 1
    <3>1. i - 1 \in Slots(page) /\ i = (i - 1) + 1
      BY <1>1
    <3> QED
      BY <3>1
  <2>2. new[i] = Entry(page', j) /\ old[i] = Entry(page, j)
    BY <2>1, <1>3
  <2>3. j = s <=> i = s + 1
    BY <2>1, <1>1
  <2> QED
    BY <2>2, <2>3, <1>2
<1>5. new = [old EXCEPT ![s + 1] = Entry(page', s)]
  <2>1. DOMAIN old = 1..page.count /\ new = [i \in 1..page.count |-> new[i]]
    BY <1>3
  <2> HIDE DEF old, new
  <2> QED
    BY <2>1, <1>4, Zenon
<1> QED
  BY <1>2, <1>5

\* What Append makes of a sequence.
LEMMA Appended ==
    ASSUME NEW n \in Nat, NEW st, st = [k \in 1..n |-> st[k]], NEW e
    PROVE  Append(st, e) = [k \in 1..(n + 1) |-> IF k = n + 1 THEN e ELSE st[k]]
<1> DEFINE C == {st[k] : k \in 1..n} \cup {e}
<1>1. st \in [1..n -> C] /\ e \in C
  OBVIOUS
<1> HIDE DEF C
<1>2. st \in Seq(C) /\ Len(st) = n
  BY <1>1
<1>3. /\ Append(st, e) \in Seq(C) /\ Len(Append(st, e)) = n + 1
      /\ \A k \in 1..(n + 1) : Append(st, e)[k] = IF k = n + 1 THEN e ELSE st[k]
  BY <1>1, <1>2
<1>4. Append(st, e) = [k \in 1..(n + 1) |-> Append(st, e)[k]]
  BY <1>3
<1> QED
  BY <1>3, <1>4

\* A call that is refused, or only reads.
LEMMA NothingSeen ==
    ASSUME StoreInv, page' = page
    PROVE  StoreInv' /\ StoreOf(page') = StoreOf(page)
<1>1. IInv'
  BY SamePage DEF StoreInv
<1>2. Cleared(page.count, page.offset, page.size)'
  BY DEF StoreInv
<1>3. NothingLeaks'
  BY DEF StoreInv, NothingLeaks
<1> QED
  BY <1>1, <1>2, <1>3 DEF StoreInv

\* The empty slots stay without a place.
LEMMA StaysCleared ==
    ASSUME StoreInv, page'.count \in Nat, NEW s,
           page'.size[s] = 0 => page'.offset[s] = 0,
           \A j \in 0..(page'.count - 1) : j # s =>
               /\ j \in Slots(page) /\ page'.size[j] = page.size[j]
               /\ page.size[j] = 0 => page'.offset[j] = page.offset[j]
    PROVE  Cleared(page.count, page.offset, page.size)'
BY DEF StoreInv, Cleared, Slots

\* InsertTuple is the insert of the store: refused when there is no room, in the first
\* empty slot or in a new one otherwise.
LEMMA InsertSeen ==
    ASSUME StoreInv, NEW t \in Tuples, page' = InsertTuple(page, t).page,
           answer' = IF InsertTuple(page, t).ok THEN Says("inserted", InsertTuple(page, t).slot, t)
                     ELSE Says("refused", 0, t)
    PROVE  StoreInv' /\ Store!StoreInsert(t)
<1> DEFINE empty == {k \in 1..Len(StoreOf(page)) : StoreOf(page)[k].tuple = <<>>}
           e == [tuple |-> t, marked |-> FALSE]
           st == StoreOf(page)
<1>1. IInv /\ NothingLeaks
  BY DEF StoreInv
<1>2. Store!Room = GetFreeSpaceRemaining(page)
  BY <1>1, RoomSeen
<1>3. CASE GetFreeSpaceRemaining(page) < Len(t) + SIZE_TUPLE
  <2>1. InsertTuple(page, t) = [ok |-> FALSE, page |-> page, slot |-> 0]
    BY <1>3 DEF InsertTuple
  <2>2. page' = page /\ answer' = Says("refused", 0, t)
    BY <2>1
  <2>3. StoreInv' /\ StoreOf(page') = StoreOf(page)
    BY <2>2, NothingSeen
  <2>4. Store!StoreInsert(t)
    <3>1. Store!Room < Len(t) + SIZE_TUPLE
      BY <1>2, <1>3
    <3> QED
      BY <2>2, <2>3, <3>1, Zenon DEF Store!StoreInsert, Says, Store!Says, StoreOf
  <2> QED
    BY <2>3, <2>4
<1>4. CASE ~(GetFreeSpaceRemaining(page) < Len(t) + SIZE_TUPLE)
  <2>1. PICK i, n : i = FreeSlot(page) /\ n = IF i = page.count THEN page.count + 1 ELSE page.count
    OBVIOUS
  <2>2. /\ InsertTuple(page, t).ok /\ InsertTuple(page, t).slot = i
        /\ page'.count = n /\ page'.free = page.free - Len(t)
        /\ i \in 0..(n - 1) /\ page'.size[i] = Len(t)
        /\ \A j \in 0..(n - 1) : j # i => /\ j \in Slots(page) /\ page'.size[j] = page.size[j]
                                          /\ page'.offset[j] = page.offset[j]
        /\ Entry(page', i) = e /\ SizeOf(page', i) = Len(t)
    BY <2>1, <1>1, <1>4, InsertDoes, SMTT(30)
  <2>3. IInv' /\ \A j \in Occupied(page) : Kept(j)
    BY <1>1, InsertStep
  <2>4. page.count \in Nat /\ Slots(page) = 0..(page.count - 1) /\ Len(st) = page.count /\ DOMAIN st = 1..page.count
        /\ page.free \in Nat
    BY <1>1, Parts, StoreParts
  <2>5. Len(t) \in Nat /\ Len(t) >= 1
    BY TupleParts
  <2>6. Cleared(page.count, page.offset, page.size)'
    <3>1. page'.count \in Nat
      BY <2>1, <2>2, <2>4
    <3>2. page'.size[i] = 0 => page'.offset[i] = 0
      BY <2>2, <2>5
    <3> QED
      BY <2>2, <3>1, <3>2, StaysCleared
  <2>7. answer' = Says("inserted", i, t)
    BY <2>2
  <2>8. ~(Store!Room < Len(t) + SIZE_TUPLE)
    BY <1>2, <1>4
  <2> HIDE DEF empty, e, st
  <2>9. CASE empty = {}
    <3>1. i = page.count /\ n = page.count + 1
      BY <2>1, <2>9, <1>1, FreeSlotSeen, Zenon DEF empty
    <3>2. \A j \in Slots(page) : j \in 0..(n - 1) /\ j # i
      BY <3>1, <2>4
    <3>3. \A j \in Slots(page) : Entry(page', j) = Entry(page, j) /\ SizeOf(page', j) = SizeOf(page, j)
      BY <3>2, <2>2, <2>3, <1>1, EntryKept
    <3>4. NothingLeaks'
      BY <3>1, <3>3, <2>2, <2>3, <1>1, NewSlotBalances
    <3>5. StoreOf(page') = Append(st, e)
      <4>1. StoreOf(page') = [k \in 1..(page.count + 1) |-> Entry(page', k - 1)]
        BY <3>1, <2>2 DEF StoreOf
      <4>2. ASSUME NEW k \in 1..(page.count + 1)
            PROVE  Entry(page', k - 1) = IF k = page.count + 1 THEN e ELSE st[k]
        <5>1. CASE k = page.count + 1
          <6>1. k - 1 = i
            BY <5>1, <3>1, <2>4
          <6> QED
            BY <6>1, <5>1, <2>2 DEF e
        <5>2. CASE k # page.count + 1
          <6>1. PICK j \in Slots(page) : j = k - 1 /\ k = j + 1
            <7>1. k - 1 \in Slots(page) /\ k = (k - 1) + 1
              BY <5>2, <2>4
            <7> QED
              BY <7>1
          <6>2. st[k] = Entry(page, j)
            BY <6>1, <1>1, StoreParts DEF st
          <6> QED
            BY <6>1, <6>2, <5>2, <3>3
        <5> QED
          BY <5>1, <5>2
      <4>3. Append(st, e) = [k \in 1..(page.count + 1) |-> IF k = page.count + 1 THEN e ELSE st[k]]
        <5>1. st = [k \in 1..page.count |-> st[k]]
          BY DEF st, StoreOf
        <5> QED
          BY <5>1, <2>4, Appended
      <4> QED
        BY <4>1, <4>2, <4>3
    <3>6. Store!StoreInsert(t)
      <4>1. (Len(st) + 1) - 1 = i
        BY <3>1, <2>4
      <4>2. answer' = Says("inserted", (Len(st) + 1) - 1, t)
        BY <4>1, <2>7
      <4> QED
        BY <4>2, <3>5, <2>8, <2>9, Zenon DEF Store!StoreInsert, Says, Store!Says, StoreOf, st, e, empty
    <3> QED
      BY <2>3, <2>6, <3>4, <3>6 DEF StoreInv
  <2>10. CASE empty # {}
    <3>1. i \in Slots(page) /\ n = page.count /\ Least(empty) = i + 1
      <4>1. i \in Slots(page) /\ Least(empty) = i + 1
        BY <2>1, <2>10, <1>1, FreeSlotSeen, Zenon DEF empty
      <4>2. i # page.count
        BY <4>1, <2>4
      <4> QED
        BY <4>1, <4>2, <2>1
    <3>2. \A j \in Slots(page) : j # i => page'.size[j] = page.size[j] /\ (j \in Occupied(page) => Kept(j))
      BY <3>1, <2>2, <2>3, <2>4
    <3>3. /\ StoreOf(page') = [st EXCEPT ![i + 1] = Entry(page', i)]
          /\ \A j \in Slots(page) : j # i => SizeOf(page', j) = SizeOf(page, j)
      BY <3>1, <3>2, <2>2, <1>1, OneEntry DEF st
    <3>4. SizeOf(page, i) = 0
      <4>1. page.size[i] = 0
        <5>1. i # page.count
          BY <3>1, <2>4
        <5> QED
          BY <5>1, <2>1, <2>4, FreeSlotIsFree
      <4> QED
        BY <4>1, <3>1, <1>1, SlotHolds
    <3>5. NothingLeaks'
      <4>1. page'.free = page.free + SizeOf(page, i) - SizeOf(page', i)
        BY <3>4, <2>2, <2>4, <2>5, SMTT(30)
      <4> QED
        BY <4>1, <3>1, <3>3, <2>2, <2>3, <1>1, OneSlotBalances
    <3>6. Store!StoreInsert(t)
      <4>1. StoreOf(page') = [st EXCEPT ![Least(empty)] = e]
        BY <3>1, <3>3, <2>2
      <4>2. Least(empty) - 1 = i
        BY <3>1, <2>4
      <4>3. answer' = Says("inserted", Least(empty) - 1, t)
        BY <4>2, <2>7
      <4> QED
        BY <4>1, <4>3, <2>8, <2>10, Zenon DEF Store!StoreInsert, Says, Store!Says, StoreOf, st, e, empty, Least
    <3> QED
      BY <2>3, <2>6, <3>5, <3>6 DEF StoreInv
  <2> QED
    BY <2>9, <2>10
<1> QED
  BY <1>3, <1>4

\* A step that changes no size but the flag of one.
LEMMA FlagSeen ==
    ASSUME StoreInv, NEW s \in Slots(page), NEW w \in Nat,
           UnsetDeletedFlag(w) = UnsetDeletedFlag(page.size[s]), w = 0 <=> page.size[s] = 0,
           page' = [page EXCEPT !.size[s] = w]
    PROVE  StoreInv' /\ StoreOf(page') = [StoreOf(page) EXCEPT ![s + 1].marked = (w >= DELETE_MASK)]
<1>1. IInv /\ NothingLeaks /\ Slots(page) = 0..(page.count - 1) /\ page.count \in Nat /\ page.free \in Nat
  BY Parts DEF StoreInv
<1>2. /\ page'.count = page.count /\ page'.free = page.free /\ page'.offset = page.offset
      /\ page'.size[s] = w /\ SizeOf(page', s) = SizeOf(page, s)
      /\ \A j \in Slots(page) : j # s => page'.size[j] = page.size[j]
      /\ Entry(page', s) = [tuple |-> Bytes(page, s), marked |-> w >= DELETE_MASK]
  BY <1>1, FlagDoes
<1>3. IInv' /\ \A i \in Occupied(page) : Kept(i)
  BY <1>1, FlagStep
<1>4. /\ StoreOf(page') = [StoreOf(page) EXCEPT ![s + 1] = Entry(page', s)]
      /\ \A j \in Slots(page) : j # s => SizeOf(page', j) = SizeOf(page, j)
  BY <1>1, <1>2, <1>3, OneEntry, Zenon
<1>5. NothingLeaks'
  <2>1. SizeOf(page, s) \in Nat
    BY <1>1, SlotHolds
  <2>2. page'.free = page.free + SizeOf(page, s) - SizeOf(page', s)
    BY <2>1, <1>1, <1>2
  <2> QED
    BY <2>2, <1>1, <1>2, <1>3, <1>4, OneSlotBalances, SMTT(30)
<1>6. Cleared(page.count, page.offset, page.size)'
  <2>1. page'.size[s] = 0 => page'.offset[s] = 0
    BY <1>1, <1>2 DEF StoreInv, Cleared
  <2> QED
    BY <2>1, <1>1, <1>2, StaysCleared
<1>7. StoreOf(page') = [StoreOf(page) EXCEPT ![s + 1].marked = (w >= DELETE_MASK)]
  <2>1. PICK st, k, m : st = StoreOf(page) /\ k = s + 1 /\ m = (w >= DELETE_MASK)
    OBVIOUS
  <2>2. k \in DOMAIN st /\ st[k] = [tuple |-> Bytes(page, s), marked |-> page.size[s] >= DELETE_MASK]
    <3>1. StoreOf(page)[s + 1] = Entry(page, s) /\ s + 1 \in 1..page.count /\ DOMAIN StoreOf(page) = 1..page.count
      BY <1>1, StoreParts
    <3> QED
      BY <3>1, <2>1, Zenon DEF Entry
  <2>3. [st EXCEPT ![k].marked = m] = [st EXCEPT ![k] = [tuple |-> Bytes(page, s), marked |-> m]]
    <3>1. [st[k] EXCEPT !.marked = m] = [tuple |-> Bytes(page, s), marked |-> m]
      BY <2>2
    <3> QED
      BY <2>2, <3>1, Zenon
  <2> QED
    BY <2>1, <2>3, <1>2, <1>4, Zenon
<1> QED
  BY <1>3, <1>5, <1>6, <1>7 DEF StoreInv

\* MarkDelete.
LEMMA MarkSeen ==
    ASSUME StoreInv, NEW s \in SlotNumbers, page' = MarkDelete(page, s).page,
           answer' = Says(IF MarkDelete(page, s).ok THEN "marked" ELSE "refused", s, <<>>)
    PROVE  StoreInv' /\ Store!StoreMark(s)
<1>1. IInv /\ page.count \in Nat /\ page.size \in [0..(page.count - 1) -> Nat] /\ s \in 0..page.count
  BY Parts DEF StoreInv, SlotNumbers
<1>2. Store!Live(s + 1) <=> ~(s >= page.count \/ IsDeleted(page.size[s]))
  BY <1>1, SlotLive
<1>3. CASE s >= page.count \/ IsDeleted(page.size[s])
  <2>1. page' = page /\ answer' = Says("refused", s, <<>>)
    BY <1>3 DEF MarkDelete, Refused
  <2>2. StoreInv' /\ StoreOf(page') = StoreOf(page)
    BY <2>1, NothingSeen
  <2>3. Store!StoreMark(s)
    BY <2>1, <2>2, <1>2, <1>3, Zenon DEF Store!StoreMark, Says, Store!Says, StoreOf
  <2> QED
    BY <2>2, <2>3
<1>4. CASE ~(s >= page.count \/ IsDeleted(page.size[s]))
  <2>1. s \in Slots(page) /\ page.size[s] \in Nat
    BY <1>1, <1>4 DEF Slots
  <2>2. PICK w \in Nat : w = SetDeletedFlag(page.size[s])
    BY <2>1, PageAssumption DEF SetDeletedFlag
  <2>3. UnsetDeletedFlag(w) = UnsetDeletedFlag(page.size[s]) /\ w # 0 /\ page.size[s] # 0
    BY <2>1, <2>2, <1>4, PageAssumption DEF SetDeletedFlag, UnsetDeletedFlag, IsDeleted
  <2>4. w >= DELETE_MASK
    BY <2>1, <2>2, PageAssumption DEF SetDeletedFlag
  <2>5. page' = [page EXCEPT !.size[s] = w] /\ answer' = Says("marked", s, <<>>)
    BY <1>4, <2>2 DEF MarkDelete
  <2>6. StoreInv' /\ StoreOf(page') = [StoreOf(page) EXCEPT ![s + 1].marked = (w >= DELETE_MASK)]
    BY <2>1, <2>3, <2>5, FlagSeen
  <2>7. (w >= DELETE_MASK) = TRUE
    BY <2>4
  <2>8. StoreOf(page') = [StoreOf(page) EXCEPT ![s + 1].marked = TRUE]
    BY <2>6, <2>7, Zenon
  <2>9. Store!StoreMark(s)
    BY <2>5, <2>8, <1>2, <1>4, Zenon DEF Store!StoreMark, Says, Store!Says, StoreOf
  <2> QED
    BY <2>6, <2>9
<1> QED
  BY <1>3, <1>4

\* RollbackDelete.
LEMMA RollbackSeen ==
    ASSUME StoreInv, NEW s \in Slots(page), page' = RollbackDelete(page, s), answer' = Says("restored", s, <<>>)
    PROVE  StoreInv' /\ Store!StoreRestore(s)
<1>1. IInv /\ page.size[s] \in Nat
  BY SlotHolds DEF StoreInv
<1>2. s + 1 \in 1..Len(StoreOf(page))
  BY <1>1, StoreParts
<1>3. StoreInv' /\ StoreOf(page') = [StoreOf(page) EXCEPT ![s + 1].marked = FALSE]
  <2>1. CASE ~IsDeleted(page.size[s])
    <3>1. page' = page
      BY <2>1 DEF RollbackDelete
    <3>2. StoreInv' /\ StoreOf(page') = StoreOf(page)
      BY <3>1, NothingSeen
    <3>3. PICK st, k, b : st = StoreOf(page) /\ k = s + 1 /\ b = Bytes(page, s)
      OBVIOUS
    <3>4. k \in DOMAIN st /\ st[k] = [tuple |-> b, marked |-> FALSE]
      <4>1. StoreOf(page)[s + 1] = Entry(page, s) /\ s + 1 \in 1..page.count /\ DOMAIN StoreOf(page) = 1..page.count
        BY <1>1, StoreParts
      <4>2. (page.size[s] >= DELETE_MASK) = FALSE
        BY <2>1 DEF IsDeleted
      <4> QED
        BY <4>1, <4>2, <3>3, Zenon DEF Entry
    <3>5. [st EXCEPT ![k].marked = FALSE] = [st EXCEPT ![k] = [tuple |-> b, marked |-> FALSE]]
      <4>1. PICK m : m = FALSE
        BY Zenon
      <4>2. st[k] = [tuple |-> b, marked |-> m] /\ k \in DOMAIN st
        BY <3>4, <4>1, Zenon
      <4>3. [st[k] EXCEPT !.marked = m] = [tuple |-> b, marked |-> m]
        BY <4>2
      <4>4. [st EXCEPT ![k].marked = m] = [st EXCEPT ![k] = [tuple |-> b, marked |-> m]]
        BY <4>2, <4>3, Zenon
      <4> QED
        BY <4>1, <4>4, Zenon
    <3>6. st = [i \in DOMAIN st |-> st[i]]
      BY <3>3 DEF StoreOf
    <3>7. [st EXCEPT ![k] = [tuple |-> b, marked |-> FALSE]] = st
      BY <3>4, <3>6
    <3> QED
      BY <3>2, <3>3, <3>5, <3>7, Zenon
  <2>2. CASE IsDeleted(page.size[s])
    <3>1. SizeOf(page, s) \in Nat /\ (SizeOf(page, s) = 0 <=> page.size[s] = 0)
      BY <1>1, SlotHolds
    <3>2. PICK w \in Nat : w = UnsetDeletedFlag(page.size[s])
      BY <3>1 DEF SizeOf
    <3>3. ~(w >= DELETE_MASK)
      <4>1. page.size[s] = 0 => w = 0
        BY <3>1, <3>2 DEF SizeOf
      <4>2. page.size[s] # 0 => w <= PageSize
        <5>1. page.size[s] # 0 => page.offset[s] + w <= PageSize
          BY <1>1, <3>2 DEF IInv, Layout, Inside, Slots
        <5>2. page.offset[s] \in Nat
          BY <1>1, Parts
        <5> QED
          BY <5>1, <5>2, PageAssumption
      <4> QED
        BY <4>1, <4>2, PageAssumption
    <3>4. UnsetDeletedFlag(w) = w /\ (w = 0 <=> page.size[s] = 0)
      BY <3>1, <3>2, <3>3 DEF UnsetDeletedFlag, SizeOf
    <3>5. page' = [page EXCEPT !.size[s] = w]
      BY <2>2, <3>2 DEF RollbackDelete
    <3>6. StoreInv' /\ StoreOf(page') = [StoreOf(page) EXCEPT ![s + 1].marked = (w >= DELETE_MASK)]
      BY <3>2, <3>4, <3>5, FlagSeen
    <3>7. (w >= DELETE_MASK) = FALSE
      BY <3>3
    <3> QED
      BY <3>6, <3>7, Zenon
  <2> QED
    BY <2>1, <2>2
<1>4. Store!StoreRestore(s)
  BY <1>2, <1>3, Zenon DEF Store!StoreRestore, Says, Store!Says, StoreOf
<1> QED
  BY <1>3, <1>4

\* UpdateTuple.
LEMMA UpdateSeen ==
    ASSUME StoreInv, NEW s \in SlotNumbers, NEW t \in Tuples, page' = UpdateTuple(page, t, s).page,
           answer' = IF UpdateTuple(page, t, s).ok THEN Says("updated", s, UpdateTuple(page, t, s).old)
                     ELSE Says("refused", s, t)
    PROVE  StoreInv' /\ Store!StoreUpdate(s, t)
<1> DEFINE refused == s >= page.count \/ IsDeleted(page.size[s]) \/ ~Fits(page, t, page.size[s])
<1>1. IInv /\ NothingLeaks /\ page.count \in Nat /\ page.free \in Nat /\ s \in 0..page.count
      /\ Slots(page) = 0..(page.count - 1)
  BY Parts DEF StoreInv, SlotNumbers
<1>2. Store!Live(s + 1) <=> ~(s >= page.count \/ IsDeleted(page.size[s]))
  BY <1>1, SlotLive
<1>3. Store!Room = GetFreeSpaceRemaining(page)
  BY <1>1, RoomSeen
<1>4. ASSUME ~(s >= page.count \/ IsDeleted(page.size[s]))
      PROVE  Fits(page, t, page.size[s]) <=> Len(t) <= Store!Room + Len(StoreOf(page)[s + 1].tuple)
  <2>1. s \in Slots(page)
    BY <1>1, <1>4
  <2>2. StoreOf(page)[s + 1].tuple = Bytes(page, s) /\ Len(Bytes(page, s)) = SizeOf(page, s)
    BY <2>1, <1>1, StoreParts, SlotHolds
  <2>3. SizeOf(page, s) = page.size[s]
    BY <1>4 DEF SizeOf, UnsetDeletedFlag, IsDeleted
  <2>4. page.size[s] \in Nat
    BY <2>1, <1>1, SlotHolds
  <2>5. GetFreeSpaceRemaining(page) \in Int
    <3>1. GetFreeSpaceRemaining(page) = page.free - SIZE_TABLE_PAGE_HEADER - SIZE_TUPLE * page.count
      BY <1>1, RoomSeen
    <3>2. SIZE_TUPLE * page.count \in Nat
      BY <1>1, OneMoreSlot, Zenon
    <3> QED
      BY <3>1, <3>2, <1>1, PageAssumption, SMTT(30)
  <2>6. Len(t) \in Nat
    BY TupleParts
  <2>7. PICK g \in Int, z \in Nat, len \in Nat : g = GetFreeSpaceRemaining(page) /\ z = page.size[s] /\ len = Len(t)
    BY <2>4, <2>5, <2>6
  <2>8. g + z >= len <=> len <= g + z
    OBVIOUS
  <2>9. Fits(page, t, page.size[s]) <=> g + z >= len
    BY <2>7 DEF Fits
  <2> QED
    BY <2>2, <2>3, <2>7, <2>8, <2>9, <1>3
<1>5. CASE refused
  <2>1. UpdateTuple(page, t, s) = [ok |-> FALSE, page |-> page, old |-> <<>>]
    BY <1>5, Zenon DEF UpdateTuple
  <2>2. page' = page /\ answer' = Says("refused", s, t)
    BY <2>1
  <2>3. StoreInv' /\ StoreOf(page') = StoreOf(page)
    BY <2>2, NothingSeen
  <2>4. ~(Store!Live(s + 1) /\ Len(t) <= Store!Room + Len(StoreOf(page)[s + 1].tuple))
    BY <1>2, <1>4, <1>5, Zenon
  <2>5. Store!StoreUpdate(s, t)
    BY <2>2, <2>3, <2>4, Zenon DEF Store!StoreUpdate, Says, Store!Says, StoreOf
  <2> QED
    BY <2>3, <2>5
<1>6. CASE ~refused
  <2>1. /\ UpdateTuple(page, t, s).ok /\ UpdateTuple(page, t, s).old = Bytes(page, s)
        /\ s \in Slots(page) /\ SizeOf(page, s) = page.size[s]
        /\ page'.count = page.count /\ page'.free = page.free + (page.size[s] - Len(t))
        /\ page'.size[s] = Len(t)
        /\ \A j \in Slots(page) : j # s => /\ page'.size[j] = page.size[j]
                                           /\ page.size[j] = 0 => page'.offset[j] = page.offset[j]
        /\ Entry(page', s) = [tuple |-> t, marked |-> FALSE] /\ SizeOf(page', s) = Len(t)
    BY <1>1, <1>6, UpdateDoes
  <2>2. IInv' /\ \A i \in Occupied(page) : i = s \/ Kept(i)
    BY <1>1, UpdateStep
  <2>3. /\ StoreOf(page') = [StoreOf(page) EXCEPT ![s + 1] = Entry(page', s)]
        /\ \A j \in Slots(page) : j # s => SizeOf(page', j) = SizeOf(page, j)
    BY <1>1, <2>1, <2>2, OneEntry, SMTT(30)
  <2>4. Len(t) \in Nat /\ Len(t) >= 1 /\ page.size[s] \in Nat
    BY <1>1, <2>1, TupleParts, SlotHolds
  <2>5. NothingLeaks'
    <3>1. page'.free = page.free + SizeOf(page, s) - SizeOf(page', s)
      <4>1. PICK f \in Nat, z \in Nat, len \in Nat : f = page.free /\ z = page.size[s] /\ len = Len(t)
        BY <1>1, <2>4
      <4>2. f + (z - len) = f + z - len
        OBVIOUS
      <4> QED
        BY <4>1, <4>2, <2>1
    <3> QED
      BY <3>1, <1>1, <2>1, <2>2, <2>3, OneSlotBalances
  <2>6. Cleared(page.count, page.offset, page.size)'
    <3>1. page'.size[s] = 0 => page'.offset[s] = 0
      BY <2>1, <2>4
    <3> QED
      BY <3>1, <1>1, <2>1, StaysCleared
  <2>7. StoreOf(page') = [StoreOf(page) EXCEPT ![s + 1].tuple = t] /\ StoreOf(page)[s + 1].tuple = Bytes(page, s)
    <3>1. PICK st, k, b : st = StoreOf(page) /\ k = s + 1 /\ b = Bytes(page, s)
      OBVIOUS
    <3>2. k \in DOMAIN st /\ st[k] = [tuple |-> b, marked |-> FALSE]
      <4>1. StoreOf(page)[s + 1] = Entry(page, s) /\ s + 1 \in 1..page.count /\ DOMAIN StoreOf(page) = 1..page.count
        BY <2>1, <1>1, StoreParts
      <4>2. (page.size[s] >= DELETE_MASK) = FALSE
        BY <1>6 DEF IsDeleted
      <4> QED
        BY <4>1, <4>2, <3>1, Zenon DEF Entry
    <3>3. [st EXCEPT ![k].tuple = t] = [st EXCEPT ![k] = [tuple |-> t, marked |-> FALSE]]
      <4>1. PICK m : m = FALSE
        BY Zenon
      <4>2. st[k] = [tuple |-> b, marked |-> m] /\ k \in DOMAIN st
        BY <3>2, <4>1, Zenon
      <4>3. [st[k] EXCEPT !.tuple = t] = [tuple |-> t, marked |-> m]
        BY <4>2
      <4>4. [st EXCEPT ![k].tuple = t] = [st EXCEPT ![k] = [tuple |-> t, marked |-> m]]
        BY <4>2, <4>3, Zenon
      <4> QED
        BY <4>1, <4>4, Zenon
    <3>4. st[k].tuple = b
      BY <3>2
    <3> QED
      BY <3>1, <3>3, <3>4, <2>1, <2>3
  <2>8. answer' = Says("updated", s, StoreOf(page)[s + 1].tuple)
    BY <2>1, <2>7
  <2>9. Store!Live(s + 1) /\ Len(t) <= Store!Room + Len(StoreOf(page)[s + 1].tuple)
    BY <1>2, <1>4, <1>6, Zenon
  <2>10. Store!StoreUpdate(s, t)
    BY <2>7, <2>8, <2>9, Zenon DEF Store!StoreUpdate, Says, Store!Says, StoreOf
  <2> QED
    BY <2>2, <2>5, <2>6, <2>10 DEF StoreInv
<1> QED
  BY <1>5, <1>6

\* ApplyDelete: a slot that its second assertion lets pass holds a tuple.
LEMMA ApplySeen ==
    ASSUME StoreInv, NEW s \in Slots(page), CanApplyDelete(page, s), page' = ApplyDelete(page, s),
           answer' = Says("removed", s, <<>>)
    PROVE  StoreInv' /\ Store!StoreRemove(s)
<1>1. IInv /\ NothingLeaks /\ page.count \in Nat /\ page.free \in Nat /\ Slots(page) = 0..(page.count - 1)
  BY Parts DEF StoreInv
<1>2. /\ page'.count = page.count /\ page'.free = page.free + SizeOf(page, s)
      /\ page'.size[s] = 0 /\ page'.offset[s] = 0
      /\ \A j \in Slots(page) : j # s => /\ page'.size[j] = page.size[j]
                                         /\ page.size[j] = 0 => page'.offset[j] = page.offset[j]
      /\ Entry(page', s) = [tuple |-> <<>>, marked |-> FALSE] /\ SizeOf(page', s) = 0
  BY <1>1, ApplyDoes
<1>3. IInv' /\ \A i \in Occupied(page) : i = s \/ Kept(i)
  BY <1>1, ApplyStep
<1>4. /\ StoreOf(page') = [StoreOf(page) EXCEPT ![s + 1] = Entry(page', s)]
      /\ \A j \in Slots(page) : j # s => SizeOf(page', j) = SizeOf(page, j)
  BY <1>1, <1>2, <1>3, OneEntry, Zenon
<1>5. NothingLeaks'
  <2>1. SizeOf(page, s) \in Nat
    BY <1>1, SlotHolds
  <2>2. page'.free = page.free + SizeOf(page, s) - SizeOf(page', s)
    BY <2>1, <1>1, <1>2
  <2> QED
    BY <2>2, <1>1, <1>2, <1>3, <1>4, OneSlotBalances
<1>6. Cleared(page.count, page.offset, page.size)'
  BY <1>1, <1>2, StaysCleared
<1>7. page.size[s] # 0
  <2>1. page.free > 0
    <3>1. SIZE_TABLE_PAGE_HEADER + SIZE_TUPLE * page.count <= page.free
      BY <1>1 DEF IInv, Layout, Room
    <3>2. PICK dir \in Nat : dir = SIZE_TUPLE * page.count
      BY <1>1, OneMoreSlot, Zenon
    <3>3. SIZE_TABLE_PAGE_HEADER + dir <= page.free
      BY <3>1, <3>2
    <3> QED
      BY <3>3, <1>1, PageAssumption
  <2>2. page.offset[s] >= page.free
    BY DEF CanApplyDelete
  <2>3. page.offset[s] \in Nat
    BY <1>1, Parts
  <2>4. page.offset[s] # 0
    BY <2>1, <2>2, <2>3, <1>1
  <2> QED
    BY <2>4, <1>1 DEF StoreInv, Cleared
<1>8. s + 1 \in 1..Len(StoreOf(page)) /\ StoreOf(page)[s + 1].tuple # <<>>
  <2>1. s + 1 \in 1..page.count /\ Len(StoreOf(page)) = page.count /\ StoreOf(page)[s + 1].tuple = Bytes(page, s)
    BY <1>1, StoreParts
  <2>2. Bytes(page, s) # <<>>
    BY <1>1, <1>7, SlotHolds
  <2> QED
    BY <2>1, <2>2
<1>9. StoreOf(page') = [StoreOf(page) EXCEPT ![s + 1] = [tuple |-> <<>>, marked |-> FALSE]]
  BY <1>2, <1>4, Zenon
<1>10. Store!StoreRemove(s)
  BY <1>8, <1>9, Zenon DEF Store!StoreRemove, Says, Store!Says, StoreOf
<1> QED
  BY <1>3, <1>5, <1>6, <1>10 DEF StoreInv

\* GetTuple.
LEMMA GetSeen ==
    ASSUME StoreInv, NEW s \in SlotNumbers, page' = page,
           answer' = Says(IF GetTuple(page, s).ok THEN "got" ELSE "refused", s, GetTuple(page, s).tuple)
    PROVE  StoreInv' /\ Store!StoreGet(s)
<1>1. IInv /\ page.count \in Nat /\ s \in 0..page.count /\ Slots(page) = 0..(page.count - 1)
  BY Parts DEF StoreInv, SlotNumbers
<1>2. Store!Live(s + 1) <=> ~(s >= page.count \/ IsDeleted(page.size[s]))
  BY <1>1, SlotLive
<1>3. StoreInv' /\ StoreOf(page') = StoreOf(page)
  BY NothingSeen
<1>4. CASE s >= page.count \/ IsDeleted(page.size[s])
  <2>1. GetTuple(page, s) = [ok |-> FALSE, tuple |-> <<>>]
    BY <1>4, Zenon DEF GetTuple
  <2>2. answer' = Says("refused", s, <<>>)
    BY <2>1
  <2>3. Store!StoreGet(s)
    BY <2>2, <1>2, <1>3, <1>4, Zenon DEF Store!StoreGet, Says, Store!Says, StoreOf
  <2> QED
    BY <2>3, <1>3
<1>5. CASE ~(s >= page.count \/ IsDeleted(page.size[s]))
  <2>1. s \in Slots(page)
    BY <1>1, <1>5
  <2>2. SizeOf(page, s) = page.size[s]
    BY <1>5 DEF SizeOf, UnsetDeletedFlag, IsDeleted
  <2>3. StoreOf(page)[s + 1].tuple = Bytes(page, s)
    BY <2>1, <1>1, StoreParts
  <2>4. GetTuple(page, s) = [ok |-> TRUE, tuple |-> Bytes(page, s)]
    BY <1>5, <2>2, Zenon DEF GetTuple, Bytes
  <2>5. answer' = Says("got", s, StoreOf(page)[s + 1].tuple)
    BY <2>3, <2>4
  <2>6. Store!StoreGet(s)
    BY <2>5, <1>2, <1>3, <1>5, Zenon DEF Store!StoreGet, Says, Store!Says, StoreOf
  <2> QED
    BY <2>6, <1>3
<1> QED
  BY <1>4, <1>5

\* GetFirstTupleRid and GetNextTupleRid.
LEMMA NextSeen ==
    ASSUME StoreInv, NEW s \in -1..page.count, page' = page,
           answer' = Says("next", LiveFrom(page, s + 1), <<s>>)
    PROVE  StoreInv' /\ Store!StoreNext(s)
<1> DEFINE later == {i \in 1..Len(StoreOf(page)) : Store!Live(i) /\ i > s + 1}
<1>1. StoreInv' /\ StoreOf(page') = StoreOf(page)
  BY NothingSeen
<1>2. LiveFrom(page, s + 1) = IF later = {} THEN -1 ELSE Least(later) - 1
  BY LiveFromSeen, Zenon DEF StoreInv
<1>3. answer' = Says("next", IF later = {} THEN -1 ELSE Least(later) - 1, <<s>>)
  BY <1>2, Zenon
<1>4. Store!StoreNext(s)
  BY <1>1, <1>3, Zenon DEF Store!StoreNext, Says, Store!Says, StoreOf, Least
<1> QED
  BY <1>1, <1>4

\* A new page is an empty store with all its room.
LEMMA InitSeen == Init => StoreInv /\ Store!StoreInit
<1> SUFFICES ASSUME Init PROVE StoreInv /\ Store!StoreInit
  OBVIOUS
<1>1. IInv
  BY InitInv
<1>2. page = Init_(0, INVALID_PAGE_ID) /\ answer = Says("none", 0, <<>>)
  BY DEF Init
<1>3. page.count = 0 /\ page.free = PageSize
  BY <1>2 DEF Init_
<1>4. Cleared(page.count, page.offset, page.size)
  BY <1>3 DEF Cleared
<1>5. Sizes(page) \in [1..0 -> Int]
  BY <1>3 DEF Sizes
<1>6. Store!Sum(Sizes(page), 0) = 0
  BY <1>5, SumIs, Zenon
<1>7. NothingLeaks
  BY <1>3, <1>6, PageAssumption DEF NothingLeaks
<1>8. StoreOf(page) = <<>>
  <2>1. DOMAIN StoreOf(page) = 1..0 /\ Len(StoreOf(page)) = 0
    BY <1>1, <1>3, StoreParts
  <2>2. StoreOf(page) = [i \in 1..0 |-> Entry(page, i - 1)]
    BY <1>3 DEF StoreOf
  <2> QED
    BY <2>2
<1>9. Store!StoreInit
  BY <1>2, <1>8, Zenon DEF Store!StoreInit, Says, Store!Says, StoreOf
<1> QED
  BY <1>1, <1>4, <1>7, <1>9 DEF StoreInv

\* Every step is a step of the store.
LEMMA StepSeen == StoreInv /\ [Next]_vars => StoreInv' /\ [Store!StoreStep]_(Store!storeVars)
<1> SUFFICES ASSUME StoreInv, [Next]_vars
             PROVE  StoreInv' /\ [Store!StoreStep]_(Store!storeVars)
  OBVIOUS
<1>1. page.count \in Nat /\ Slots(page) = 0..(page.count - 1) /\ Len(StoreOf(page)) = page.count
  BY Parts, StoreParts DEF StoreInv
<1>2. Store!Numbers = 0..page.count
  BY <1>1 DEF Store!Numbers, StoreOf
<1>3. SlotNumbers = Store!Numbers /\ Slots(page) \subseteq Store!Numbers
  BY <1>1, <1>2 DEF SlotNumbers
<1>4. CASE Insert
  <2>1. PICK t \in Tuples :
          /\ page' = InsertTuple(page, t).page
          /\ answer' = IF InsertTuple(page, t).ok THEN Says("inserted", InsertTuple(page, t).slot, t)
                       ELSE Says("refused", 0, t)
    BY <1>4 DEF Insert
  <2>2. StoreInv' /\ Store!StoreInsert(t)
    BY <2>1, InsertSeen
  <2> QED
    BY <2>2 DEF Store!StoreStep
<1>5. CASE Mark
  <2>1. PICK s \in SlotNumbers :
          /\ page' = MarkDelete(page, s).page
          /\ answer' = Says(IF MarkDelete(page, s).ok THEN "marked" ELSE "refused", s, <<>>)
    BY <1>5 DEF Mark
  <2>2. StoreInv' /\ Store!StoreMark(s)
    BY <2>1, MarkSeen
  <2> QED
    BY <2>2, <1>3 DEF Store!StoreStep
<1>6. CASE Update
  <2>1. PICK s \in SlotNumbers, t \in Tuples :
          /\ page' = UpdateTuple(page, t, s).page
          /\ answer' = IF UpdateTuple(page, t, s).ok THEN Says("updated", s, UpdateTuple(page, t, s).old)
                       ELSE Says("refused", s, t)
    BY <1>6 DEF Update
  <2>2. StoreInv' /\ Store!StoreUpdate(s, t)
    BY <2>1, UpdateSeen
  <2> QED
    BY <2>2, <1>3 DEF Store!StoreStep
<1>7. CASE Apply
  <2>1. PICK s \in Slots(page) : /\ CanApplyDelete(page, s)
                                 /\ page' = ApplyDelete(page, s)
                                 /\ answer' = Says("removed", s, <<>>)
    BY <1>7 DEF Apply
  <2>2. StoreInv' /\ Store!StoreRemove(s)
    BY <2>1, ApplySeen
  <2> QED
    BY <2>2, <1>3 DEF Store!StoreStep
<1>8. CASE Rollback
  <2>1. PICK s \in Slots(page) : page' = RollbackDelete(page, s) /\ answer' = Says("restored", s, <<>>)
    BY <1>8 DEF Rollback
  <2>2. StoreInv' /\ Store!StoreRestore(s)
    BY <2>1, RollbackSeen
  <2> QED
    BY <2>2, <1>3 DEF Store!StoreStep
<1>9. CASE Get
  <2>1. PICK s \in SlotNumbers :
          /\ answer' = Says(IF GetTuple(page, s).ok THEN "got" ELSE "refused", s, GetTuple(page, s).tuple)
          /\ page' = page
    BY <1>9 DEF Get
  <2>2. StoreInv' /\ Store!StoreGet(s)
    BY <2>1, GetSeen
  <2> QED
    BY <2>2, <1>3 DEF Store!StoreStep
<1>10. CASE First
  <2>1. PICK s \in -1..page.count : s = -1
    BY <1>1
  <2>2. s + 1 = 0 /\ s \in Store!Numbers \union {-1}
    BY <2>1
  <2>3. page' = page /\ answer' = Says("next", LiveFrom(page, s + 1), <<s>>)
    BY <2>1, <2>2, <1>10 DEF First, GetFirstTupleRid
  <2>4. StoreInv' /\ Store!StoreNext(s)
    BY <2>3, NextSeen
  <2> QED
    BY <2>2, <2>4 DEF Store!StoreStep
<1>11. CASE Following
  <2>1. PICK s \in SlotNumbers : page' = page /\ answer' = Says("next", LiveFrom(page, s + 1), <<s>>)
    BY <1>11 DEF Following, GetNextTupleRid
  <2>2. s \in -1..page.count /\ s \in Store!Numbers \union {-1}
    BY <1>1, <1>2, <1>3
  <2>3. StoreInv' /\ Store!StoreNext(s)
    BY <2>1, <2>2, NextSeen
  <2> QED
    BY <2>2, <2>3 DEF Store!StoreStep
<1>12. CASE UNCHANGED vars
  <2>1. page' = page /\ answer' = answer
    BY <1>12 DEF vars
  <2>2. StoreInv' /\ StoreOf(page') = StoreOf(page)
    BY <2>1, NothingSeen
  <2>3. UNCHANGED Store!storeVars
    BY <2>1, <2>2, Zenon DEF Store!storeVars, StoreOf
  <2> QED
    BY <2>2, <2>3
<1> QED
  BY <1>4, <1>5, <1>6, <1>7, <1>8, <1>9, <1>10, <1>11, <1>12 DEF Next

\* No byte of a page is lost: what is neither header, directory nor tuple is free space,
\* whatever the order of inserts, updates, deletes and rollbacks.
THEOREM NoByteIsLost == Spec => []NothingLeaks
<1>1. StoreInv => NothingLeaks
  BY DEF StoreInv
<1>2. Init => StoreInv
  BY InitSeen
<1>3. StoreInv /\ [Next]_vars => StoreInv'
  BY StepSeen
<1> QED
  BY <1>1, <1>2, <1>3, PTL DEF Spec

\* For its users the page is a store of numbered tuples: every call of TablePage answers as
\* the store does, and is refused exactly when the store refuses it.
THEOREM PageIsATupleStore == Spec => IsATupleStore
<1>1. Init => StoreInv /\ Store!StoreInit
  BY InitSeen
<1>2. StoreInv /\ [Next]_vars => StoreInv' /\ [Store!StoreStep]_(Store!storeVars)
  BY StepSeen
<1> QED
  BY <1>1, <1>2, PTL DEF Spec, IsATupleStore, Store!StoreSpec
=============================================================================
