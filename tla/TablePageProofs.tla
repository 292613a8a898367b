-------------------------- MODULE TablePageProofs --------------------------
(***************************************************************************)
(* For any page size, header, directory entry and set of tuples, the       *)
(* tuples of a page never overlap, leave the page or meet the directory.   *)
(* The invariant adds to WellLaidOut that a tuple has at least one byte:   *)
(* ApplyDelete moves what lies below a tuple, and a tuple without bytes    *)
(* at the same offset would be neither below it nor above it.  At the end, *)
(* what module TupleStoreProofs needs to know of sums.                     *)
(***************************************************************************)
EXTENDS TablePage, WellFoundedInduction, TLAPS

\* The invariant, of the parts of a page.
Fields(p) ==
    p = [id |-> p.id, prev |-> p.prev, next |-> p.next, free |-> p.free, count |-> p.count,
         offset |-> p.offset, size |-> p.size, data |-> p.data]
Words(count, offset, size) ==
    /\ count \in Nat
    /\ offset \in [0..(count - 1) -> Nat]
    /\ size \in [0..(count - 1) -> Nat]
Room(count, free) ==
    /\ free \in Nat
    /\ SIZE_TABLE_PAGE_HEADER + SIZE_TUPLE * count <= free
    /\ free <= PageSize
Inside(count, free, offset, size) ==
    \A i \in 0..(count - 1) : size[i] # 0 =>
        /\ UnsetDeletedFlag(size[i]) >= 1
        /\ free <= offset[i]
        /\ offset[i] + UnsetDeletedFlag(size[i]) <= PageSize
Apart(count, offset, size) ==
    \A i, j \in 0..(count - 1) : size[i] # 0 /\ size[j] # 0 /\ i # j =>
        \/ offset[i] + UnsetDeletedFlag(size[i]) <= offset[j]
        \/ offset[j] + UnsetDeletedFlag(size[j]) <= offset[i]
Layout(count, free, offset, size) ==
    /\ Words(count, offset, size)
    /\ Room(count, free)
    /\ Inside(count, free, offset, size)
    /\ Apart(count, offset, size)
IInv ==
    /\ Fields(page)
    /\ DOMAIN page.data = 0..(PageSize - 1)
    /\ Layout(page.count, page.free, page.offset, page.size)

-----------------------------------------------------------------------------
(* Size words and slots.                                                   *)

\* A set of natural numbers has a smallest one.
LEMMA Smallest ==
    ASSUME NEW T, T \subseteq Nat, T # {}
    PROVE  \E i \in T : \A j \in T : i <= j
<1> DEFINE R == {ss \in Nat \X Nat : ss[1] < ss[2]}
<1>1. IsWellFoundedOn(R, Nat)
  BY NatLessThanWellFounded, Zenon DEF OpToRel
<1>2. PICK i \in T : \A j \in T : ~(<<j, i>> \in R)
  <2> HIDE DEF R
  <2> QED
    BY <1>1, WFMin, Zenon
<1>3. \A j \in T : ~(j < i)
  BY <1>2, Zenon
<1> QED
  BY <1>3

\* InsertTuple takes an empty slot or one behind the last.
LEMMA FreeSlotIsFree ==
    ASSUME NEW p, p.count \in Nat
    PROVE  /\ FreeSlot(p) \in 0..p.count
           /\ FreeSlot(p) # p.count => p.size[FreeSlot(p)] = 0
<1> DEFINE empty == {i \in Slots(p) : p.size[i] = 0}
<1>1. CASE empty = {}
  BY <1>1 DEF FreeSlot
<1>2. CASE empty # {}
  <2>1. \E i \in empty : \A j \in empty : i <= j
    <3>1. empty \subseteq Nat
      BY DEF Slots
    <3> HIDE DEF empty
    <3> QED
      BY <3>1, <1>2, Smallest, Zenon
  <2>2. FreeSlot(p) = CHOOSE i \in empty : \A j \in empty : i <= j
    BY <1>2 DEF FreeSlot
  <2>3. FreeSlot(p) \in empty
    <3> HIDE DEF empty
    <3> QED
      BY <2>1, <2>2
  <2> QED
    BY <2>3 DEF Slots
<1> QED
  BY <1>1, <1>2

\* The subtraction of GetFreeSpaceRemaining does not wrap.
LEMMA NoWrap ==
    ASSUME NEW p, p.count \in Nat, Room(p.count, p.free)
    PROVE  GetFreeSpaceRemaining(p) = p.free - SIZE_TABLE_PAGE_HEADER - SIZE_TUPLE * p.count
<1> DEFINE n == p.free - SIZE_TABLE_PAGE_HEADER - SIZE_TUPLE * p.count
<1>1. SIZE_TUPLE * p.count \in Nat
  BY PageAssumption
<1>2. n \in Nat /\ n < 2 * DELETE_MASK /\ 2 * DELETE_MASK \in Nat
  BY <1>1, PageAssumption DEF Room
<1>3. n % (2 * DELETE_MASK) = n
  <2> HIDE DEF n
  <2> DEFINE m == 2 * DELETE_MASK
  <2>1. m \in Nat /\ n < m
    BY <1>2
  <2> HIDE DEF m
  <2>2. n % m = n
    BY <1>2, <2>1
  <2> QED
    BY <2>2 DEF m
<1> QED
  BY <1>3 DEF GetFreeSpaceRemaining

\* The directory grows by one entry.
LEMMA OneMoreSlot ==
    ASSUME NEW n \in Nat
    PROVE  SIZE_TUPLE * n \in Nat /\ SIZE_TUPLE * (n + 1) = SIZE_TUPLE * n + SIZE_TUPLE
BY PageAssumption

-----------------------------------------------------------------------------
(* What each operation does to the layout.                                 *)

\* InsertTuple puts the tuple right below the others.
LEMMA InsertLayout ==
    ASSUME NEW c, NEW f, NEW o, NEW z, Layout(c, f, o, z),
           NEW len \in 1..PageSize, f - SIZE_TABLE_PAGE_HEADER - SIZE_TUPLE * c >= len + SIZE_TUPLE,
           NEW i \in 0..c, i # c => z[i] = 0,
           NEW n, n = IF i = c THEN c + 1 ELSE c
    PROVE  Layout(n, f - len, [j \in 0..(n - 1) |-> IF j = i THEN f - len ELSE o[j]],
                  [j \in 0..(n - 1) |-> IF j = i THEN len ELSE z[j]])
<1> DEFINE oo == [j \in 0..(n - 1) |-> IF j = i THEN f - len ELSE o[j]]
           zz == [j \in 0..(n - 1) |-> IF j = i THEN len ELSE z[j]]
<1> USE DEF Layout
<1>1. c \in Nat /\ f \in Nat /\ n \in Nat /\ f <= PageSize /\ PageSize \in Nat
      /\ SIZE_TUPLE * c \in Nat /\ SIZE_TUPLE \in Nat /\ SIZE_TABLE_PAGE_HEADER \in Nat
  BY OneMoreSlot, PageAssumption DEF Words, Room
<1>2. f - len \in Nat
  BY <1>1
<1>3. \A j \in 0..(n - 1) : j # i => j \in 0..(c - 1) /\ oo[j] = o[j] /\ zz[j] = z[j]
  BY <1>1
<1>4. i \in 0..(n - 1) /\ oo[i] = f - len /\ zz[i] = len /\ UnsetDeletedFlag(len) = len
  BY <1>1, PageAssumption DEF UnsetDeletedFlag
<1>5. Words(n, oo, zz)
  BY <1>1, <1>2, <1>3 DEF Words
<1>6. Room(n, f - len)
  BY <1>1, <1>2, OneMoreSlot DEF Room
<1>7. \A j \in 0..(c - 1) : o[j] \in Nat /\ z[j] \in Nat /\ UnsetDeletedFlag(z[j]) \in Nat
  BY PageAssumption DEF Words, UnsetDeletedFlag
<1> HIDE DEF oo, zz
<1>8. Inside(n, f - len, oo, zz)
  BY <1>1, <1>3, <1>4, <1>7 DEF Inside
<1>9. Apart(n, oo, zz)
  <2> SUFFICES ASSUME NEW j \in 0..(n - 1), NEW k \in 0..(n - 1), zz[j] # 0, zz[k] # 0, j # k
               PROVE  \/ oo[j] + UnsetDeletedFlag(zz[j]) <= oo[k]
                      \/ oo[k] + UnsetDeletedFlag(zz[k]) <= oo[j]
    BY DEF Apart
  <2>1. CASE j = i
    BY <2>1, <1>1, <1>3, <1>4, <1>7 DEF Inside
  <2>2. CASE k = i
    BY <2>2, <1>1, <1>3, <1>4, <1>7 DEF Inside
  <2>3. CASE j # i /\ k # i
    BY <2>3, <1>3 DEF Apart
  <2> QED
    BY <2>1, <2>2, <2>3
<1> QED
  BY <1>5, <1>6, <1>8, <1>9 DEF oo, zz

\* A size word with the same size keeps the layout: MarkDelete, RollbackDelete.
LEMMA FlagLayout ==
    ASSUME NEW c, NEW f, NEW o, NEW z, Layout(c, f, o, z),
           NEW i \in 0..(c - 1), NEW w \in Nat,
           UnsetDeletedFlag(w) = UnsetDeletedFlag(z[i]), w = 0 <=> z[i] = 0
    PROVE  Layout(c, f, o, [z EXCEPT ![i] = w])
<1> DEFINE zz == [z EXCEPT ![i] = w]
<1>1. Words(c, o, zz)
  BY DEF Layout, Words
<1>2. \A j \in 0..(c - 1) : UnsetDeletedFlag(zz[j]) = UnsetDeletedFlag(z[j]) /\ (zz[j] = 0 <=> z[j] = 0)
  BY DEF Layout, Words
<1> HIDE DEF zz
<1>3. Inside(c, f, o, zz) /\ Apart(c, o, zz)
  BY <1>2 DEF Layout, Inside, Apart
<1> QED
  BY <1>1, <1>3 DEF Layout, zz

\* UpdateTuple: what lies below the end of the old tuple moves by the difference,
\* what lies above stays.
LEMMA UpdateLayout ==
    ASSUME NEW c, NEW f, NEW o, NEW z, Layout(c, f, o, z),
           NEW i \in 0..(c - 1), ~IsDeleted(z[i]),
           NEW len \in 1..PageSize, f - SIZE_TABLE_PAGE_HEADER - SIZE_TUPLE * c + z[i] >= len
    PROVE  LET by == z[i] - len
               zz == [z EXCEPT ![i] = len]
               oo == Shifted(o, zz, o[i] + z[i], by)
           IN  /\ Layout(c, f + by, oo, zz)
               /\ oo[i] = o[i] + by
               /\ \A j \in 0..(c - 1) : z[j] # 0 /\ j # i =>
                    \/ o[j] + UnsetDeletedFlag(z[j]) <= o[i] /\ oo[j] = o[j] + by
                    \/ o[i] + z[i] <= o[j] /\ oo[j] = o[j]
<1> DEFINE by == z[i] - len
           zz == [z EXCEPT ![i] = len]
           oo == Shifted(o, zz, o[i] + z[i], by)
<1>1. c \in Nat /\ f \in Nat /\ f <= PageSize /\ PageSize \in Nat
      /\ SIZE_TUPLE * c \in Nat /\ SIZE_TABLE_PAGE_HEADER \in Nat
  BY OneMoreSlot, PageAssumption DEF Layout, Words, Room
<1>2. \A j \in 0..(c - 1) : o[j] \in Nat /\ z[j] \in Nat /\ UnsetDeletedFlag(z[j]) \in Nat
  BY PageAssumption, SMTT(30) DEF Layout, Words, UnsetDeletedFlag
<1>3. z[i] # 0 /\ UnsetDeletedFlag(z[i]) = z[i] /\ UnsetDeletedFlag(len) = len
  BY <1>1, <1>2, PageAssumption DEF IsDeleted, UnsetDeletedFlag
<1>4. by \in Int /\ f + by \in Nat /\ Room(c, f + by)
  <2>1. z[i] + f <= PageSize
    BY <1>1, <1>2, <1>3 DEF Layout, Inside
  <2> QED
    BY <2>1, <1>1, <1>2 DEF Room
<1>5. /\ DOMAIN oo = 0..(c - 1)
      /\ zz \in [0..(c - 1) -> Nat] /\ zz[i] = len /\ len # 0
      /\ \A j \in 0..(c - 1) : j # i => zz[j] = z[j]
      /\ \A j \in 0..(c - 1) : oo[j] = IF zz[j] # 0 /\ o[j] < o[i] + z[i] THEN o[j] + by ELSE o[j]
  BY <1>1 DEF Layout, Words, Shifted
<1>6. oo[i] = o[i] + by /\ o[i] \in Nat /\ z[i] \in Nat
  <2>1. o[i] \in Nat /\ z[i] \in Nat /\ z[i] # 0
    BY <1>2, <1>3
  <2>2. o[i] < o[i] + z[i]
    BY <2>1
  <2> HIDE DEF by, zz, oo
  <2> QED
    BY <2>1, <2>2, <1>5
<1> HIDE DEF by, zz, oo
<1>7. ASSUME NEW j \in 0..(c - 1), zz[j] # 0, j # i
      PROVE  \/ o[j] + UnsetDeletedFlag(z[j]) <= o[i] /\ oo[j] = o[j] + by
             \/ o[i] + z[i] <= o[j] /\ oo[j] = o[j]
  <2>1. UnsetDeletedFlag(z[j]) >= 1
    BY <1>5, <1>7 DEF Layout, Inside
  <2>2. \/ o[j] + UnsetDeletedFlag(z[j]) <= o[i]
        \/ o[i] + z[i] <= o[j]
    BY <1>3, <1>5, <1>7 DEF Layout, Apart
  <2> QED
    BY <2>1, <2>2, <1>2, <1>3, <1>5, <1>7
<1>8. by = z[i] - len
  BY DEF by
<1>9. Inside(c, f + by, oo, zz)
  <2> SUFFICES ASSUME NEW j \in 0..(c - 1), zz[j] # 0
               PROVE  /\ UnsetDeletedFlag(zz[j]) >= 1
                      /\ f + by <= oo[j]
                      /\ oo[j] + UnsetDeletedFlag(zz[j]) <= PageSize
    BY DEF Inside
  <2>1. CASE j = i
    <3>1. f <= o[i] /\ o[i] + z[i] <= PageSize
      BY <1>3 DEF Layout, Inside
    <3>2. oo[j] = o[i] + by /\ UnsetDeletedFlag(zz[j]) = len
      BY <2>1, <1>3, <1>5, <1>6
    <3> QED
      BY <3>1, <3>2, <1>1, <1>4, <1>6, <1>8
  <2>2. CASE j # i
    <3>1. f <= o[j] /\ o[j] + UnsetDeletedFlag(z[j]) <= PageSize /\ UnsetDeletedFlag(z[j]) >= 1
      BY <2>2, <1>5 DEF Layout, Inside
    <3>2. f <= o[i] /\ o[i] + z[i] <= PageSize
      BY <1>3 DEF Layout, Inside
    <3>3. zz[j] = z[j] /\ o[j] \in Nat /\ UnsetDeletedFlag(z[j]) \in Nat
      BY <2>2, <1>2, <1>5
    <3>4. CASE o[j] + UnsetDeletedFlag(z[j]) <= o[i] /\ oo[j] = o[j] + by
      BY <3>1, <3>2, <3>3, <3>4, <1>1, <1>4, <1>6, <1>8
    <3>5. CASE o[i] + z[i] <= o[j] /\ oo[j] = o[j]
      BY <3>1, <3>2, <3>3, <3>5, <1>1, <1>4, <1>6, <1>8
    <3> QED
      BY <3>4, <3>5, <2>2, <1>7
  <2> QED
    BY <2>1, <2>2
<1>10. ASSUME NEW j \in 0..(c - 1), zz[j] # 0, j # i
       PROVE  \/ oo[j] + UnsetDeletedFlag(zz[j]) <= oo[i]
              \/ oo[i] + UnsetDeletedFlag(zz[i]) <= oo[j]
  <2>1. zz[j] = z[j] /\ o[j] \in Nat /\ UnsetDeletedFlag(z[j]) \in Nat
    BY <1>2, <1>5, <1>10
  <2>2. UnsetDeletedFlag(zz[i]) = len
    BY <1>3, <1>5
  <2>3. CASE o[j] + UnsetDeletedFlag(z[j]) <= o[i] /\ oo[j] = o[j] + by
    BY <2>1, <2>3, <1>4, <1>6
  <2>4. CASE o[i] + z[i] <= o[j] /\ oo[j] = o[j]
    BY <2>1, <2>2, <2>4, <1>4, <1>6, <1>8
  <2> QED
    BY <2>3, <2>4, <1>7, <1>10
<1>11. Apart(c, oo, zz)
  <2> SUFFICES ASSUME NEW j \in 0..(c - 1), NEW k \in 0..(c - 1), zz[j] # 0, zz[k] # 0, j # k
               PROVE  \/ oo[j] + UnsetDeletedFlag(zz[j]) <= oo[k]
                      \/ oo[k] + UnsetDeletedFlag(zz[k]) <= oo[j]
    BY DEF Apart
  <2>1. CASE j = i
    BY <2>1, <1>10
  <2>2. CASE k = i
    BY <2>2, <1>10
  <2>3. CASE j # i /\ k # i
    <3>1. \/ o[j] + UnsetDeletedFlag(z[j]) <= o[k]
          \/ o[k] + UnsetDeletedFlag(z[k]) <= o[j]
      BY <2>3, <1>5 DEF Layout, Apart
    <3>2. zz[j] = z[j] /\ zz[k] = z[k] /\ UnsetDeletedFlag(z[j]) >= 1 /\ UnsetDeletedFlag(z[k]) >= 1
      BY <2>3, <1>5 DEF Layout, Inside
    <3> QED
      BY <3>1, <3>2, <2>3, <1>2, <1>4, <1>7, <1>8
  <2> QED
    BY <2>1, <2>2, <2>3
<1>12. Words(c, oo, zz)
  <2>1. ASSUME NEW j \in 0..(c - 1)
        PROVE  oo[j] \in Nat
    BY <1>2, <1>4, <1>5, <1>9, SMTT(30) DEF Inside
  <2>2. oo = [j \in 0..(c - 1) |-> oo[j]]
    BY <1>5 DEF oo, Shifted
  <2> QED
    BY <2>1, <2>2, <1>1, <1>5 DEF Words
<1> QED
  <2>1. \A j \in 0..(c - 1) : z[j] # 0 /\ j # i =>
            \/ o[j] + UnsetDeletedFlag(z[j]) <= o[i] /\ oo[j] = o[j] + by
            \/ o[i] + z[i] <= o[j] /\ oo[j] = o[j]
    BY <1>5, <1>7
  <2> QED
    BY <2>1, <1>4, <1>6, <1>9, <1>11, <1>12, Zenon DEF Layout, by, zz, oo

\* ApplyDelete: what lies below the tuple moves by its size, what lies above
\* stays.  An empty slot has size zero.
ApplyLays(c, f, o, z, i) ==
    LET w == UnsetDeletedFlag(z[i])
        zz == [z EXCEPT ![i] = 0]
        oo == Shifted([o EXCEPT ![i] = 0], zz, o[i], w)
    IN  /\ Layout(c, f + w, oo, zz)
        /\ \A j \in 0..(c - 1) : z[j] # 0 /\ j # i =>
             \/ w = 0 /\ oo[j] = o[j]
             \/ w >= 1 /\ o[j] + UnsetDeletedFlag(z[j]) <= o[i] /\ oo[j] = o[j] + w
             \/ w >= 1 /\ o[i] + w <= o[j] /\ oo[j] = o[j]
\* That ApplyDelete does this.
LEMMA ApplyLayout ==
    ASSUME NEW c, NEW f, NEW o, NEW z, Layout(c, f, o, z),
           NEW i \in 0..(c - 1), o[i] >= f
    PROVE  ApplyLays(c, f, o, z, i)
<1> DEFINE w == UnsetDeletedFlag(z[i])
           zz == [z EXCEPT ![i] = 0]
           oo == Shifted([o EXCEPT ![i] = 0], zz, o[i], w)
<1>1. c \in Nat /\ f \in Nat /\ f <= PageSize /\ PageSize \in Nat
      /\ SIZE_TUPLE * c \in Nat /\ SIZE_TABLE_PAGE_HEADER \in Nat
  BY OneMoreSlot, PageAssumption DEF Layout, Words, Room
<1>2. \A j \in 0..(c - 1) : o[j] \in Nat /\ z[j] \in Nat /\ UnsetDeletedFlag(z[j]) \in Nat
  BY PageAssumption, SMTT(30) DEF Layout, Words, UnsetDeletedFlag
<1>3. z[i] = 0 => w = 0
  BY PageAssumption DEF UnsetDeletedFlag
<1>4. w \in Nat /\ o[i] \in Nat /\ (z[i] # 0 => w >= 1 /\ o[i] + w <= PageSize)
  BY <1>2 DEF Layout, Inside
<1>5. Room(c, f + w)
  <2>1. CASE z[i] = 0
    BY <2>1, <1>1, <1>3 DEF Layout, Room
  <2>2. CASE z[i] # 0
    BY <2>2, <1>1, <1>4 DEF Layout, Room
  <2> QED
    BY <2>1, <2>2
<1>6. /\ oo = [j \in 0..(c - 1) |-> oo[j]]
      /\ zz \in [0..(c - 1) -> Nat] /\ zz[i] = 0 /\ oo[i] = 0
      /\ \A j \in 0..(c - 1) : j # i => zz[j] = z[j] /\ oo[j] = IF z[j] # 0 /\ o[j] < o[i] THEN o[j] + w ELSE o[j]
  BY <1>1 DEF Layout, Words, Shifted
<1> HIDE DEF w, zz, oo
<1>7. ASSUME NEW j \in 0..(c - 1), zz[j] # 0
      PROVE  /\ j # i /\ zz[j] = z[j] /\ z[j] # 0 /\ o[j] \in Nat
             /\ UnsetDeletedFlag(z[j]) \in Nat /\ UnsetDeletedFlag(z[j]) >= 1
             /\ f <= o[j] /\ o[j] + UnsetDeletedFlag(z[j]) <= PageSize
             /\ \/ w = 0 /\ oo[j] = o[j]
                \/ w >= 1 /\ o[j] + UnsetDeletedFlag(z[j]) <= o[i] /\ oo[j] = o[j] + w
                \/ w >= 1 /\ o[i] + w <= o[j] /\ oo[j] = o[j]
  <2>1. j # i /\ zz[j] = z[j] /\ z[j] # 0 /\ o[j] \in Nat /\ UnsetDeletedFlag(z[j]) \in Nat
    BY <1>2, <1>6, <1>7
  <2>2. UnsetDeletedFlag(z[j]) >= 1 /\ f <= o[j] /\ o[j] + UnsetDeletedFlag(z[j]) <= PageSize
    BY <2>1 DEF Layout, Inside
  <2>3. oo[j] = IF o[j] < o[i] THEN o[j] + w ELSE o[j]
    BY <2>1, <1>6
  <2>4. CASE z[i] = 0
    BY <2>1, <2>2, <2>3, <2>4, <1>3
  <2>5. CASE z[i] # 0
    <3>1. o[j] + UnsetDeletedFlag(z[j]) <= o[i] \/ o[i] + w <= o[j]
      BY <2>1, <2>5 DEF Layout, Apart, w
    <3> QED
      BY <3>1, <2>1, <2>2, <2>3, <2>5, <1>4
  <2> QED
    BY <2>4, <2>5
<1>8. Inside(c, f + w, oo, zz)
  <2> SUFFICES ASSUME NEW j \in 0..(c - 1), zz[j] # 0
               PROVE  /\ UnsetDeletedFlag(zz[j]) >= 1
                      /\ f + w <= oo[j]
                      /\ oo[j] + UnsetDeletedFlag(zz[j]) <= PageSize
    BY DEF Inside
  <2>1. z[i] # 0 \/ w = 0
    BY <1>3
  <2> QED
    BY <2>1, <1>1, <1>4, <1>7
<1>9. Apart(c, oo, zz)
  <2> SUFFICES ASSUME NEW j \in 0..(c - 1), NEW k \in 0..(c - 1), zz[j] # 0, zz[k] # 0, j # k
               PROVE  \/ oo[j] + UnsetDeletedFlag(zz[j]) <= oo[k]
                      \/ oo[k] + UnsetDeletedFlag(zz[k]) <= oo[j]
    BY DEF Apart
  <2>1. \/ o[j] + UnsetDeletedFlag(z[j]) <= o[k]
        \/ o[k] + UnsetDeletedFlag(z[k]) <= o[j]
    BY <1>7 DEF Layout, Apart
  <2> QED
    BY <2>1, <1>4, <1>7
<1>10. Words(c, oo, zz)
  <2>1. ASSUME NEW j \in 0..(c - 1)
        PROVE  oo[j] \in Nat
    BY <1>2, <1>4, <1>6
  <2> QED
    BY <2>1, <1>1, <1>6 DEF Words
<1> QED
  <2>1. \A j \in 0..(c - 1) : z[j] # 0 /\ j # i =>
            \/ w = 0 /\ oo[j] = o[j]
            \/ w >= 1 /\ o[j] + UnsetDeletedFlag(z[j]) <= o[i] /\ oo[j] = o[j] + w
            \/ w >= 1 /\ o[i] + w <= o[j] /\ oo[j] = o[j]
    BY <1>6, <1>7
  <2> QED
    BY <2>1, <1>5, <1>8, <1>9, <1>10, Zenon DEF ApplyLays, Layout, w, zz, oo

-----------------------------------------------------------------------------
(* The invariant.                                                          *)

\* A new page.
LEMMA InitInv == Init => IInv
<1> SUFFICES ASSUME Init
             PROVE  IInv
  OBVIOUS
<1>1. page = Init_(0, INVALID_PAGE_ID)
  BY DEF Init
<1>2. Fields(page) /\ page.count = 0 /\ page.free = PageSize /\ page.offset = <<>> /\ page.size = <<>>
      /\ DOMAIN page.data = 0..(PageSize - 1)
  BY <1>1 DEF Init_, Fields
<1>3. Layout(0, PageSize, <<>>, <<>>)
  <2>1. SIZE_TUPLE * 0 = 0
    BY PageAssumption
  <2>2. 0..(0 - 1) = {} /\ <<>> \in [{} -> Nat]
    OBVIOUS
  <2> QED
    BY <2>1, <2>2, PageAssumption DEF Layout, Words, Room, Inside, Apart
<1> QED
  BY <1>2, <1>3 DEF IInv

\* A step keeps a tuple if it keeps its size and moves its bytes with its offset.
Kept(i) == i \in Occupied(page') /\ Bytes(page', i) = Bytes(page, i)

\* That this is enough.
LEMMA KeptBytes ==
    ASSUME IInv, NEW i \in Occupied(page), i \in Slots(page'), page'.size[i] # 0,
           UnsetDeletedFlag(page'.size[i]) = UnsetDeletedFlag(page.size[i]),
           \A x \in page.offset[i]..(page.offset[i] + UnsetDeletedFlag(page.size[i]) - 1) :
               page'.data[page'.offset[i] + (x - page.offset[i])] = page.data[x],
           page'.offset[i] \in Int
    PROVE  Kept(i)
<1> DEFINE n == UnsetDeletedFlag(page.size[i])
<1>1. page.offset[i] \in Nat /\ n \in Nat
  BY PageAssumption, SMTT(30) DEF IInv, Layout, Words, UnsetDeletedFlag, Occupied, Slots
<1>2. Bytes(page, i) = [k \in 1..n |-> page.data[page.offset[i] + k - 1]]
      /\ Bytes(page', i) = [k \in 1..n |-> page'.data[page'.offset[i] + k - 1]]
  BY DEF Bytes, BytesAt, SizeOf
<1>3. ASSUME NEW k \in 1..n
      PROVE  page'.data[page'.offset[i] + k - 1] = page.data[page.offset[i] + k - 1]
  <2> DEFINE x == page.offset[i] + k - 1
  <2>1. x \in page.offset[i]..(page.offset[i] + n - 1)
    BY <1>1
  <2>2. page'.offset[i] + (x - page.offset[i]) = page'.offset[i] + k - 1
    BY <1>1
  <2> QED
    BY <2>1, <2>2
<1> HIDE DEF n
<1>4. Bytes(page', i) = Bytes(page, i)
  BY <1>2, <1>3
<1> QED
  BY <1>4 DEF Kept, Occupied

\* The places of a tuple are places of the page.
LEMMA Places ==
    ASSUME IInv, NEW i \in Occupied(page),
           NEW x \in page.offset[i]..(page.offset[i] + UnsetDeletedFlag(page.size[i]) - 1)
    PROVE  /\ x \in 0..(PageSize - 1) /\ page.free <= x /\ page.free \in Nat /\ page.offset[i] \in Nat
           /\ UnsetDeletedFlag(page.size[i]) \in Nat
<1>1. page.offset[i] \in Nat /\ UnsetDeletedFlag(page.size[i]) \in Nat /\ page.free \in Nat
  <2>1. page.offset[i] \in Nat /\ page.size[i] \in Nat /\ page.free \in Nat
    BY DEF IInv, Layout, Words, Room, Occupied, Slots
  <2> QED
    BY <2>1, PageAssumption DEF UnsetDeletedFlag
<1>2. page.free <= page.offset[i] /\ page.offset[i] + UnsetDeletedFlag(page.size[i]) <= PageSize
  BY DEF IInv, Layout, Inside, Occupied, Slots
<1> QED
  BY <1>1, <1>2, PageAssumption

\* The calls that change nothing on the page.
LEMMA SamePage ==
    ASSUME IInv, page' = page
    PROVE  IInv' /\ \A i \in Occupied(page) : Kept(i)
<1>1. page'.count = page.count /\ page'.free = page.free /\ page'.offset = page.offset
      /\ page'.size = page.size /\ page'.data = page.data
  OBVIOUS
<1>2. Fields(page')
  BY DEF IInv, Fields
<1>3. \A i \in Occupied(page) : Kept(i)
  BY DEF Kept, Bytes, SizeOf, BytesAt, Occupied, Slots
<1> QED
  BY <1>1, <1>2, <1>3 DEF IInv

\* InsertTuple.
LEMMA InsertStep ==
    ASSUME IInv, NEW t \in Tuples, page' = InsertTuple(page, t).page
    PROVE  IInv' /\ \A j \in Occupied(page) : Kept(j)
<1> DEFINE i == FreeSlot(page)
           n == IF i = page.count THEN page.count + 1 ELSE page.count
           at == page.free - Len(t)
           oo == [j \in 0..(n - 1) |-> IF j = i THEN at ELSE page.offset[j]]
           zz == [j \in 0..(n - 1) |-> IF j = i THEN Len(t) ELSE page.size[j]]
<1>1. CASE GetFreeSpaceRemaining(page) < Len(t) + SIZE_TUPLE
  BY <1>1, SamePage DEF InsertTuple
<1>2. CASE ~(GetFreeSpaceRemaining(page) < Len(t) + SIZE_TUPLE)
  <2>1. page' = [page EXCEPT !.free = at, !.count = n, !.data = memcpy(@, at, t), !.offset = oo, !.size = zz]
    BY <1>2, Zenon DEF InsertTuple
  <2>2. /\ Fields(page') /\ page'.count = n /\ page'.free = at /\ page'.offset = oo /\ page'.size = zz
        /\ page'.data = memcpy(page.data, at, t)
    <3> HIDE DEF i, n, at, oo, zz
    <3> QED
      BY <2>1, Zenon DEF IInv, Fields
  <2>3. DOMAIN page'.data = 0..(PageSize - 1)
    BY <2>2 DEF IInv, memcpy
  <2>4. Layout(n, at, oo, zz)
    <3>1. page.count \in Nat /\ Room(page.count, page.free)
      BY DEF IInv, Layout, Words
    <3>2. i \in 0..page.count /\ (i # page.count => page.size[i] = 0)
      BY <3>1, FreeSlotIsFree
    <3>3. Len(t) \in 1..PageSize
      BY TuplesAssumption
    <3>4. page.free - SIZE_TABLE_PAGE_HEADER - SIZE_TUPLE * page.count >= Len(t) + SIZE_TUPLE
      <4>1. SIZE_TUPLE * page.count \in Nat /\ page.free \in Nat
        BY <3>1, OneMoreSlot DEF Room
      <4> QED
        BY <4>1, <1>2, <3>1, <3>3, NoWrap, PageAssumption, SMTT(30)
    <3> HIDE DEF i
    <3> QED
      BY <3>2, <3>3, <3>4, InsertLayout, SMTT(30) DEF IInv
  <2>5. ASSUME NEW j \in Occupied(page)
        PROVE  Kept(j)
    <3>1. page.count \in Nat /\ j \in 0..(page.count - 1) /\ page.size[j] # 0
      BY DEF IInv, Layout, Words, Occupied, Slots
    <3>2. j # i
      BY <3>1, FreeSlotIsFree
    <3>3. j \in 0..(n - 1)
      BY <3>1
    <3>4. page'.offset[j] = page.offset[j] /\ page'.size[j] = page.size[j] /\ j \in Slots(page')
      BY <2>2, <3>2, <3>3 DEF Slots
    <3>5. ASSUME NEW x \in page.offset[j]..(page.offset[j] + UnsetDeletedFlag(page.size[j]) - 1)
          PROVE  page'.data[page'.offset[j] + (x - page.offset[j])] = page.data[x]
      <4>1. x \in 0..(PageSize - 1) /\ page.free <= x /\ page.free \in Nat /\ page.offset[j] \in Nat
        BY Places
      <4>2. x \notin at..(at + Len(t) - 1)
        BY <4>1, TuplesAssumption, PageAssumption
      <4>3. page'.data[x] = page.data[x]
        BY <4>1, <4>2, <2>2 DEF memcpy, IInv
      <4>4. page'.offset[j] + (x - page.offset[j]) = x
        BY <4>1, <3>4
      <4> QED
        BY <4>3, <4>4
    <3>6. page'.offset[j] \in Int
      BY <3>1, <3>4 DEF IInv, Layout, Words
    <3> QED
      BY <3>1, <3>4, <3>5, <3>6, KeptBytes
  <2> QED
    BY <2>2, <2>3, <2>4, <2>5 DEF IInv
<1> QED
  BY <1>1, <1>2

\* A step that writes one size word, and keeps the size in it.
LEMMA FlagStep ==
    ASSUME IInv, NEW s \in Slots(page), NEW w \in Nat,
           UnsetDeletedFlag(w) = UnsetDeletedFlag(page.size[s]), w = 0 <=> page.size[s] = 0,
           page' = [page EXCEPT !.size[s] = w]
    PROVE  IInv' /\ \A i \in Occupied(page) : Kept(i)
<1>1. /\ Fields(page') /\ page'.count = page.count /\ page'.free = page.free /\ page'.offset = page.offset
      /\ page'.size = [page.size EXCEPT ![s] = w] /\ page'.data = page.data
  BY DEF IInv, Fields
<1>2. Layout(page.count, page.free, page.offset, [page.size EXCEPT ![s] = w])
  BY FlagLayout DEF IInv, Slots
<1>3. ASSUME NEW i \in Occupied(page)
      PROVE  Kept(i)
  <2>1. i \in 0..(page.count - 1) /\ page.size[i] # 0 /\ page.size \in [0..(page.count - 1) -> Nat]
    BY DEF IInv, Layout, Words, Occupied, Slots
  <2>2. page'.size[i] # 0 /\ UnsetDeletedFlag(page'.size[i]) = UnsetDeletedFlag(page.size[i])
    BY <2>1, <1>1
  <2>3. page.offset[i] \in Int
    BY <2>1 DEF IInv, Layout, Words
  <2>4. \A x \in page.offset[i]..(page.offset[i] + UnsetDeletedFlag(page.size[i]) - 1) :
            page'.offset[i] + (x - page.offset[i]) = x
    BY <2>3, <1>1, Places
  <2> QED
    BY <2>1, <2>2, <2>3, <2>4, <1>1, KeptBytes, SMTT(30) DEF Slots
<1> QED
  BY <1>1, <1>2, <1>3 DEF IInv

\* MarkDelete sets the flag in a size word without it.
LEMMA MarkStep ==
    ASSUME IInv, NEW s \in SlotNumbers, page' = MarkDelete(page, s).page
    PROVE  IInv' /\ \A i \in Occupied(page) : Kept(i)
<1>1. page.count \in Nat /\ page.size \in [0..(page.count - 1) -> Nat]
  BY DEF IInv, Layout, Words
<1>2. CASE s >= page.count \/ IsDeleted(page.size[s])
  BY <1>2, SamePage DEF MarkDelete, Refused
<1>3. CASE ~(s >= page.count \/ IsDeleted(page.size[s]))
  <2>1. s \in Slots(page) /\ page.size[s] \in Nat
    BY <1>1, <1>3 DEF Slots, SlotNumbers
  <2> DEFINE w == SetDeletedFlag(page.size[s])
  <2>2. w \in Nat /\ UnsetDeletedFlag(w) = UnsetDeletedFlag(page.size[s]) /\ w # 0 /\ page.size[s] # 0
    BY <2>1, <1>3, PageAssumption DEF SetDeletedFlag, UnsetDeletedFlag, IsDeleted
  <2>3. page' = [page EXCEPT !.size[s] = w]
    BY <1>3 DEF MarkDelete
  <2> HIDE DEF w
  <2> QED
    BY <2>1, <2>2, <2>3, FlagStep
<1> QED
  BY <1>2, <1>3

\* RollbackDelete takes the flag away from a tuple that has at least a byte.
LEMMA RollbackStep ==
    ASSUME IInv, NEW s \in Slots(page), page' = RollbackDelete(page, s)
    PROVE  IInv' /\ \A i \in Occupied(page) : Kept(i)
<1>1. page.size[s] \in Nat /\ page.offset[s] \in Nat
  BY DEF IInv, Layout, Words, Slots
<1>2. CASE ~IsDeleted(page.size[s])
  BY <1>2, SamePage DEF RollbackDelete
<1>3. CASE IsDeleted(page.size[s])
  <2> DEFINE w == UnsetDeletedFlag(page.size[s])
  <2>1. page.size[s] # 0 => w >= 1 /\ w <= PageSize
    <3>1. w \in Nat
      BY <1>1, PageAssumption DEF UnsetDeletedFlag
    <3>2. page.size[s] # 0 => w >= 1 /\ page.offset[s] + w <= PageSize
      BY DEF IInv, Layout, Inside, Slots
    <3> QED
      BY <3>1, <3>2, <1>1, PageAssumption
  <2>2. w \in Nat /\ UnsetDeletedFlag(w) = w /\ (w = 0 <=> page.size[s] = 0)
    BY <2>1, <1>1, PageAssumption DEF UnsetDeletedFlag
  <2>3. page' = [page EXCEPT !.size[s] = w]
    BY <1>3 DEF RollbackDelete
  <2> HIDE DEF w
  <2>4. UnsetDeletedFlag(w) = UnsetDeletedFlag(page.size[s])
    BY <2>2 DEF w
  <2> QED
    BY <2>2, <2>3, <2>4, FlagStep
<1> QED
  BY <1>2, <1>3

\* The bytes of ApplyDelete: memmove takes what lies between the free space f and
\* the tuple at a place by the size w, and nothing from behind the tuple.
ApplyMoves(d, f, at, w, x) ==
    LET dd == memmove(d, f + w, f, at - f) IN
    /\ x < at => dd[x + w] = d[x]
    /\ at + w <= x \/ w = 0 => dd[x] = d[x]
\* That the memmove of ApplyDelete does this.
LEMMA ApplyBytes ==
    ASSUME NEW d, DOMAIN d = 0..(PageSize - 1), NEW f \in Nat, NEW at \in Nat, NEW w \in Nat,
           w = 0 \/ at + w <= PageSize, NEW x \in 0..(PageSize - 1), f <= x
    PROVE  ApplyMoves(d, f, at, w, x)
<1> DEFINE dd == memmove(d, f + w, f, at - f)
<1>1. \A y \in 0..(PageSize - 1) : dd[y] = IF y \in (f + w)..(f + w + (at - f) - 1) THEN d[y - (f + w) + f] ELSE d[y]
  BY DEF memmove
<1> HIDE DEF dd
<1>2. ASSUME x < at
      PROVE  dd[x + w] = d[x]
  <2>1. x + w \in 0..(PageSize - 1) /\ x + w \in (f + w)..(f + w + (at - f) - 1) /\ x + w - (f + w) + f = x
    BY <1>2, PageAssumption
  <2> QED
    BY <2>1, <1>1
<1>3. ASSUME at + w <= x
      PROVE  dd[x] = d[x]
  <2>1. x \notin (f + w)..(f + w + (at - f) - 1)
    BY <1>3, PageAssumption
  <2> QED
    BY <2>1, <1>1
<1>4. ASSUME w = 0
      PROVE  dd[x] = d[x]
  <2>1. x - (f + w) + f = x
    BY <1>4, PageAssumption
  <2> QED
    BY <2>1, <1>1
<1> QED
  BY <1>2, <1>3, <1>4 DEF ApplyMoves, dd

\* The bytes of UpdateTuple: memmove takes what lies below the tuple by the
\* difference of the sizes; memcpy writes no byte of what lies above or below.
UpdateMoves(d, f, at, size, bytes, x) ==
    LET by == size - Len(bytes)
        dd == memcpy(memmove(d, f + by, f, at - f), at + by, bytes)
    IN  /\ x < at => dd[x + by] = d[x]
        /\ at + size <= x => dd[x] = d[x]
\* That the memmove and memcpy of UpdateTuple do this.
LEMMA UpdateBytes ==
    ASSUME NEW d, DOMAIN d = 0..(PageSize - 1), NEW f \in Nat, NEW at \in Nat, NEW size \in Nat,
           NEW bytes, Len(bytes) \in Nat, at + size <= PageSize, f + (size - Len(bytes)) >= 0,
           Len(bytes) >= 1, NEW x \in 0..(PageSize - 1), f <= x
    PROVE  UpdateMoves(d, f, at, size, bytes, x)
<1> DEFINE len == Len(bytes)
           by == size - len
           moved == memmove(d, f + by, f, at - f)
           dd == memcpy(moved, at + by, bytes)
<1>1. \A y \in 0..(PageSize - 1) : moved[y] = IF y \in (f + by)..(f + by + (at - f) - 1) THEN d[y - (f + by) + f] ELSE d[y]
  BY DEF memmove
<1>2. \A y \in 0..(PageSize - 1) : y \notin (at + by)..(at + by + len - 1) => dd[y] = moved[y]
  BY DEF memcpy, memmove
<1>3. len \in Nat /\ len >= 1 /\ by \in Int /\ by = size - len /\ f + by >= 0
  OBVIOUS
<1> HIDE DEF dd, moved, by, len
<1>4. ASSUME x < at
      PROVE  dd[x + by] = d[x]
  <2>1. x + by \in 0..(PageSize - 1)
    <3>1. x + by >= 0 /\ x + by < at + by /\ at + by < PageSize /\ x + by \in Int
      BY <1>3, <1>4, PageAssumption
    <3> QED
      BY <3>1, <1>3, PageAssumption
  <2>2. x + by \in (f + by)..(f + by + (at - f) - 1) /\ x + by - (f + by) + f = x
    BY <1>3, <1>4, PageAssumption
  <2>3. x + by \notin (at + by)..(at + by + len - 1)
    BY <1>3, <1>4, PageAssumption
  <2>4. dd[x + by] = moved[x + by]
    BY <2>1, <2>3, <1>2
  <2>5. moved[x + by] = d[x]
    <3>1. PICK y \in 0..(PageSize - 1) : y = x + by
      BY <2>1
    <3>2. y \in (f + by)..(f + by + (at - f) - 1)
      BY <3>1, <2>2
    <3>3. moved[y] = d[y - (f + by) + f]
      BY <3>2, <1>1
    <3>4. y - (f + by) + f = x
      BY <3>1, <1>3, PageAssumption
    <3> QED
      BY <3>1, <3>3, <3>4, Zenon
  <2> QED
    BY <2>4, <2>5
<1>5. ASSUME at + size <= x
      PROVE  dd[x] = d[x]
  <2>1. x \notin (f + by)..(f + by + (at - f) - 1) /\ x \notin (at + by)..(at + by + len - 1)
    BY <1>3, <1>5, PageAssumption
  <2> QED
    BY <2>1, <1>1, <1>2
<1> QED
  BY <1>4, <1>5 DEF UpdateMoves, dd, moved, by, len

\* UpdateTuple.
LEMMA UpdateStep ==
    ASSUME IInv, NEW s \in SlotNumbers, NEW t \in Tuples, page' = UpdateTuple(page, t, s).page
    PROVE  /\ IInv'
           /\ \A i \in Occupied(page) : i = s \/ Kept(i)
           /\ ~UpdateTuple(page, t, s).ok => page' = page
<1> DEFINE refused == \/ s >= page.count
                      \/ IsDeleted(page.size[s])
                      \/ ~Fits(page, t, page.size[s])
           by == page.size[s] - Len(t)
           moved == memmove(page.data, page.free + by, page.free, page.offset[s] - page.free)
           zz == [page.size EXCEPT ![s] = Len(t)]
           oo == Shifted(page.offset, zz, page.offset[s] + page.size[s], by)
<1>1. page.count \in Nat /\ Room(page.count, page.free) /\ page.size \in [0..(page.count - 1) -> Nat]
  BY DEF IInv, Layout, Words
<1>2. CASE refused
  BY <1>2, SamePage DEF UpdateTuple
<1>3. CASE ~refused
  <2>1. page' = [page EXCEPT !.free = @ + by, !.size = zz, !.data = memcpy(moved, page.offset[s] + by, t),
                             !.offset = oo]
    BY <1>3, Zenon DEF UpdateTuple
  <2>2. /\ Fields(page') /\ page'.count = page.count /\ page'.free = page.free + by /\ page'.offset = oo
        /\ page'.size = zz /\ page'.data = memcpy(moved, page.offset[s] + by, t)
    <3> HIDE DEF by, moved, oo, zz
    <3> QED
      BY <2>1, Zenon DEF IInv, Fields
  <2>3. DOMAIN page'.data = 0..(PageSize - 1)
    BY <2>2 DEF IInv, memcpy, memmove
  <2>4. /\ Layout(page.count, page.free + by, oo, zz)
        /\ \A j \in 0..(page.count - 1) : page.size[j] # 0 /\ j # s =>
               \/ page.offset[j] + UnsetDeletedFlag(page.size[j]) <= page.offset[s] /\ oo[j] = page.offset[j] + by
               \/ page.offset[s] + page.size[s] <= page.offset[j] /\ oo[j] = page.offset[j]
    <3>1. s \in 0..(page.count - 1) /\ page.size[s] \in Nat
      BY <1>1, <1>3 DEF SlotNumbers
    <3>2. Len(t) \in 1..PageSize
      BY TuplesAssumption
    <3>3. page.free - SIZE_TABLE_PAGE_HEADER - SIZE_TUPLE * page.count + page.size[s] >= Len(t)
      BY <1>1, <1>3, NoWrap DEF Fits
    <3>4. Layout(page.count, page.free, page.offset, page.size) /\ ~IsDeleted(page.size[s])
      BY <1>3 DEF IInv
    <3> HIDE DEF refused, moved
    <3> QED
      BY <3>1, <3>2, <3>3, <3>4, UpdateLayout, SMTT(30)
  <2>5. ASSUME NEW i \in Occupied(page), i # s
        PROVE  Kept(i)
    <3>1. i \in 0..(page.count - 1) /\ page.size[i] # 0 /\ page.offset[i] \in Nat
      BY DEF IInv, Layout, Words, Occupied, Slots
    <3>2. s \in 0..(page.count - 1) /\ page.size[s] \in Nat /\ page.offset[s] \in Nat /\ page.free <= page.offset[s]
      <4>1. s \in 0..(page.count - 1) /\ page.size[s] # 0
        BY <1>1, <1>3 DEF SlotNumbers, IsDeleted
      <4> QED
        BY <4>1, SMTT(30) DEF IInv, Layout, Words, Inside
    <3>3. page'.size[i] = page.size[i] /\ page'.offset[i] = oo[i] /\ i \in Slots(page')
      BY <2>2, <2>5, <3>1, <1>1 DEF Slots
    <3>4. Len(t) \in Nat /\ Len(t) >= 1 /\ by = page.size[s] - Len(t)
      BY TuplesAssumption, PageAssumption
    <3> HIDE DEF by, oo, zz
    <3>5. ASSUME NEW x \in page.offset[i]..(page.offset[i] + UnsetDeletedFlag(page.size[i]) - 1)
          PROVE  page'.data[page'.offset[i] + (x - page.offset[i])] = page.data[x]
      <4>1. /\ x \in 0..(PageSize - 1) /\ page.free <= x /\ page.free \in Nat
            /\ UnsetDeletedFlag(page.size[i]) \in Nat
        BY Places
      <4>4. by \in Int /\ page.offset[i] <= x /\ x < page.offset[i] + UnsetDeletedFlag(page.size[i])
        <5>1. by \in Int
          BY <3>2, <3>4
        <5>2. page.offset[i] <= x /\ x < page.offset[i] + UnsetDeletedFlag(page.size[i])
          BY <4>1, <3>1
        <5> QED
          BY <5>1, <5>2
      <4>5. /\ x < page.offset[s] => page'.data[x + by] = page.data[x]
            /\ page.offset[s] + page.size[s] <= x => page'.data[x] = page.data[x]
        <5>1. page.free + by >= 0
          BY <2>4 DEF Layout, Room
        <5>2. page.offset[s] + page.size[s] <= PageSize
          <6>1. page.size[s] # 0 /\ UnsetDeletedFlag(page.size[s]) = page.size[s]
            BY <1>3, <3>2, PageAssumption DEF IsDeleted, UnsetDeletedFlag
          <6> QED
            BY <6>1, <3>2 DEF IInv, Layout, Inside
        <5>3. UpdateMoves(page.data, page.free, page.offset[s], page.size[s], t, x)
          <6>1. DOMAIN page.data = 0..(PageSize - 1)
            BY DEF IInv
          <6>2. page.free + (page.size[s] - Len(t)) >= 0
            BY <5>1 DEF by
          <6> QED
            BY <6>1, <6>2, <5>2, <4>1, <3>2, <3>4, UpdateBytes, Zenon
        <5> QED
          BY <5>3, <2>2 DEF UpdateMoves, by
      <4>2. CASE page.offset[i] + UnsetDeletedFlag(page.size[i]) <= page.offset[s] /\ oo[i] = page.offset[i] + by
        <5>1. page'.offset[i] + (x - page.offset[i]) = x + by
          <6>1. page'.offset[i] = page.offset[i] + by
            BY <4>2, <3>3
          <6> QED
            BY <6>1, <4>1, <4>4, <3>1
        <5>2. x < page.offset[s]
          BY <4>1, <4>2, <4>4, <3>1, <3>2
        <5> QED
          BY <5>1, <5>2, <4>5
      <4>3. CASE page.offset[s] + page.size[s] <= page.offset[i] /\ oo[i] = page.offset[i]
        <5>1. page'.offset[i] + (x - page.offset[i]) = x
          BY <4>1, <4>3, <3>1, <3>3
        <5>2. page.offset[s] + page.size[s] <= x
          BY <4>1, <4>3, <4>4, <3>1, <3>2
        <5> QED
          BY <5>1, <5>2, <4>5
      <4> QED
        BY <4>2, <4>3, <3>1, <2>4, <2>5
    <3>6. page'.offset[i] \in Int
      BY <2>4, <3>1, <3>3 DEF Layout, Words
    <3> QED
      BY <3>1, <3>3, <3>5, <3>6, KeptBytes
  <2>6. UpdateTuple(page, t, s).ok
    BY <1>3, Zenon DEF UpdateTuple
  <2> QED
    BY <2>2, <2>3, <2>4, <2>5, <2>6 DEF IInv
<1> QED
  BY <1>2, <1>3

\* ApplyDelete.
LEMMA ApplyStep ==
    ASSUME IInv, NEW s \in Slots(page), CanApplyDelete(page, s), page' = ApplyDelete(page, s)
    PROVE  IInv' /\ \A i \in Occupied(page) : i = s \/ Kept(i)
<1> DEFINE w == UnsetDeletedFlag(page.size[s])
           zz == [page.size EXCEPT ![s] = 0]
           oo == Shifted([page.offset EXCEPT ![s] = 0], zz, page.offset[s], w)
           moved == memmove(page.data, page.free + w, page.free, page.offset[s] - page.free)
<1>1. page' = [page EXCEPT !.free = page.free + w, !.size = zz, !.data = moved, !.offset = oo]
  BY Zenon DEF ApplyDelete, Reclaimed
<1>2. /\ Fields(page') /\ page'.count = page.count /\ page'.free = page.free + w /\ page'.offset = oo
      /\ page'.size = zz /\ page'.data = moved
  <2> HIDE DEF w, moved, oo, zz
  <2> QED
    BY <1>1, Zenon DEF IInv, Fields
<1>3. DOMAIN page'.data = 0..(PageSize - 1)
  BY <1>2 DEF IInv, memmove
<1>4. /\ Layout(page.count, page.free + w, oo, zz)
      /\ \A j \in 0..(page.count - 1) : page.size[j] # 0 /\ j # s =>
             \/ w = 0 /\ oo[j] = page.offset[j]
             \/ w >= 1 /\ page.offset[j] + UnsetDeletedFlag(page.size[j]) <= page.offset[s] /\ oo[j] = page.offset[j] + w
             \/ w >= 1 /\ page.offset[s] + w <= page.offset[j] /\ oo[j] = page.offset[j]
  <2>1. s \in 0..(page.count - 1) /\ page.offset[s] >= page.free
        /\ Layout(page.count, page.free, page.offset, page.size)
    BY DEF IInv, Slots, CanApplyDelete
  <2>2. ApplyLays(page.count, page.free, page.offset, page.size, s)
    BY <2>1, ApplyLayout
  <2> QED
    BY <2>2 DEF ApplyLays
<1>5. ASSUME NEW i \in Occupied(page), i # s
      PROVE  Kept(i)
  <2>1. i \in 0..(page.count - 1) /\ page.size[i] # 0 /\ page.offset[i] \in Nat
    BY DEF IInv, Layout, Words, Occupied, Slots
  <2>2. page.offset[s] \in Nat /\ w \in Nat /\ page.size[s] \in Nat
    BY PageAssumption, SMTT(30) DEF IInv, Layout, Words, Slots, UnsetDeletedFlag
  <2>3. w = 0 \/ page.offset[s] + w <= PageSize
    <3>1. page.size[s] = 0 => w = 0
      BY PageAssumption DEF UnsetDeletedFlag
    <3> QED
      BY <3>1 DEF IInv, Layout, Inside, Slots
  <2>4. page'.size[i] = page.size[i] /\ page'.offset[i] = oo[i] /\ i \in Slots(page')
    BY <1>2, <1>5, <2>1 DEF IInv, Layout, Words, Slots
  <2> HIDE DEF w, oo, zz
  <2>5. ASSUME NEW x \in page.offset[i]..(page.offset[i] + UnsetDeletedFlag(page.size[i]) - 1)
        PROVE  page'.data[page'.offset[i] + (x - page.offset[i])] = page.data[x]
    <3>1. /\ x \in 0..(PageSize - 1) /\ page.free <= x /\ page.free \in Nat
          /\ UnsetDeletedFlag(page.size[i]) \in Nat
      BY Places
    <3>2. page.offset[i] <= x /\ x < page.offset[i] + UnsetDeletedFlag(page.size[i]) /\ x \in Int
      BY <3>1, <2>1
    <3>3. /\ x < page.offset[s] => page'.data[x + w] = page.data[x]
          /\ page.offset[s] + w <= x \/ w = 0 => page'.data[x] = page.data[x]
      <4>1. DOMAIN page.data = 0..(PageSize - 1)
        BY DEF IInv
      <4>2. ApplyMoves(page.data, page.free, page.offset[s], w, x)
        BY <4>1, <3>1, <2>2, <2>3, ApplyBytes
      <4> QED
        BY <4>2, <1>2 DEF ApplyMoves
    <3>4. CASE w = 0 /\ oo[i] = page.offset[i]
      <4>1. page'.offset[i] + (x - page.offset[i]) = x
        BY <3>2, <3>4, <2>1, <2>4
      <4> QED
        BY <4>1, <3>3, <3>4
    <3>5. CASE page.offset[i] + UnsetDeletedFlag(page.size[i]) <= page.offset[s] /\ oo[i] = page.offset[i] + w
      <4>1. page'.offset[i] + (x - page.offset[i]) = x + w
        BY <3>2, <3>5, <2>1, <2>2, <2>4
      <4>2. x < page.offset[s]
        BY <3>1, <3>2, <3>5, <2>1, <2>2
      <4> QED
        BY <4>1, <4>2, <3>3
    <3>6. CASE page.offset[s] + w <= page.offset[i] /\ oo[i] = page.offset[i]
      <4>1. page'.offset[i] + (x - page.offset[i]) = x
        BY <3>2, <3>6, <2>1, <2>4
      <4>2. page.offset[s] + w <= x
        BY <3>2, <3>6, <2>1, <2>2
      <4> QED
        BY <4>1, <4>2, <3>3
    <3> QED
      BY <3>4, <3>5, <3>6, <2>1, <1>4, <1>5
  <2>6. page'.offset[i] \in Int
    BY <1>4, <2>1, <2>4 DEF Layout, Words
  <2> QED
    BY <2>1, <2>4, <2>5, <2>6, KeptBytes
<1> QED
  BY <1>2, <1>3, <1>4, <1>5 DEF IInv

\* Every step keeps the invariant.
LEMMA StepInv == IInv /\ [Next]_vars => IInv'
<1> SUFFICES ASSUME IInv, [Next]_vars
             PROVE  IInv'
  OBVIOUS
<1>1. CASE Insert
  BY <1>1, InsertStep DEF Insert
<1>2. CASE Mark
  BY <1>2, MarkStep DEF Mark
<1>3. CASE Update
  BY <1>3, UpdateStep DEF Update
<1>4. CASE Apply
  BY <1>4, ApplyStep DEF Apply
<1>5. CASE Rollback
  BY <1>5, RollbackStep DEF Rollback
<1>6. CASE Get \/ First \/ Following \/ UNCHANGED vars
  BY <1>6, SamePage, Zenon DEF Get, First, Following, vars
<1> QED
  BY <1>1, <1>2, <1>3, <1>4, <1>5, <1>6 DEF Next

\* The invariant holds for every page.
LEMMA InvHolds == Spec => []IInv
BY InitInv, StepInv, PTL DEF Spec

\* Every size word holds a size of at most a page, and each slot has its words.
THEOREM TypeCorrect == Spec => []TypeOK
<1>1. ASSUME IInv
      PROVE  TypeOK
  <2>1. /\ page.count \in Nat /\ page.free \in Nat /\ DOMAIN page.data = 0..(PageSize - 1)
        /\ page.offset \in [Slots(page) -> Nat] /\ page.size \in [Slots(page) -> Nat]
    BY <1>1 DEF IInv, Layout, Words, Room, Slots
  <2>2. ASSUME NEW i \in Slots(page)
        PROVE  UnsetDeletedFlag(page.size[i]) <= PageSize
    <3>1. page.offset[i] \in Nat /\ page.size[i] \in Nat
      BY <2>1
    <3>2. UnsetDeletedFlag(page.size[i]) \in Nat
      BY <3>1, PageAssumption DEF UnsetDeletedFlag
    <3>3. CASE page.size[i] = 0
      BY <3>3, PageAssumption DEF UnsetDeletedFlag
    <3>4. CASE page.size[i] # 0
      <4>1. page.offset[i] + UnsetDeletedFlag(page.size[i]) <= PageSize
        BY <3>4, <1>1 DEF IInv, Layout, Inside, Slots
      <4> QED
        BY <4>1, <3>1, <3>2, PageAssumption
    <3> QED
      BY <3>3, <3>4
  <2> QED
    BY <2>1, <2>2 DEF TypeOK
<1> QED
  BY <1>1, InvHolds, PTL

\* The tuples of a page never overlap, leave the page or meet the directory.
THEOREM PagesStayLaidOut == Spec => []WellLaidOut
<1>1. IInv => WellLaidOut
  BY DEF IInv, Layout, Words, Room, Inside, Apart, WellLaidOut, LaidOut, Occupied, Slots, EndOf, SizeOf
<1> QED
  BY <1>1, InvHolds, PTL

\* A tuple keeps its slot and its bytes until it is updated or removed itself.
THEOREM TuplesAreKept == Spec => TuplesStay
<1> DEFINE A == \A i \in Occupied(page) : ~Replaced(i) => Kept(i)
<1>1. IInv /\ [Next]_vars => [A]_vars
  <2> SUFFICES ASSUME IInv, Next
               PROVE  A
    OBVIOUS
  <2>1. CASE Insert
    BY <2>1, InsertStep DEF Insert
  <2>2. CASE Mark
    BY <2>2, MarkStep DEF Mark
  <2>3. CASE Update
    <3>1. PICK s \in SlotNumbers, t \in Tuples :
            /\ page' = UpdateTuple(page, t, s).page
            /\ answer' = IF UpdateTuple(page, t, s).ok THEN Says("updated", s, UpdateTuple(page, t, s).old)
                         ELSE Says("refused", s, t)
      BY <2>3 DEF Update
    <3>2. CASE UpdateTuple(page, t, s).ok
      <4>1. Replaced(s)
        BY <3>1, <3>2 DEF Replaced, Says
      <4> QED
        BY <4>1, <3>1, UpdateStep
    <3>3. CASE ~UpdateTuple(page, t, s).ok
      BY <3>1, <3>3, UpdateStep, SamePage
    <3> QED
      BY <3>2, <3>3
  <2>4. CASE Apply
    <3>1. PICK s \in Slots(page) : /\ CanApplyDelete(page, s)
                                   /\ page' = ApplyDelete(page, s)
                                   /\ answer' = Says("removed", s, <<>>)
      BY <2>4 DEF Apply
    <3>2. Replaced(s)
      BY <3>1 DEF Replaced, Says
    <3> QED
      BY <3>1, <3>2, ApplyStep
  <2>5. CASE Rollback
    BY <2>5, RollbackStep DEF Rollback
  <2>6. CASE Get \/ First \/ Following
    BY <2>6, SamePage, Zenon DEF Get, First, Following
  <2> QED
    BY <2>1, <2>2, <2>3, <2>4, <2>5, <2>6 DEF Next
<1>2. Spec => [][A]_vars
  BY <1>1, InvHolds, PTL DEF Spec
<1> QED
  BY <1>2 DEF TuplesStay, Kept

-----------------------------------------------------------------------------
(* Sums.                                                                   *)

\* The partial sums of f: what the recursive function of Sum is.
PartialSums(f, n, s) == s = [i \in 0..n |-> IF i = 0 THEN 0 ELSE s[i - 1] + f[i]]

\* There are partial sums.
LEMMA PartialSumsExist ==
    ASSUME NEW n \in Nat, NEW f \in [1..n -> Int]
    PROVE  \E s : PartialSums(f, n, s) /\ s \in [0..n -> Int]
<1> DEFINE Good(m) == \E s \in [0..m -> Int] : s = [i \in 0..m |-> IF i = 0 THEN 0 ELSE s[i - 1] + f[i]]
           T == {m \in 0..n : ~Good(m)}
<1>1. Good(0)
  <2> DEFINE s == [i \in 0..0 |-> 0]
  <2>1. s \in [0..0 -> Int] /\ s = [i \in 0..0 |-> IF i = 0 THEN 0 ELSE s[i - 1] + f[i]]
    OBVIOUS
  <2> QED
    BY <2>1, Zenon
<1>2. ASSUME NEW m \in Nat, m + 1 \in 0..n, Good(m)
      PROVE  Good(m + 1)
  <2>1. PICK s \in [0..m -> Int] : s = [i \in 0..m |-> IF i = 0 THEN 0 ELSE s[i - 1] + f[i]]
    BY <1>2, SMTT(30)
  <2> DEFINE t == [i \in 0..(m + 1) |-> IF i = m + 1 THEN s[m] + f[m + 1] ELSE s[i]]
  <2>2. m \in 0..m /\ m + 1 \in 1..n /\ s[m] + f[m + 1] \in Int
    BY <1>2
  <2>3. \A i \in 0..m : i \in 0..(m + 1) /\ t[i] = s[i]
    BY <1>2
  <2>4. t[m + 1] = s[m] + f[m + 1] /\ t[m] = s[m]
    BY <1>2
  <2>5. t \in [0..(m + 1) -> Int]
    BY <2>2, <2>3, <1>2
  <2>6. ASSUME NEW i \in 0..(m + 1)
        PROVE  t[i] = IF i = 0 THEN 0 ELSE t[i - 1] + f[i]
    <3>1. CASE i = m + 1
      <4>1. i # 0 /\ i - 1 = m
        BY <3>1, <1>2
      <4> QED
        BY <4>1, <3>1, <2>4
    <3>2. CASE i # m + 1
      <4>1. i \in 0..m /\ (i # 0 => i - 1 \in 0..m)
        BY <3>2, <1>2
      <4>2. t[i] = s[i] /\ (i # 0 => t[i - 1] = s[i - 1])
        BY <4>1, <2>3
      <4>3. s[i] = IF i = 0 THEN 0 ELSE s[i - 1] + f[i]
        BY <4>1, <2>1
      <4> QED
        BY <4>2, <4>3
    <3> QED
      BY <3>1, <3>2
  <2> HIDE DEF t
  <2>7. t = [i \in 0..(m + 1) |-> IF i = 0 THEN 0 ELSE t[i - 1] + f[i]]
    BY <2>5, <2>6
  <2> QED
    BY <2>5, <2>7, Zenon
<1> HIDE DEF Good
<1>3. T = {}
  <2> SUFFICES ASSUME T # {} PROVE FALSE
    OBVIOUS
  <2>1. T \subseteq Nat
    OBVIOUS
  <2>2. PICK m \in T : \A k \in T : m <= k
    <3> HIDE DEF T
    <3> QED
      BY <2>1, Smallest, Zenon
  <2>3. m \in 0..n /\ ~Good(m)
    OBVIOUS
  <2>4. m # 0
    BY <2>3, <1>1
  <2>5. m - 1 \in Nat /\ m - 1 \in 0..n /\ ~(m <= m - 1) /\ (m - 1) + 1 = m
    BY <2>3, <2>4
  <2>6. Good(m - 1)
    BY <2>2, <2>5
  <2> QED
    BY <2>3, <2>5, <2>6, <1>2
<1>4. Good(n)
  BY <1>3
<1> QED
  BY <1>4, SMTT(30) DEF Good, PartialSums

\* A set of places of 0..n that has no first place is empty.
LEMMA NoFirst ==
    ASSUME NEW n \in Nat, NEW T, T \subseteq 0..n, 0 \notin T,
           \A i \in 1..n : i \in T => i - 1 \in T
    PROVE  T = {}
<1> SUFFICES ASSUME T # {} PROVE FALSE
  OBVIOUS
<1>1. PICK i \in T : \A j \in T : i <= j
  <2>1. T \subseteq Nat
    OBVIOUS
  <2> QED
    BY <2>1, Smallest, Zenon
<1>2. i \in 1..n /\ ~(i <= i - 1)
  <2>1. i \in 0..n /\ i # 0
    OBVIOUS
  <2> QED
    BY <2>1
<1> QED
  BY <1>1, <1>2

\* Sum is the last of the partial sums.
LEMMA SumIs ==
    ASSUME NEW n \in Nat, NEW f \in [1..n -> Int]
    PROVE  \E s \in [0..n -> Int] :
             /\ Store!Sum(f, n) = s[n] /\ s[0] = 0
             /\ \A i \in 1..n : s[i] = s[i - 1] + f[i]
<1> DEFINE upto == CHOOSE s : PartialSums(f, n, s)
<1>1. PartialSums(f, n, upto)
  BY PartialSumsExist
<1>2. Store!Sum(f, n) = upto[n]
  BY DEF Store!Sum, PartialSums
<1>3. PICK s \in [0..n -> Int] : PartialSums(f, n, s)
  BY PartialSumsExist
<1> HIDE DEF upto
<1>4. /\ s[0] = 0 /\ upto[0] = 0
      /\ \A i \in 1..n : s[i] = s[i - 1] + f[i] /\ upto[i] = upto[i - 1] + f[i]
  <2>1. \A i \in 0..n : /\ s[i] = IF i = 0 THEN 0 ELSE s[i - 1] + f[i]
                       /\ upto[i] = IF i = 0 THEN 0 ELSE upto[i - 1] + f[i]
    BY <1>1, <1>3 DEF PartialSums
  <2>2. 0 \in 0..n /\ \A i \in 1..n : i \in 0..n /\ i # 0
    OBVIOUS
  <2> QED
    BY <2>1, <2>2, Zenon
<1> DEFINE T == {i \in 0..n : upto[i] # s[i]}
<1>5. T = {}
  <2>1. T \subseteq 0..n /\ 0 \notin T
    BY <1>4
  <2>2. ASSUME NEW i \in 1..n, i \in T PROVE i - 1 \in T
    <3>1. i - 1 \in 0..n
      OBVIOUS
    <3> QED
      BY <3>1, <2>2, <1>4, SMTT(30)
  <2> HIDE DEF T
  <2> QED
    BY <2>1, <2>2, NoFirst, Zenon
<1>6. upto[n] = s[n]
  BY <1>5
<1> QED
  BY <1>2, <1>4, <1>6, Zenon

\* It is a number.
LEMMA SumIsNumber ==
    ASSUME NEW n \in Nat, NEW f \in [1..n -> Int]
    PROVE  Store!Sum(f, n) \in Int
<1>1. PICK s \in [0..n -> Int] : Store!Sum(f, n) = s[n]
  BY SumIs
<1>2. n \in 0..n
  OBVIOUS
<1> QED
  BY <1>1, <1>2

\* One summand changes.
LEMMA SumChanges ==
    ASSUME NEW n \in Nat, NEW f \in [1..n -> Int], NEW g \in [1..n -> Int], NEW k \in 1..n,
           \A i \in 1..n : i # k => g[i] = f[i]
    PROVE  Store!Sum(g, n) = Store!Sum(f, n) + g[k] - f[k]
<1> DEFINE d == g[k] - f[k]
<1>1. d \in Int /\ f[k] \in Int /\ g[k] = f[k] + d
  OBVIOUS
<1>2. PICK s \in [0..n -> Int] :
        /\ Store!Sum(f, n) = s[n] /\ s[0] = 0
        /\ \A i \in 1..n : s[i] = s[i - 1] + f[i]
  BY SumIs, Zenon
<1>3. PICK t \in [0..n -> Int] :
        /\ Store!Sum(g, n) = t[n] /\ t[0] = 0
        /\ \A i \in 1..n : t[i] = t[i - 1] + g[i]
  BY SumIs, Zenon
<1> HIDE DEF d
<1> DEFINE T == {i \in 0..n : t[i] # s[i] + (IF i >= k THEN d ELSE 0)}
<1>4. T = {}
  <2>1. T \subseteq 0..n /\ 0 \notin T
    BY <1>2, <1>3, SMTT(30)
  <2>2. ASSUME NEW i \in 1..n, i \in T PROVE i - 1 \in T
    <3>1. i - 1 \in 0..n /\ s[i - 1] \in Int /\ t[i - 1] \in Int /\ f[i] \in Int /\ g[i] \in Int
      OBVIOUS
    <3>2. s[i] = s[i - 1] + f[i] /\ t[i] = t[i - 1] + g[i]
      BY <1>2, <1>3, SMTT(30)
    <3>3. t[i] # s[i] + (IF i >= k THEN d ELSE 0)
      BY <2>2
    <3>4. g[i] = IF i = k THEN f[i] + d ELSE f[i]
      BY <1>1, SMTT(30)
    <3>5. t[i - 1] # s[i - 1] + (IF i - 1 >= k THEN d ELSE 0)
      <4>1. CASE i < k
        <5>1. ~(i >= k) /\ ~(i - 1 >= k) /\ i # k
          BY <4>1
        <5> QED
          BY <5>1, <3>1, <3>2, <3>3, <3>4
      <4>2. CASE i = k
        <5>1. i >= k /\ ~(i - 1 >= k)
          BY <4>2
        <5> QED
          BY <5>1, <4>2, <3>1, <3>2, <3>3, <3>4, <1>1
      <4>3. CASE i > k
        <5>1. i >= k /\ i - 1 >= k /\ i # k
          BY <4>3
        <5> QED
          BY <5>1, <3>1, <3>2, <3>3, <3>4, <1>1
      <4> QED
        BY <4>1, <4>2, <4>3
    <3> QED
      BY <3>1, <3>5
  <2> HIDE DEF T
  <2> QED
    BY <2>1, <2>2, NoFirst, Zenon
<1>5. t[n] = s[n] + d
  <2>1. n \in 0..n /\ n >= k
    OBVIOUS
  <2>2. t[n] = s[n] + (IF n >= k THEN d ELSE 0)
    BY <2>1, <1>4, SMTT(30)
  <2> QED
    BY <2>1, <2>2
<1>6. s[n] \in Int
  OBVIOUS
<1> QED
  BY <1>1, <1>2, <1>3, <1>5, <1>6 DEF d

\* There is one summand more.
LEMMA SumGrows ==
    ASSUME NEW n \in Nat, NEW f \in [1..n -> Int], NEW g \in [1..(n + 1) -> Int],
           \A i \in 1..n : g[i] = f[i]
    PROVE  Store!Sum(g, n + 1) = Store!Sum(f, n) + g[n + 1]
<1>1. PICK s \in [0..n -> Int] :
        /\ Store!Sum(f, n) = s[n] /\ s[0] = 0
        /\ \A i \in 1..n : s[i] = s[i - 1] + f[i]
  BY SumIs, Zenon
<1>2. PICK t \in [0..(n + 1) -> Int] :
        /\ Store!Sum(g, n + 1) = t[n + 1] /\ t[0] = 0
        /\ \A i \in 1..(n + 1) : t[i] = t[i - 1] + g[i]
  <2>1. n + 1 \in Nat
    OBVIOUS
  <2> QED
    BY <2>1, SumIs, Zenon
<1> DEFINE T == {i \in 0..n : t[i] # s[i]}
<1>3. T = {}
  <2>1. T \subseteq 0..n /\ 0 \notin T
    BY <1>1, <1>2
  <2>2. ASSUME NEW i \in 1..n, i \in T PROVE i - 1 \in T
    <3>1. i - 1 \in 0..n /\ i \in 1..(n + 1)
      OBVIOUS
    <3>2. s[i] = s[i - 1] + f[i] /\ t[i] = t[i - 1] + g[i] /\ g[i] = f[i]
      BY <3>1, <1>1, <1>2, SMTT(30)
    <3>3. t[i] # s[i]
      BY <2>2
    <3> QED
      BY <3>1, <3>2, <3>3
  <2> HIDE DEF T
  <2> QED
    BY <2>1, <2>2, NoFirst, Zenon
<1>4. t[n] = s[n]
  <2>1. n \in 0..n
    OBVIOUS
  <2> QED
    BY <2>1, <1>3, Zenon
<1>5. n + 1 \in 1..(n + 1) /\ (n + 1) - 1 = n
  OBVIOUS
<1>6. t[n + 1] = t[n] + g[n + 1]
  BY <1>2, <1>5
<1> QED
  BY <1>1, <1>2, <1>4, <1>6
=============================================================================
