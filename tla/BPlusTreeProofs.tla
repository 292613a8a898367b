--------------------------- MODULE BPlusTreeProofs ---------------------------
(***************************************************************************)
(* For any capacity and any names that are not more, the header page is    *)
(* the directory it stands for.  The invariant is that the names counted   *)
(* are distinct: then the first record of a name is its only one, a page   *)
(* and its directory determine each other, and there is always room for    *)
(* another name, which InsertRecord does not ask for.                      *)
(*                                                                         *)
(* For any trees, keys and leaf size, no pin is left behind, and a tree    *)
(* keeps its entries.  The invariant is that the pages are numbered        *)
(* without gaps and every leaf has exactly one entry: a call that finds    *)
(* its key different from that entry's is refused, and one that finds it   *)
(* equal changes nothing.  A second one, about the header page as the      *)
(* directory it implements, says that the page records the root of every   *)
(* tree that is not empty and no other.                                    *)
(***************************************************************************)
EXTENDS BPlusTree, FiniteSetTheorems, TLAPS

-----------------------------------------------------------------------------
(* The header page: its records.                                           *)
HeaderInv == HeaderTypeOK /\ NamesDistinct

\* What a page is made of.
LEMMA PageParts ==
    ASSUME NEW pg \in Pages
    PROVE  /\ pg.count \in 0..Capacity
           /\ pg.records \in [1..Capacity -> [name : Names \cup {""}, root_id : RootIds \cup {0}]]
           /\ pg = [count |-> pg.count, records |-> pg.records]
BY DEF Pages

\* A function with one value replaced.
LEMMA ExceptType ==
    ASSUME NEW S, NEW R, NEW g \in [S -> R], NEW c, NEW x \in R
    PROVE  [g EXCEPT ![c] = x] \in [S -> R]
BY Zenon

\* A place of a record counted is a place of the page, and not 0.
LEMMA Places ==
    ASSUME NEW pg \in Pages, NEW i \in 1..pg.count
    PROVE  i \in 1..Capacity /\ i # 0
<1>1. pg.count \in 0..Capacity
  BY PageParts
<1>2. pg.count \in Int
  BY <1>1, CapacityAssumption
<1> QED
  BY <1>1, <1>2, CapacityAssumption

\* FindRecord finds the only record of a name.
LEMMA FindsIt ==
    ASSUME NEW pg \in Pages, Distinct(pg), NEW i \in 1..pg.count
    PROVE  FindRecord(pg, pg.records[i].name) = i
<1> DEFINE at == {k \in 1..pg.count : pg.records[k].name = pg.records[i].name}
<1>1. at = {i}
  BY DEF Distinct
<1>2. i \in 1..Capacity
  BY Places
<1>3. i <= i
  BY <1>2, CapacityAssumption
<1>4. (CHOOSE k \in at : \A j \in at : k <= j) = i
  BY <1>1, <1>3
<1> QED
  BY <1>1, <1>4 DEF FindRecord

\* It answers 0 for a name that no record counted has.
LEMMA FindsNone ==
    ASSUME NEW pg \in Pages, NEW name, \A i \in 1..pg.count : pg.records[i].name # name
    PROVE  FindRecord(pg, name) = 0
BY DEF FindRecord

\* So a place it answers is that of a record of the name, and 0 means there is none.
LEMMA Found ==
    ASSUME NEW pg \in Pages, Distinct(pg), NEW name
    PROVE  /\ FindRecord(pg, name) # 0 => /\ FindRecord(pg, name) \in 1..pg.count
                                          /\ pg.records[FindRecord(pg, name)].name = name
           /\ FindRecord(pg, name) = 0 => \A i \in 1..pg.count : pg.records[i].name # name
<1>1. CASE \A i \in 1..pg.count : pg.records[i].name # name
  BY <1>1, FindsNone
<1>2. CASE \E i \in 1..pg.count : pg.records[i].name = name
  <2>1. PICK i \in 1..pg.count : pg.records[i].name = name
    BY <1>2
  <2>2. FindRecord(pg, name) = i
    BY <2>1, FindsIt
  <2>3. i # 0
    BY Places
  <2> QED
    BY <2>1, <2>2, <2>3
<1> QED
  BY <1>1, <1>2

\* The root a page has for a name is that of its record.
LEMMA RecordedAt ==
    ASSUME NEW pg \in Pages, Distinct(pg), NEW i \in 1..pg.count, pg.records[i].name \in Names
    PROVE  /\ pg.records[i].name \in DOMAIN Recorded(pg)
           /\ Recorded(pg)[pg.records[i].name] = pg.records[i].root_id
<1>1. FindRecord(pg, pg.records[i].name) = i /\ i # 0
  BY FindsIt, Places
<1> QED
  BY <1>1 DEF Recorded, GetRootId

\* The names of a page's directory are those of its records that are counted.
LEMMA RecordedDomain ==
    ASSUME NEW pg \in Pages, Distinct(pg)
    PROVE  DOMAIN Recorded(pg) = {n \in Names : \E i \in 1..pg.count : pg.records[i].name = n}
<1> SUFFICES ASSUME NEW n \in Names
             PROVE  FindRecord(pg, n) # 0 <=> \E i \in 1..pg.count : pg.records[i].name = n
  BY DEF Recorded
<1> QED
  BY Found

\* A function on the names a page has, that gives each the root of its record, is the
\* page's directory.
LEMMA RecordedIs ==
    ASSUME NEW pg \in Pages, Distinct(pg), NEW f,
           f = [n \in DOMAIN f |-> f[n]],
           DOMAIN f = {n \in Names : \E i \in 1..pg.count : pg.records[i].name = n},
           \A i \in 1..pg.count : pg.records[i].name \in Names => f[pg.records[i].name] = pg.records[i].root_id
    PROVE  Recorded(pg) = f
<1>1. DOMAIN Recorded(pg) = DOMAIN f
  BY RecordedDomain
<1>2. ASSUME NEW n \in DOMAIN f PROVE Recorded(pg)[n] = f[n]
  <2>1. PICK i \in 1..pg.count : pg.records[i].name = n
    OBVIOUS
  <2> QED
    BY <2>1, RecordedAt
<1>3. Recorded(pg) = [n \in DOMAIN Recorded(pg) |-> Recorded(pg)[n]]
  BY DEF Recorded
<1> QED
  BY <1>1, <1>2, <1>3

-----------------------------------------------------------------------------
(* What each function of the class makes of a page with distinct names.    *)

\* There is room for a name that is not there: the records counted and the new one have as
\* many names, and the page has a place for each name.
LEMMA RoomForOne ==
    ASSUME NEW pg \in Pages, Distinct(pg), NEW n \in Names, FindRecord(pg, n) = 0
    PROVE  pg.count < Capacity
<1> DEFINE c == pg.count + 1
           name(i) == IF i = c THEN n ELSE pg.records[i].name
           f == [i \in 1..c |-> name(i)]
<1>0. pg.count \in 0..Capacity
  BY PageParts
<1>1. Capacity \in Nat /\ pg.count \in Nat
  BY <1>0, CapacityAssumption
<1>2. c \in Nat /\ c # 0 /\ 1..c = 1..pg.count \cup {c} /\ c \notin 1..pg.count
  BY <1>1
<1>3. \A i \in 1..pg.count : pg.records[i].name \in Names /\ pg.records[i].name # n
  <2> SUFFICES ASSUME NEW i \in 1..pg.count PROVE pg.records[i].name \in Names /\ pg.records[i].name # n
    OBVIOUS
  <2>1. i \in 1..Capacity
    BY Places
  <2>2. pg.records[i].name \in Names \cup {""}
    BY <2>1, PageParts
  <2> QED
    BY <2>2, Found DEF Distinct
<1> HIDE DEF c
<1>4. f \in [1..c -> Names]
  BY <1>2, <1>3
<1>5. ASSUME NEW i \in 1..c, NEW j \in 1..c, f[i] = f[j] PROVE i = j
  <2>1. name(i) = name(j)
    BY <1>5
  <2>2. CASE i = c \/ j = c
    BY <2>1, <2>2, <1>2, <1>3
  <2>3. CASE i # c /\ j # c
    BY <2>1, <2>3, <1>2 DEF Distinct
  <2> QED
    BY <2>2, <2>3
<1>6. f \in Injection(1..c, Names)
  <2> HIDE DEF f
  <2> QED
    BY <1>4, <1>5 DEF Injection, IsInjective
<1>7. Cardinality(1..c) <= Cardinality(Names)
  <2>1. IsFiniteSet(Names)
    BY NamesAssumption
  <2> HIDE DEF f
  <2> QED
    BY <1>6, <2>1, FS_Injection, Zenon
<1>8. Cardinality(1..c) = c
  BY <1>2, FS_Interval
<1>9. Cardinality(Names) <= Capacity /\ Cardinality(Names) \in Nat
  BY NamesAssumption, FS_CardinalityType
<1> QED
  BY <1>1, <1>2, <1>7, <1>8, <1>9 DEF c

\* InsertRecord keeps the names distinct, and adds the name to the directory unless it
\* is there.
LEMMA Inserted ==
    ASSUME NEW pg \in Pages, Distinct(pg), NEW n \in Names, NEW r \in RootIds
    PROVE  LET q == InsertRecord(pg, n, r)
               d == Recorded(pg)
           IN  /\ q \in Pages /\ Distinct(q)
               /\ Recorded(q) = [m \in DOMAIN d \cup {n} |-> IF m \in DOMAIN d THEN d[m] ELSE r]
<1> DEFINE q == InsertRecord(pg, n, r)
           d == Recorded(pg)
           f == [m \in DOMAIN d \cup {n} |-> IF m \in DOMAIN d THEN d[m] ELSE r]
<1>1. CASE FindRecord(pg, n) # 0
  <2>1. q = pg
    BY <1>1 DEF InsertRecord
  <2>2. n \in DOMAIN d
    BY <1>1 DEF Recorded
  <2>3. d = [m \in DOMAIN d |-> d[m]]
    BY DEF Recorded
  <2>4. d = f
    <3> HIDE DEF d
    <3>1. DOMAIN d \cup {n} = DOMAIN d
      BY <2>2
    <3>2. f = [m \in DOMAIN d |-> d[m]]
      BY <3>1
    <3> QED
      BY <2>3, <3>2
  <2> QED
    BY <2>1, <2>4
<1>2. CASE FindRecord(pg, n) = 0
  <2>1. pg.count \in 0..Capacity /\ pg.count < Capacity
    BY <1>2, PageParts, RoomForOne
  <2>2. pg.records \in [1..Capacity -> [name : Names \cup {""}, root_id : RootIds \cup {0}]]
    BY PageParts
  <2>3. \A i \in 1..pg.count : pg.records[i].name # n
    BY <1>2, Found
  <2> DEFINE c == pg.count + 1
             rs == [pg.records EXCEPT ![c] = Record(n, r)]
  <2>4. q = [count |-> c, records |-> rs]
    BY <1>2 DEF InsertRecord
  <2>5. c \in 1..Capacity /\ c \in 0..Capacity /\ 1..c = 1..pg.count \cup {c} /\ c \notin 1..pg.count
    BY <2>1, CapacityAssumption
  <2>6. rs[c] = Record(n, r) /\ \A i \in 1..pg.count : rs[i] = pg.records[i]
    BY <2>1, <2>2, <2>5, Places
  <2>7. Record(n, r) \in [name : Names \cup {""}, root_id : RootIds \cup {0}]
    BY DEF Record
  <2>8. rs \in [1..Capacity -> [name : Names \cup {""}, root_id : RootIds \cup {0}]]
    BY <2>2, <2>7, ExceptType
  <2>9. q \in Pages
    <3> HIDE DEF q, rs, c
    <3> QED
      BY <2>4, <2>5, <2>8 DEF Pages
  <2>10. q.count = c /\ q.records = rs
    BY <2>4
  <2>11. rs[c].name = n /\ rs[c].root_id = r
    BY <2>6 DEF Record
  <2>12. Distinct(q)
    <3>0. \A i \in 1..c : rs[i].name # ""
      BY <2>5, <2>6, <2>11, NamesAssumption DEF Distinct
    <3> SUFFICES ASSUME NEW i \in 1..c, NEW j \in 1..c, rs[i].name = rs[j].name PROVE i = j
      BY <2>10, <3>0 DEF Distinct
    <3>1. CASE i \in 1..pg.count /\ j \in 1..pg.count
      BY <3>1, <2>6 DEF Distinct
    <3>2. CASE i = c \/ j = c
      BY <3>2, <2>3, <2>5, <2>6, <2>11
    <3> QED
      BY <3>1, <3>2, <2>5
  <2>13. DOMAIN d = {m \in Names : \E i \in 1..pg.count : pg.records[i].name = m}
    BY RecordedDomain
  <2>14. DOMAIN f = {m \in Names : \E i \in 1..q.count : q.records[i].name = m}
    BY <2>5, <2>6, <2>10, <2>11, <2>13
  <2>15. ASSUME NEW i \in 1..q.count, q.records[i].name \in Names
         PROVE  f[q.records[i].name] = q.records[i].root_id
    <3>1. CASE i = c
      BY <3>1, <2>3, <2>10, <2>11, <2>13
    <3>2. CASE i \in 1..pg.count
      BY <3>2, <2>6, <2>10, <2>15, RecordedAt
    <3> QED
      BY <3>1, <3>2, <2>5, <2>10
  <2>16. f = [m \in DOMAIN f |-> f[m]]
    OBVIOUS
  <2>17. Recorded(q) = f
    <3> HIDE DEF q, f
    <3> QED
      BY <2>9, <2>12, <2>14, <2>15, <2>16, RecordedIs
  <2> QED
    BY <2>9, <2>12, <2>17
<1> QED
  BY <1>1, <1>2

\* UpdateRecord gives the name another root if it is there, and no name is lost.
LEMMA Updated ==
    ASSUME NEW pg \in Pages, Distinct(pg), NEW n \in Names, NEW r \in RootIds
    PROVE  LET q == UpdateRecord(pg, n, r)
               d == Recorded(pg)
           IN  /\ q \in Pages /\ Distinct(q)
               /\ Recorded(q) = [m \in DOMAIN d |-> IF m = n THEN r ELSE d[m]]
<1> DEFINE q == UpdateRecord(pg, n, r)
           d == Recorded(pg)
           f == [m \in DOMAIN d |-> IF m = n THEN r ELSE d[m]]
           at == FindRecord(pg, n)
<1>1. CASE at = 0
  <2>1. q = pg
    BY <1>1 DEF UpdateRecord
  <2>2. n \notin DOMAIN d
    BY <1>1 DEF Recorded
  <2>3. d = [m \in DOMAIN d |-> d[m]]
    BY DEF Recorded
  <2>4. d = f
    BY <2>2, <2>3
  <2> QED
    BY <2>1, <2>4
<1>2. CASE at # 0
  <2> DEFINE rec == [pg.records[at] EXCEPT !.root_id = r]
             rs == [pg.records EXCEPT ![at] = rec]
  <2>1. pg.records \in [1..Capacity -> [name : Names \cup {""}, root_id : RootIds \cup {0}]]
    BY PageParts
  <2>2. at \in 1..pg.count /\ pg.records[at].name = n /\ at \in 1..Capacity
    BY <1>2, Found, Places
  <2>3. rec \in [name : Names \cup {""}, root_id : RootIds \cup {0}] /\ rec.name = n /\ rec.root_id = r
    BY <2>1, <2>2
  <2>4. rs \in [1..Capacity -> [name : Names \cup {""}, root_id : RootIds \cup {0}]]
    BY <2>1, <2>3, ExceptType
  <2>5. q = [count |-> pg.count, records |-> rs]
    BY <1>2 DEF UpdateRecord
  <2>6. q.count = pg.count /\ q.records = rs
    BY <2>5
  <2>7. q \in Pages
    <3> HIDE DEF q, rs
    <3> QED
      BY <2>4, <2>5, PageParts DEF Pages
  <2>8. rs[at] = rec /\ \A i \in 1..pg.count : i # at => rs[i] = pg.records[i]
    BY <2>1, <2>2, Places
  <2>9. \A i \in 1..pg.count : rs[i].name = pg.records[i].name
    BY <2>2, <2>3, <2>8
  <2>10. Distinct(q)
    BY <2>6, <2>9 DEF Distinct
  <2>11. DOMAIN f = {m \in Names : \E i \in 1..q.count : q.records[i].name = m}
    <3>1. DOMAIN d = {m \in Names : \E i \in 1..pg.count : pg.records[i].name = m}
      BY RecordedDomain
    <3> HIDE DEF d, q, rs
    <3> QED
      BY <3>1, <2>6, <2>9
  <2>12. ASSUME NEW i \in 1..q.count, q.records[i].name \in Names
         PROVE  f[q.records[i].name] = q.records[i].root_id
    <3>1. i \in 1..pg.count /\ q.records[i] = rs[i] /\ rs[i].name = pg.records[i].name
      BY <2>6, <2>9
    <3>2. pg.records[i].name \in DOMAIN d /\ d[pg.records[i].name] = pg.records[i].root_id
      BY <3>1, <2>12, RecordedAt
    <3>3. CASE i = at
      BY <3>1, <3>2, <3>3, <2>2, <2>3, <2>8, ZenonT(30)
    <3>4. CASE i # at
      BY <3>1, <3>2, <3>4, <2>2, <2>8 DEF Distinct
    <3> QED
      BY <3>3, <3>4
  <2>13. f = [m \in DOMAIN f |-> f[m]]
    OBVIOUS
  <2>14. Recorded(q) = f
    <3> HIDE DEF q, f
    <3> QED
      BY <2>7, <2>10, <2>11, <2>12, <2>13, RecordedIs
  <2> QED
    BY <2>7, <2>10, <2>14
<1> QED
  BY <1>1, <1>2

\* DeleteRecord takes the name out of the directory and leaves the others their roots:
\* the record at a place of the new page is the one at its place, or behind it, of the old.
LEMMA Deleted ==
    ASSUME NEW pg \in Pages, Distinct(pg), NEW n \in Names
    PROVE  LET q == DeleteRecord(pg, n)
               d == Recorded(pg)
           IN  /\ q \in Pages /\ Distinct(q)
               /\ Recorded(q) = [m \in DOMAIN d \ {n} |-> d[m]]
<1> DEFINE q == DeleteRecord(pg, n)
           d == Recorded(pg)
           f == [m \in DOMAIN d \ {n} |-> d[m]]
           at == FindRecord(pg, n)
<1>1. CASE at = 0
  <2>1. q = pg
    BY <1>1 DEF DeleteRecord
  <2>2. n \notin DOMAIN d
    BY <1>1 DEF Recorded
  <2>3. d = [m \in DOMAIN d |-> d[m]]
    BY DEF Recorded
  <2>4. d = f
    BY <2>2, <2>3, Zenon
  <2> QED
    BY <2>1, <2>4
<1>2. CASE at # 0
  <2> DEFINE c == pg.count - 1
             rs == Moved(pg, at)
             From(i) == IF i >= at THEN i + 1 ELSE i
  <2>1. pg.records \in [1..Capacity -> [name : Names \cup {""}, root_id : RootIds \cup {0}]] /\ pg.count \in 0..Capacity
    BY PageParts
  <2>2. at \in 1..pg.count /\ pg.records[at].name = n /\ at \in 1..Capacity
    BY <1>2, Found, Places
  <2>3. pg.count \in Int /\ at \in Int
    <3>1. pg.count \in 0..Capacity /\ at \in 1..pg.count
      BY <2>1, <2>2
    <3> HIDE DEF at
    <3>2. pg.count \in Int
      BY <3>1, CapacityAssumption
    <3> QED
      BY <3>1, <3>2
  <2>4. /\ c \in 0..Capacity /\ c < pg.count /\ pg.count \in 1..Capacity
        /\ \A i \in at..(pg.count - 1) : i \in 1..Capacity /\ i + 1 \in 1..Capacity
    <3>1. pg.count \in 0..Capacity /\ at \in 1..pg.count
      BY <2>1, <2>2
    <3> HIDE DEF at
    <3> QED
      BY <3>1, <2>3, CapacityAssumption
  <2>5. rs \in [1..Capacity -> [name : Names \cup {""}, root_id : RootIds \cup {0}]]
    BY <2>1, <2>4 DEF Moved
  <2>6. q = [count |-> c, records |-> rs]
    BY <1>2 DEF DeleteRecord
  <2>7. q.count = c /\ q.records = rs
    BY <2>6
  <2>8. q \in Pages
    <3> HIDE DEF q, rs, c
    <3> QED
      BY <2>4, <2>5, <2>6 DEF Pages
  <2>9. \A i \in 1..c : From(i) \in 1..pg.count /\ From(i) # at
    BY <2>2, <2>3, <2>4, CapacityAssumption
  <2>10. \A i \in 1..c : rs[i] = pg.records[From(i)]
    BY <2>2, <2>3, <2>4, CapacityAssumption DEF Moved
  <2>11. \A i, j \in 1..c : From(i) = From(j) => i = j
    BY <2>2, <2>3, <2>4, CapacityAssumption
  <2>12. \A j \in 1..pg.count : j # at => \E i \in 1..c : From(i) = j
    <3> SUFFICES ASSUME NEW j \in 1..pg.count, j # at PROVE \E i \in 1..c : From(i) = j
      OBVIOUS
    <3>1. CASE j < at
      <4>1. j \in 1..c /\ From(j) = j
        BY <3>1, <2>2, <2>3, <2>4, CapacityAssumption
      <4> QED
        BY <4>1
    <3>2. CASE j > at
      <4>1. j - 1 \in 1..c /\ From(j - 1) = j
        BY <3>2, <2>2, <2>3, <2>4, CapacityAssumption
      <4> QED
        BY <4>1
    <3> QED
      BY <3>1, <3>2, <2>2, <2>3, <2>4, CapacityAssumption
  <2> HIDE DEF c, rs, From
  <2>13. Distinct(q)
    <3>1. \A i \in 1..c : rs[i].name # ""
      BY <2>9, <2>10 DEF Distinct
    <3>2. ASSUME NEW i \in 1..c, NEW j \in 1..c, rs[i].name = rs[j].name
          PROVE  i = j
      <4>1. From(i) \in 1..pg.count /\ From(j) \in 1..pg.count
        BY <2>9
      <4>2. pg.records[From(i)].name = pg.records[From(j)].name
        BY <3>2, <2>10
      <4>3. From(i) = From(j)
        BY <4>1, <4>2 DEF Distinct
      <4> QED
        BY <4>3, <2>11
    <3> HIDE DEF q
    <3> QED
      BY <2>7, <3>1, <3>2 DEF Distinct
  <2>14. DOMAIN d = {m \in Names : \E i \in 1..pg.count : pg.records[i].name = m}
    BY RecordedDomain
  <2>15. DOMAIN f = {m \in Names : \E i \in 1..c : rs[i].name = m}
    <3>1. ASSUME NEW m \in Names, NEW i \in 1..c, rs[i].name = m PROVE m \in DOMAIN d \ {n}
      BY <3>1, <2>2, <2>9, <2>10, <2>14 DEF Distinct
    <3>2. ASSUME NEW m \in DOMAIN d, m # n PROVE m \in Names /\ \E i \in 1..c : rs[i].name = m
      <4>1. PICK j \in 1..pg.count : pg.records[j].name = m
        BY <3>2, <2>14
      <4>2. PICK i \in 1..c : From(i) = j
        BY <4>1, <3>2, <2>2, <2>12
      <4> QED
        BY <4>1, <4>2, <3>2, <2>10, <2>14
    <3> QED
      BY <3>1, <3>2
  <2>16. ASSUME NEW i \in 1..c, rs[i].name \in Names
         PROVE  f[rs[i].name] = rs[i].root_id
    <3>1. From(i) \in 1..pg.count /\ rs[i] = pg.records[From(i)]
      BY <2>9, <2>10
    <3>2. d[rs[i].name] = rs[i].root_id
      BY <3>1, <2>16, RecordedAt
    <3>3. rs[i].name \in DOMAIN f
      BY <2>15, <2>16
    <3> QED
      BY <3>2, <3>3
  <2>17. f = [m \in DOMAIN f |-> f[m]]
    OBVIOUS
  <2>18. Recorded(q) = f
    <3>1. DOMAIN f = {m \in Names : \E i \in 1..q.count : q.records[i].name = m}
      BY <2>7, <2>15
    <3>2. \A i \in 1..q.count : q.records[i].name \in Names => f[q.records[i].name] = q.records[i].root_id
      BY <2>7, <2>16
    <3> HIDE DEF q, f
    <3> QED
      BY <2>8, <2>13, <2>17, <3>1, <3>2, RecordedIs
  <2> QED
    BY <2>8, <2>13, <2>18
<1> QED
  BY <1>1, <1>2

-----------------------------------------------------------------------------
(* The header page: the specification.                                     *)

\* A page of zeros satisfies the invariant and stands for the empty directory.
LEMMA HeaderInitInv == HeaderInit => HeaderInv /\ Recorded(page) = [n \in {} |-> 0]
<1> SUFFICES ASSUME HeaderInit PROVE HeaderInv /\ Recorded(page) = [n \in {} |-> 0]
  OBVIOUS
<1>1. page.count = 0 /\ page = [count |-> 0, records |-> [i \in 1..Capacity |-> Record("", 0)]]
  BY DEF HeaderInit, ZeroPage
<1>2. HeaderTypeOK
  <2>1. [i \in 1..Capacity |-> Record("", 0)] \in [1..Capacity -> [name : Names \cup {""}, root_id : RootIds \cup {0}]]
    BY DEF Record
  <2>2. 0 \in 0..Capacity
    BY CapacityAssumption
  <2> DEFINE rs == [i \in 1..Capacity |-> Record("", 0)]
  <2>3. page = [count |-> 0, records |-> rs]
    BY <1>1
  <2> HIDE DEF rs
  <2> QED
    BY <2>1, <2>2, <2>3 DEF HeaderTypeOK, Pages, rs
<1>3. 1..page.count = {}
  <2>1. page.count = 0
    BY <1>1
  <2>2. 1..0 = {}
    OBVIOUS
  <2> QED
    BY <2>1, <2>2
<1>4. NamesDistinct
  BY <1>3 DEF NamesDistinct, Distinct
<1>5. \A n \in Names : FindRecord(page, n) = 0
  BY <1>3 DEF FindRecord
<1> QED
  BY <1>2, <1>4, <1>5 DEF HeaderInv, Recorded

\* Every step keeps the invariant, and is the step of the directory that its call names.
LEMMA HeaderStepInv ==
    HeaderInv /\ [HeaderNext]_headerVars => HeaderInv' /\ [Directory!Next]_(Directory!vars)
<1> SUFFICES ASSUME HeaderInv, [HeaderNext]_headerVars PROVE HeaderInv' /\ [Directory!Next]_(Directory!vars)
  OBVIOUS
<1>0. page \in Pages /\ Distinct(page)
  BY DEF HeaderInv, HeaderTypeOK, NamesDistinct
<1>1. CASE HeaderNext
  <2>1. PICK n \in Names : HeaderCall(n)
    BY <1>1 DEF HeaderNext
  <2>2. CASE \E r \in RootIds : HeaderInsert(n, r)
    <3>1. PICK r \in RootIds :
             page' = InsertRecord(page, n, r) /\ record_call' = <<"InsertRecord", n, r>>
      BY <2>2 DEF HeaderInsert
    <3>2. page' \in Pages /\ Distinct(page') /\ Directory!Insert(n, r)
      BY <1>0, <3>1, Inserted, ZenonT(30) DEF Directory!Insert
    <3> QED
      BY <3>2 DEF HeaderInv, HeaderTypeOK, NamesDistinct, Directory!Next
  <2>3. CASE HeaderDelete(n)
    <3>1. page' \in Pages /\ Distinct(page') /\ Directory!Delete(n)
      BY <1>0, <2>3, Deleted, Zenon DEF HeaderDelete, Directory!Delete
    <3> QED
      BY <3>1 DEF HeaderInv, HeaderTypeOK, NamesDistinct, Directory!Next
  <2>4. CASE \E r \in RootIds : HeaderUpdate(n, r)
    <3>1. PICK r \in RootIds : page' = UpdateRecord(page, n, r) /\ record_call' = <<"UpdateRecord", n, r>>
      BY <2>4 DEF HeaderUpdate
    <3>2. page' \in Pages /\ Distinct(page') /\ Directory!Update(n, r)
      BY <1>0, <3>1, Updated DEF Directory!Update
    <3> QED
      BY <3>2 DEF HeaderInv, HeaderTypeOK, NamesDistinct, Directory!Next
  <2> QED
    BY <2>1, <2>2, <2>3, <2>4 DEF HeaderCall
<1>2. CASE UNCHANGED headerVars
  BY <1>2 DEF headerVars, HeaderInv, HeaderTypeOK, NamesDistinct, Directory!vars
<1> QED
  BY <1>1, <1>2

\* However names are inserted, updated and deleted, the records counted lie on the page and
\* no two of them have one name: InsertRecord, which does not ask for room, never writes
\* behind the page if there are no more names than places.
THEOREM NamesStayDistinct == HeaderSpec => [](HeaderTypeOK /\ NamesDistinct)
<1>1. HeaderInit => HeaderInv
  BY HeaderInitInv
<1>2. HeaderInv /\ [HeaderNext]_headerVars => HeaderInv'
  BY HeaderStepInv
<1>3. HeaderInv => HeaderTypeOK /\ NamesDistinct
  BY DEF HeaderInv
<1> QED
  BY <1>1, <1>2, <1>3, PTL DEF HeaderSpec

\* HeaderPage implements a directory of roots, whatever the capacity and the names it is for.
THEOREM PageIsADirectory == HeaderSpec => RefinesDirectory
<1>1. HeaderInit => HeaderInv /\ Directory!Init
  BY HeaderInitInv DEF HeaderInit, Directory!Init
<1>2. HeaderInv /\ [HeaderNext]_headerVars => HeaderInv' /\ [Directory!Next]_(Directory!vars)
  BY HeaderStepInv
<1> QED
  BY <1>1, <1>2, PTL DEF HeaderSpec, RefinesDirectory, Directory!Spec

-----------------------------------------------------------------------------
(* The trees: the invariant.                                               *)

IsLeaf(pg) == pg.kind = "leaf"
Single(array) == Len(array) = 1 /\ DOMAIN array = {1}
IInv ==
    /\ \E n \in Nat : DOMAIN pages = 0..(n - 1)
    /\ HEADER_PAGE_ID \in DOMAIN pages
    /\ DOMAIN pins = DOMAIN pages
    /\ \A p \in DOMAIN pins : pins[p] = 0
    /\ \A p \in DOMAIN pages : IsLeaf(pages[p]) => Single(pages[p].array)
    /\ DOMAIN root_page_id_ = Trees
    /\ \A t \in Trees : ~IsEmpty(t) => root_page_id_[t] \in DOMAIN pages /\ IsLeaf(pages[root_page_id_[t]])

-----------------------------------------------------------------------------
(* Pages and pins.                                                         *)

\* The id of a new page is that of no page, and leaves no gap.
LEMMA NewPageIsNew ==
    ASSUME NEW n \in Nat, DOMAIN pages = 0..(n - 1)
    PROVE  NewPageId = n /\ n \notin DOMAIN pages /\ DOMAIN pages \cup {n} = 0..((n + 1) - 1)
<1>1. Cardinality(0..(n - 1)) = IF 0 > n - 1 THEN 0 ELSE n - 1 - 0 + 1
  BY FS_Interval
<1>2. NewPageId = n
  BY <1>1 DEF NewPageId
<1> QED
  BY <1>2

\* One FetchPage and one UnpinPage leave the pins as they were.
LEMMA FetchAndUnpin ==
    ASSUME NEW ps, NEW p \in DOMAIN ps, \A q \in DOMAIN ps : ps[q] \in Nat
    PROVE  LET after == UnpinPage(FetchPage(ps, p), p) IN
           DOMAIN after = DOMAIN ps /\ \A q \in DOMAIN ps : after[q] = ps[q]
BY DEF FetchPage, UnpinPage

\* A page that is made and unpinned has no pins, and the others have theirs.
LEMMA NewAndUnpin ==
    ASSUME NEW ps, NEW p
    PROVE  LET after == UnpinPage(NewPage(ps, p), p) IN
           /\ DOMAIN after = DOMAIN ps \cup {p}
           /\ after[p] = 0
           /\ \A q \in DOMAIN ps \ {p} : after[q] = ps[q]
BY DEF UnpinPage, NewPage, Extended

-----------------------------------------------------------------------------
(* Leaves.                                                                 *)

\* The first entry of a leaf.
LEMMA InsertFirst ==
    ASSUME NEW key, NEW rid
    PROVE  Single(InsertKey(<<>>, key, rid))
<1>1. KeyIndex(<<>>, key) = 0
  BY FS_EmptySet DEF KeyIndex
<1>2. InsertKey(<<>>, key, rid) = Shifted(<<>>, 0, Entry(key, rid))
  BY <1>1 DEF InsertKey
<1>3. SubSeq(<<>>, 1, 0) = <<>> /\ SubSeq(<<>>, 0 + 1, Len(<<>>)) = <<>>
  OBVIOUS
<1>4. Shifted(<<>>, 0, Entry(key, rid)) = <<>> \o <<Entry(key, rid)>> \o <<>>
  BY <1>3, Zenon DEF Shifted
<1>5. <<>> \o <<Entry(key, rid)>> \o <<>> = <<Entry(key, rid)>>
  OBVIOUS
<1> QED
  BY <1>2, <1>4, <1>5 DEF Single

\* InsertKey does nothing for the key of the only entry.
LEMMA InsertSame ==
    ASSUME NEW array, NEW key, NEW rid, Single(array), comparator_(array[1].key, key) = 0
    PROVE  InsertKey(array, key, rid) = array
<1>1. {i \in DOMAIN array : comparator_(array[i].key, key) < 0} = {}
  BY DEF Single
<1>2. KeyIndex(array, key) = 0
  BY <1>1, FS_EmptySet DEF KeyIndex
<1> QED
  BY <1>2 DEF InsertKey, Single

-----------------------------------------------------------------------------
(* The steps.                                                              *)

\* An instance begins without trees, and with the header page.
LEMMA InitInv == Init => IInv
<1> SUFFICES ASSUME Init PROVE IInv
  OBVIOUS
<1>1. DOMAIN pages = {0} /\ HEADER_PAGE_ID \in DOMAIN pages
  BY DEF Init, HEADER_PAGE_ID
<1>2. \E n \in Nat : DOMAIN pages = 0..(n - 1)
  <2>1. {0} = 0..(1 - 1)
    OBVIOUS
  <2> QED
    BY <1>1, <2>1
<1>3. \A p \in DOMAIN pages : ~IsLeaf(pages[p])
  BY <1>1 DEF Init, IsLeaf, OtherPage, HEADER_PAGE_ID
<1>4. \A t \in Trees : IsEmpty(t)
  BY DEF Init, IsEmpty
<1> QED
  BY <1>1, <1>2, <1>3, <1>4 DEF Init, IInv

\* The pins are those of before when a call of GetValue returns.
LEMMA GetValuePins ==
    ASSUME IInv, NEW t \in Trees
    PROVE  DOMAIN PinsAfterGetValue(t) = DOMAIN pins /\ \A p \in DOMAIN pins : PinsAfterGetValue(t)[p] = 0
<1>1. CASE IsEmpty(t)
  BY <1>1 DEF PinsAfterGetValue, IInv
<1>2. CASE ~IsEmpty(t)
  <2>1. Findleaf(t) \in DOMAIN pins /\ \A p \in DOMAIN pins : pins[p] \in Nat
    BY <1>2 DEF IInv, Findleaf
  <2> QED
    BY <1>2, <2>1, FetchAndUnpin DEF PinsAfterGetValue, IInv
<1> QED
  BY <1>1, <1>2

\* What a step must keep for a tree to keep its entry.
Kept ==
    /\ DOMAIN pages \subseteq DOMAIN pages'
    /\ \A p \in DOMAIN pages : IsLeaf(pages[p]) => IsLeaf(pages'[p]) /\ pages'[p].array = pages[p].array
    /\ \A t \in Trees : ~IsEmpty(t) => root_page_id_'[t] = root_page_id_[t]

\* The first insertion into a tree makes a leaf with one entry on a page of its own.
LEMMA StartTreeStep ==
    ASSUME IInv, NEW t \in Trees, NEW key, NEW rid, IsEmpty(t),
           StartTree(t, key, rid)
    PROVE  IInv' /\ Kept
<1> DEFINE r == NewPageId
           leaf == LeafPage(InsertKey(<<>>, key, rid))
<1>1. PICK n \in Nat : DOMAIN pages = 0..(n - 1)
  BY DEF IInv
<1>2. r = n /\ r \notin DOMAIN pages /\ DOMAIN pages \cup {r} = 0..((n + 1) - 1)
  BY <1>1, NewPageIsNew
<1>5. pages' = Extended(pages, r, leaf)
  BY DEF StartTree
<1>6. /\ DOMAIN pages' = DOMAIN pages \cup {r}
      /\ pages'[r] = leaf
      /\ \A p \in DOMAIN pages : pages'[p] = pages[p]
  BY <1>2, <1>5 DEF Extended
<1>7. IsLeaf(leaf) /\ Single(leaf.array)
  BY InsertFirst DEF IsLeaf, LeafPage
<1>8. root_page_id_' = [root_page_id_ EXCEPT ![t] = r] /\ pins' = RootPins(r)
  BY DEF StartTree
<1> HIDE DEF r, leaf
<1>9. DOMAIN pins' = DOMAIN pages' /\ \A p \in DOMAIN pins' : pins'[p] = 0
  <2> DEFINE made == NewPage(pins, r)
             headed == HeaderPins(made)
  <2>1. DOMAIN made = DOMAIN pins \cup {r} /\ made[r] = 1 /\ \A p \in DOMAIN pins : made[p] = 0
    BY <1>2 DEF NewPage, Extended, IInv
  <2>2. HEADER_PAGE_ID \in DOMAIN made /\ \A p \in DOMAIN made : made[p] \in Nat
    BY <2>1 DEF IInv
  <2> HIDE DEF made
  <2>3. DOMAIN headed = DOMAIN made /\ \A p \in DOMAIN made : headed[p] = made[p]
    BY <2>2, FetchAndUnpin DEF HeaderPins
  <2>4. pins' = UnpinPage(headed, r)
    BY <1>8 DEF RootPins, made
  <2> HIDE DEF headed
  <2> QED
    BY <1>2, <1>6, <2>1, <2>3, <2>4 DEF UnpinPage, IInv
<1>10. Kept
  BY <1>6, <1>8 DEF Kept, IInv
<1>11. \A p \in DOMAIN pages' : IsLeaf(pages'[p]) => Single(pages'[p].array)
  BY <1>6, <1>7 DEF IInv
<1>12. DOMAIN root_page_id_' = Trees
  BY <1>8 DEF IInv
<1>13. \A u \in Trees : (root_page_id_'[u] # INVALID_PAGE_ID) =>
          root_page_id_'[u] \in DOMAIN pages' /\ IsLeaf(pages'[root_page_id_'[u]])
  BY <1>6, <1>7, <1>8 DEF IInv, IsEmpty
<1>14. \E m \in Nat : DOMAIN pages' = 0..(m - 1)
  BY <1>2, <1>6
<1> QED
  BY <1>6, <1>9, <1>10, <1>11, <1>12, <1>13, <1>14 DEF IInv, IsEmpty

\* A later insertion that is not refused is of the key that is there: the leaf stays.
LEMMA InsertIntoLeafStep ==
    ASSUME IInv, NEW t \in Trees, NEW key, NEW rid, ~IsEmpty(t), ~Refused(t, key), InsertIntoLeaf(t, key, rid)
    PROVE  IInv' /\ Kept
<1> DEFINE leaf == Findleaf(t)
<1>1. leaf \in DOMAIN pages /\ IsLeaf(pages[leaf]) /\ Single(pages[leaf].array)
  BY DEF IInv, Findleaf
<1>2. comparator_(pages[leaf].array[1].key, key) = 0
  BY <1>1 DEF Refused, GetValue, Array, Single
<1>3. InsertKey(pages[leaf].array, key, rid) = pages[leaf].array
  BY <1>1, <1>2, InsertSame
<1>4. pages' = [pages EXCEPT ![leaf].array = InsertKey(pages[leaf].array, key, rid)]
  BY DEF InsertIntoLeaf
<1> HIDE DEF leaf
<1>5. /\ DOMAIN pages' = DOMAIN pages
      /\ \A p \in DOMAIN pages : /\ IsLeaf(pages'[p]) <=> IsLeaf(pages[p])
                                 /\ IsLeaf(pages[p]) => pages'[p].array = pages[p].array
  <2> SUFFICES ASSUME NEW p \in DOMAIN pages
               PROVE  /\ IsLeaf(pages'[p]) <=> IsLeaf(pages[p])
                      /\ IsLeaf(pages[p]) => pages'[p].array = pages[p].array
    BY <1>4
  <2>1. CASE p # leaf
    BY <1>4, <2>1
  <2>2. CASE p = leaf
    <3>1. pages'[leaf] = [pages[leaf] EXCEPT !.array = pages[leaf].array]
      BY <1>1, <1>3, <1>4
    <3>2. pages'[leaf].kind = pages[leaf].kind
      BY <3>1
    <3>3. pages'[leaf].array = pages[leaf].array
      BY <3>1
    <3> QED
      BY <2>2, <3>2, <3>3 DEF IsLeaf
  <2> QED
    BY <2>1, <2>2
<1>6. DOMAIN pins' = DOMAIN pins /\ \A p \in DOMAIN pins : pins'[p] = 0
  <2> DEFINE ps == PinsAfterGetValue(t)
  <2>1. DOMAIN ps = DOMAIN pins /\ \A p \in DOMAIN pins : ps[p] = 0
    BY GetValuePins
  <2>2. pins' = UnpinPage(FetchPage(ps, leaf), leaf)
    BY DEF InsertIntoLeaf, leaf
  <2> HIDE DEF ps
  <2>3. leaf \in DOMAIN ps /\ \A p \in DOMAIN ps : ps[p] \in Nat
    BY <1>1, <2>1 DEF IInv
  <2> QED
    BY <2>1, <2>2, <2>3, FetchAndUnpin
<1>7. root_page_id_' = root_page_id_
  BY DEF InsertIntoLeaf
<1> QED
  BY <1>5, <1>6, <1>7 DEF IInv, Kept, IsEmpty

\* A step that leaves the pages and the roots, and the number of pins of each page.
LEMMA PinsOnlyStep ==
    ASSUME IInv, DOMAIN pins' = DOMAIN pins, \A p \in DOMAIN pins : pins'[p] = 0, UNCHANGED <<pages, root_page_id_>>
    PROVE  IInv' /\ Kept
BY DEF IInv, Kept, IsEmpty

\* The page of a new table.
LEMMA CreateTableStep ==
    ASSUME IInv, CreateTable
    PROVE  IInv' /\ Kept
<1> DEFINE r == NewPageId
           table == OtherPage("table")
<1>1. PICK n \in Nat : DOMAIN pages = 0..(n - 1)
  BY DEF IInv
<1>2. r = n /\ r \notin DOMAIN pages /\ DOMAIN pages \cup {r} = 0..((n + 1) - 1)
  BY <1>1, NewPageIsNew
<1>3. ~IsLeaf(table)
  BY DEF IsLeaf, OtherPage
<1>4. pages' = Extended(pages, r, table) /\ pins' = UnpinPage(NewPage(pins, r), r) /\ root_page_id_' = root_page_id_
  BY DEF CreateTable
<1> HIDE DEF r, table
<1>5. DOMAIN pages' = DOMAIN pages \cup {r} /\ pages'[r] = table /\ \A p \in DOMAIN pages : pages'[p] = pages[p]
  BY <1>2, <1>4 DEF Extended
<1>6. DOMAIN pins' = DOMAIN pages' /\ \A p \in DOMAIN pins' : pins'[p] = 0
  <2>1. DOMAIN pins' = DOMAIN pins \cup {r} /\ pins'[r] = 0 /\ \A p \in DOMAIN pins \ {r} : pins'[p] = pins[p]
    BY <1>4, NewAndUnpin, Zenon
  <2> QED
    BY <1>5, <2>1 DEF IInv
<1>7. \E m \in Nat : DOMAIN pages' = 0..(m - 1)
  BY <1>2, <1>5
<1> QED
  BY <1>3, <1>4, <1>5, <1>6, <1>7 DEF IInv, Kept, IsEmpty

\* Every step keeps the invariant, and every tree its entry.
LEMMA StepInv == IInv /\ [Next]_vars => IInv' /\ Kept
<1> SUFFICES ASSUME IInv, [Next]_vars PROVE IInv' /\ Kept
  OBVIOUS
<1>1. CASE Insert
  <2>1. PICK t \in Trees, key \in Keys, rid \in Rids :
           IF Refused(t, key) THEN pins' = PinsAfterGetValue(t) /\ UNCHANGED <<pages, root_page_id_, headerVars>>
           ELSE IF IsEmpty(t) THEN StartTree(t, key, rid)
           ELSE InsertIntoLeaf(t, key, rid)
    BY <1>1 DEF Insert
  <2>2. CASE Refused(t, key)
    BY <2>1, <2>2, GetValuePins, PinsOnlyStep
  <2>3. CASE ~Refused(t, key) /\ IsEmpty(t)
    BY <2>1, <2>3, StartTreeStep
  <2>4. CASE ~Refused(t, key) /\ ~IsEmpty(t)
    BY <2>1, <2>4, InsertIntoLeafStep
  <2> QED
    BY <2>2, <2>3, <2>4
<1>2. CASE ScanKey
  BY <1>2, GetValuePins, PinsOnlyStep DEF ScanKey
<1>3. CASE DeleteEntry
  BY <1>3, PinsOnlyStep DEF DeleteEntry, IInv
<1>4. CASE CreateTable
  BY <1>4, CreateTableStep
<1>5. CASE OtherRecords
  BY <1>5, PinsOnlyStep DEF OtherRecords, treeVars, IInv
<1>6. CASE UNCHANGED vars
  BY <1>6, PinsOnlyStep DEF vars, treeVars, IInv
<1> QED
  BY <1>1, <1>2, <1>3, <1>4, <1>5, <1>6 DEF Next

\* The invariant holds in every state.
LEMMA InvHolds == Spec => []IInv
BY InitInv, StepInv, PTL DEF Spec

-----------------------------------------------------------------------------
(* The trees and the header page.                                          *)

\* The directory has the root of a tree that is not empty, and nothing of one that is.
Named(d, t, root) ==
    IF root = INVALID_PAGE_ID THEN index_name_[t] \notin DOMAIN d
    ELSE index_name_[t] \in DOMAIN d /\ d[index_name_[t]] = root
RootsNamed == HeaderInv /\ \A t \in Trees : Named(Recorded(page), t, root_page_id_[t])

\* To the header page, a step is a call of one name or nothing: a tree records its root when it
\* gets its first entry.
LEMMA HeaderSteps ==
    ASSUME [Next]_vars
    PROVE  \/ \E t \in Trees, r \in RootIds :
                 /\ IsEmpty(t) /\ r = NewPageId /\ HeaderInsert(index_name_[t], r)
                 /\ root_page_id_' = [root_page_id_ EXCEPT ![t] = r]
           \/ \E n \in Names \ IndexNames : HeaderCall(n) /\ UNCHANGED root_page_id_
           \/ UNCHANGED <<headerVars, root_page_id_>>
<1>1. CASE Insert
  <2>1. PICK t \in Trees, key \in Keys, rid \in Rids :
           IF Refused(t, key) THEN pins' = PinsAfterGetValue(t) /\ UNCHANGED <<pages, root_page_id_, headerVars>>
           ELSE IF IsEmpty(t) THEN StartTree(t, key, rid)
           ELSE InsertIntoLeaf(t, key, rid)
    BY <1>1 DEF Insert
  <2>2. CASE ~Refused(t, key) /\ IsEmpty(t)
    BY <2>1, <2>2 DEF StartTree, UpdateRootPageId
  <2>3. CASE Refused(t, key) \/ ~IsEmpty(t)
    BY <2>1, <2>3 DEF InsertIntoLeaf
  <2> QED
    BY <2>2, <2>3
<1>2. CASE ScanKey \/ DeleteEntry \/ CreateTable
  BY <1>2 DEF ScanKey, DeleteEntry, CreateTable
<1>3. CASE OtherRecords
  BY <1>3 DEF OtherRecords, treeVars
<1>4. CASE UNCHANGED vars
  BY <1>4 DEF vars, treeVars
<1> QED
  BY <1>1, <1>2, <1>3, <1>4 DEF Next

\* So the header page of the trees behaves as a header page.
LEMMA TreesUseHeader == Spec => HeaderSpec
<1>1. Init => HeaderInit
  BY DEF Init
<1>2. [Next]_vars => [HeaderNext]_headerVars
  <2> SUFFICES ASSUME [Next]_vars PROVE HeaderNext \/ UNCHANGED headerVars
    OBVIOUS
  <2>1. \A t \in Trees : index_name_[t] \in Names
    BY TreesAssumption DEF index_name_
  <2> QED
    BY <2>1, HeaderSteps DEF HeaderNext, HeaderCall
<1> QED
  BY <1>1, <1>2, PTL DEF Spec, HeaderSpec

\* What a call of another name does to the directory, it does not do to this one.
LEMMA OthersKept ==
    ASSUME HeaderInv, NEW n \in Names, HeaderCall(n), NEW m, m # n
    PROVE  /\ m \in DOMAIN Recorded(page') <=> m \in DOMAIN Recorded(page)
           /\ m \in DOMAIN Recorded(page) => Recorded(page')[m] = Recorded(page)[m]
<1>0. page \in Pages /\ Distinct(page)
  BY DEF HeaderInv, HeaderTypeOK, NamesDistinct
<1>1. CASE HeaderDelete(n)
  <2>1. Recorded(page') = [k \in DOMAIN Recorded(page) \ {n} |-> Recorded(page)[k]]
    BY <1>0, <1>1, Deleted, SMTT(30) DEF HeaderDelete
  <2> QED
    BY <2>1
<1>2. CASE \E r \in RootIds : HeaderInsert(n, r)
  <2>1. PICK r \in RootIds : HeaderInsert(n, r)
    BY <1>2
  <2>2. Recorded(page') = [k \in DOMAIN Recorded(page) \cup {n} |->
                             IF k \in DOMAIN Recorded(page) THEN Recorded(page)[k] ELSE r]
    BY <1>0, <2>1, Inserted, ZenonT(30) DEF HeaderInsert
  <2> QED
    BY <2>2
<1>3. CASE \E r \in RootIds : HeaderUpdate(n, r)
  <2>1. PICK r \in RootIds : HeaderUpdate(n, r)
    BY <1>3
  <2>2. Recorded(page') = [k \in DOMAIN Recorded(page) |-> IF k = n THEN r ELSE Recorded(page)[k]]
    BY <1>0, <2>1, Updated DEF HeaderUpdate
  <2> QED
    BY <2>2
<1> QED
  BY <1>1, <1>2, <1>3 DEF HeaderCall

\* Every step keeps the roots recorded.
LEMMA RootsStep == IInv /\ RootsNamed /\ [Next]_vars => RootsNamed'
<1> SUFFICES ASSUME IInv, RootsNamed, [Next]_vars PROVE RootsNamed'
  OBVIOUS
<1>0. /\ HeaderInv /\ DOMAIN root_page_id_ = Trees
      /\ \A t \in Trees : index_name_[t] \in Names /\ \A u \in Trees : index_name_[t] = index_name_[u] => t = u
  BY TreesAssumption DEF RootsNamed, IInv, index_name_
<1>1. CASE \E t \in Trees, r \in RootIds :
             /\ IsEmpty(t) /\ r = NewPageId /\ HeaderInsert(index_name_[t], r)
             /\ root_page_id_' = [root_page_id_ EXCEPT ![t] = r]
  <2>1. PICK t \in Trees, r \in RootIds :
             /\ IsEmpty(t) /\ r = NewPageId /\ HeaderInsert(index_name_[t], r)
             /\ root_page_id_' = [root_page_id_ EXCEPT ![t] = r]
    BY <1>1, Zenon
  <2>2. HeaderCall(index_name_[t])
    BY <2>1 DEF HeaderCall
  <2>3. HeaderInv'
    BY <1>0, <2>2, HeaderStepInv DEF HeaderNext
  <2>4. r # INVALID_PAGE_ID
    <3>1. PICK n \in Nat : DOMAIN pages = 0..(n - 1)
      BY DEF IInv
    <3> QED
      BY <2>1, <3>1, NewPageIsNew DEF INVALID_PAGE_ID
  <2>5. Recorded(page') = [k \in DOMAIN Recorded(page) \cup {index_name_[t]} |->
                             IF k \in DOMAIN Recorded(page) THEN Recorded(page)[k] ELSE r]
    <3>1. PICK n \in Names : n = index_name_[t]
      BY <1>0
    <3>2. page \in Pages /\ Distinct(page)
      BY <1>0 DEF HeaderInv, HeaderTypeOK, NamesDistinct
    <3>3. page' = InsertRecord(page, n, r)
      BY <2>1, <3>1 DEF HeaderInsert
    <3>4. Recorded(InsertRecord(page, n, r)) =
            [k \in DOMAIN Recorded(page) \cup {n} |-> IF k \in DOMAIN Recorded(page) THEN Recorded(page)[k] ELSE r]
      BY <3>2, <2>1, Inserted, ZenonT(30)
    <3> QED
      BY <3>1, <3>3, <3>4
  <2>6. index_name_[t] \notin DOMAIN Recorded(page)
    BY <2>1 DEF RootsNamed, Named, IsEmpty
  <2>7. Named(Recorded(page'), t, root_page_id_'[t])
    BY <1>0, <2>1, <2>4, <2>5, <2>6 DEF Named
  <2>8. ASSUME NEW u \in Trees, u # t PROVE Named(Recorded(page'), u, root_page_id_'[u])
    <3>1. index_name_[u] # index_name_[t] /\ root_page_id_'[u] = root_page_id_[u]
      BY <1>0, <2>1, <2>8
    <3>2. Named(Recorded(page), u, root_page_id_[u])
      BY DEF RootsNamed
    <3> QED
      BY <3>1, <3>2, <2>5 DEF Named
  <2> QED
    BY <2>3, <2>7, <2>8 DEF RootsNamed
<1>2. CASE \E n \in Names \ IndexNames : HeaderCall(n) /\ UNCHANGED root_page_id_
  <2>1. PICK n \in Names \ IndexNames : HeaderCall(n) /\ UNCHANGED root_page_id_
    BY <1>2
  <2>2. HeaderInv'
    BY <1>0, <2>1, HeaderStepInv DEF HeaderNext
  <2>3. ASSUME NEW u \in Trees PROVE Named(Recorded(page'), u, root_page_id_'[u])
    <3>1. index_name_[u] # n /\ Named(Recorded(page), u, root_page_id_[u])
      BY <2>1 DEF RootsNamed, IndexNames
    <3>2. /\ index_name_[u] \in DOMAIN Recorded(page') <=> index_name_[u] \in DOMAIN Recorded(page)
          /\ index_name_[u] \in DOMAIN Recorded(page) =>
                Recorded(page')[index_name_[u]] = Recorded(page)[index_name_[u]]
      BY <1>0, <2>1, <3>1, OthersKept
    <3> QED
      BY <2>1, <3>1, <3>2 DEF Named
  <2> QED
    BY <2>2, <2>3 DEF RootsNamed
<1>3. CASE UNCHANGED <<headerVars, root_page_id_>>
  BY <1>3 DEF headerVars, RootsNamed, HeaderInv, HeaderTypeOK, NamesDistinct
<1> QED
  BY <1>1, <1>2, <1>3, HeaderSteps

-----------------------------------------------------------------------------
(* The theorems.                                                           *)

\* No leaf reaches leaf_max_size_, whatever it is: Insert's call of Split is never reached,
\* which is why the model does without it.  It is no promise of the tree, whose tests want
\* leaves to fill and to be split.
NeverFull == \A p \in DOMAIN pages : IsLeaf(pages[p]) => Len(pages[p].array) < leaf_max_size_
LEMMA NoLeafFills == Spec => []NeverFull
<1>1. IInv => NeverFull
  <2> SUFFICES ASSUME IInv, NEW p \in DOMAIN pages, IsLeaf(pages[p])
               PROVE  Len(pages[p].array) < leaf_max_size_
    BY DEF NeverFull
  <2>1. Len(pages[p].array) = 1
    BY DEF IInv, Single
  <2>2. 1 < leaf_max_size_
    BY LeafMaxSizeAssumption
  <2> QED
    BY <2>1, <2>2
<1> QED
  BY <1>1, InvHolds, PTL

\* Every call of a tree unpins what it has fetched or made, whichever way it returns.
THEOREM PinsAreReturned == Spec => []PinsReturned
<1>1. IInv => PinsReturned
  BY DEF IInv, PinsReturned
<1> QED
  BY <1>1, InvHolds, PTL

\* No call but Remove takes an entry out of a tree or changes it: a later Insert is refused, or
\* finds its key in the leaf and changes nothing.
THEOREM EntriesAreKept == Spec => EntriesStay
<1>1. IInv /\ [Next]_vars =>
          [call'.op # "Remove" => \A t \in Trees : Entries(t) \subseteq Entries(t)']_vars
  <2> SUFFICES ASSUME IInv, [Next]_vars, NEW t \in Trees
               PROVE  Entries(t) \subseteq Entries(t)'
    OBVIOUS
  <2>1. Kept
    BY StepInv
  <2>2. ~IsEmpty(t) => ~IsEmpty(t)' /\ Array(t)' = Array(t)
    BY <2>1 DEF Kept, IInv, IsEmpty, Array, Findleaf
  <2> QED
    BY <2>2 DEF Entries
<1> QED
  BY <1>1, InvHolds, PTL DEF Spec, EntriesStay

\* The header page that the trees share with others implements a directory of roots: what
\* UpdateRootPageId and DeleteRecord do to it are calls of that directory, and nothing else is.
THEOREM HeaderIsADirectory == Spec => RefinesDirectory
BY TreesUseHeader, PageIsADirectory, PTL

\* The header page names the root of every tree that is not empty, however the records of
\* others come and go.
THEOREM RootsStayRecorded == Spec => []HeaderAgrees
<1>1. Init => RootsNamed
  <2> SUFFICES ASSUME Init PROVE RootsNamed
    OBVIOUS
  <2>1. HeaderInv /\ DOMAIN Recorded(page) = {}
    BY HeaderInitInv DEF Init
  <2> QED
    BY <2>1 DEF Init, RootsNamed, Named
<1>2. RootsNamed => HeaderAgrees
  <2> SUFFICES ASSUME RootsNamed, NEW t \in Trees, ~IsEmpty(t)
               PROVE  GetRootId(page, index_name_[t]) = root_page_id_[t]
    BY DEF HeaderAgrees
  <2>1. index_name_[t] \in DOMAIN Recorded(page) /\ Recorded(page)[index_name_[t]] = root_page_id_[t]
    BY DEF RootsNamed, Named, IsEmpty
  <2> QED
    BY <2>1 DEF Recorded
<1> QED
  BY <1>1, <1>2, RootsStep, InvHolds, PTL DEF Spec

=============================================================================
