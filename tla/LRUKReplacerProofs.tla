-------------------------- MODULE LRUKReplacerProofs --------------------------
(***************************************************************************)
(* For any frames, any number of them and any k, the lists, the map and    *)
(* the counters of the replacer agree, no call with the ids of a pool      *)
(* hangs, Evict takes the frame whose turn it is, and the replacer         *)
(* implements what the buffer pool relies on.  The invariant adds to       *)
(* ListsAndSizesAgree what the calls need of each other: no list holds a   *)
(* frame twice, a frame without a node is as new, and each list is in the  *)
(* order of the accesses that decide its place.                            *)
(***************************************************************************)
EXTENDS LRUKReplacer, FiniteSetTheorems, WellFoundedInduction, TLAPS

Distinct(list) == \A i, j \in DOMAIN list : list[i] = list[j] => i = j
Evictable == {f \in Listed : evictable_[f]}

Lists ==
  /\ history \in Seq(Frame) /\ lru \in Seq(Frame)
  /\ Distinct(history) /\ Distinct(lru)
  /\ InList(history) \cap InList(lru) = {}
Accesses ==
  /\ current_timestamp_ \in 0 .. MaxTimestamp
  /\ record_cnt_ \in [Frame -> 0 .. current_timestamp_]
  /\ timestamps_ \in [Frame -> Seq(1 .. current_timestamp_)]
  /\ \A f \in Frame : Len(timestamps_[f]) = IF record_cnt_[f] < k_ THEN record_cnt_[f] ELSE k_
Nodes ==
  /\ mp_ \subseteq Frame /\ evictable_ \in [Frame -> BOOLEAN]
  /\ latch_ \in {"free", "deadlocked"}
  /\ \A f \in mp_ : f <= replacer_size_
  /\ \A f \in Frame \ mp_ : record_cnt_[f] = 0 /\ evictable_[f]
  /\ \A f \in Listed : record_cnt_[f] # 0 /\ (f \in InList(lru) <=> record_cnt_[f] >= k_)
  /\ latch_ = "free" => Listed = mp_
  /\ latch_ = "deadlocked" =>
       tot_size_ = replacer_size_ /\ \E f \in Frame \ Listed : mp_ = Listed \cup {f}
Sizes ==
  /\ IsFiniteSet(Listed)
  /\ Len(history) + Len(lru) = Cardinality(Listed)
  /\ tot_size_ = Cardinality(Listed) /\ tot_size_ <= replacer_size_
  /\ curr_size_ = Cardinality(Evictable)
IInv == Lists /\ Accesses /\ Nodes /\ Sizes

(* The head of a list is its newest node: the history list goes by first   *)
(* accesses, the LRU list by latest ones.                                  *)
Newest(list, access) == \A i, j \in DOMAIN list : i < j => access[list[j]] < access[list[i]]
FirstAccesses == [f \in Frame |-> timestamps_[f][1]]
LastAccesses == [f \in Frame |-> LastAccess(f)]
Ordered == Newest(history, FirstAccesses) /\ Newest(lru, LastAccesses)

-----------------------------------------------------------------------------
(* Lists.                                                                  *)

\* A sequence over a set is one over a larger set.
LEMMA SeqWidens ==
  ASSUME NEW S, NEW T, S \subseteq T, NEW s \in Seq(S)
  PROVE  s \in Seq(T)
OBVIOUS

\* The elements of a sequence over a set are in the set.
LEMMA SeqElement ==
  ASSUME NEW S, NEW s \in Seq(S), NEW i \in 1 .. Len(s)
  PROVE  s[i] \in S
OBVIOUS

\* What RemoveFromList does to a list: the others stay, in their order.
LEMMA Unlinked ==
  ASSUME NEW S, NEW list \in Seq(S), Distinct(list), NEW f, NEW r, r = RemoveFromList(list, f)
  PROVE  /\ r \in Seq(S) /\ Distinct(r)
         /\ InList(r) = InList(list) \ {f}
         /\ Len(r) = IF f \in InList(list) THEN Len(list) - 1 ELSE Len(list)
         /\ \A i, j \in DOMAIN r : i < j =>
              \E p, q \in DOMAIN list : p < q /\ r[i] = list[p] /\ r[j] = list[q]
<1>1. CASE f \notin InList(list)
  <2>1. r = list /\ InList(list) \ {f} = InList(list)
    BY <1>1 DEF RemoveFromList
  <2>2. QED
    BY <2>1, <1>1
<1>2. CASE f \in InList(list)
  <2> DEFINE at == CHOOSE i \in DOMAIN list : list[i] = f
             n == Len(list)
  <2>1. n \in Nat /\ DOMAIN list = 1 .. n /\ \A i \in 1 .. n : list[i] \in S
    OBVIOUS
  <2>2. at \in 1 .. n /\ list[at] = f
    BY <1>2, <2>1 DEF InList
  <2>3. r = [i \in 1 .. n - 1 |-> IF i < at THEN list[i] ELSE list[i + 1]]
    BY <1>2 DEF RemoveFromList
  <2> HIDE DEF at, n
  <2>4. n - 1 \in Nat
    BY <2>1, <2>2
  <2>5. r \in Seq(S) /\ Len(r) = n - 1 /\ DOMAIN r = 1 .. n - 1
    <3>1. \A i \in 1 .. n - 1 : (IF i < at THEN list[i] ELSE list[i + 1]) \in S
      BY <2>1, <2>2
    <3>2. r \in [1 .. n - 1 -> S]
      BY <3>1, <2>3
    <3>3. QED
      BY <3>2, <2>4
  <2>6. \A i \in 1 .. n - 1 : r[i] = list[IF i < at THEN i ELSE i + 1]
    BY <2>2, <2>3
  <2>7. ASSUME NEW i \in 1 .. n - 1, NEW j \in 1 .. n - 1, i < j
        PROVE  \E p, q \in DOMAIN list : p < q /\ r[i] = list[p] /\ r[j] = list[q]
    <3> DEFINE p == IF i < at THEN i ELSE i + 1
               q == IF j < at THEN j ELSE j + 1
    <3>1. p \in 1 .. n /\ q \in 1 .. n /\ p < q
      BY <2>7, <2>1, <2>2
    <3>2. r[i] = list[p] /\ r[j] = list[q]
      BY <2>6
    <3>3. QED
      BY <3>1, <3>2, <2>1
  <2>8. Distinct(r)
    <3> SUFFICES ASSUME NEW i \in 1 .. n - 1, NEW j \in 1 .. n - 1, r[i] = r[j], i < j PROVE FALSE
      BY <2>5, <2>4 DEF Distinct
    <3>1. PICK p, q \in DOMAIN list : p < q /\ r[i] = list[p] /\ r[j] = list[q]
      BY <2>7
    <3>2. list[p] = list[q]
      BY <3>1, Zenon
    <3>3. p = q
      BY <3>2, Zenon DEF Distinct
    <3>4. QED
      BY <3>1, <3>3, <2>1
  <2>9. InList(r) = InList(list) \ {f}
    <3>1. ASSUME NEW i \in 1 .. n - 1 PROVE r[i] \in InList(list) /\ r[i] # f
      <4> DEFINE p == IF i < at THEN i ELSE i + 1
      <4>1. p \in 1 .. n /\ p # at
        BY <2>1, <2>2
      <4>2. r[i] = list[p]
        BY <2>6
      <4>3. QED
        BY <4>1, <4>2, <2>1, <2>2 DEF InList, Distinct
    <3>2. ASSUME NEW p \in 1 .. n, list[p] # f PROVE \E i \in 1 .. n - 1 : r[i] = list[p]
      <4> DEFINE i == IF p < at THEN p ELSE p - 1
      <4>1. i \in 1 .. n - 1 /\ p = IF i < at THEN i ELSE i + 1
        BY <3>2, <2>1, <2>2
      <4>2. QED
        BY <4>1, <2>6
    <3>3. DOMAIN list = 1 .. n /\ DOMAIN r = 1 .. n - 1
      BY <2>1, <2>5
    <3>4. ASSUME NEW x \in InList(r) PROVE x \in InList(list) \ {f}
      <4>1. PICK i \in 1 .. n - 1 : x = r[i]
        BY <3>3, Zenon DEF InList
      <4>2. QED
        BY <4>1, <3>1
    <3>5. ASSUME NEW x \in InList(list) \ {f} PROVE x \in InList(r)
      <4>1. PICK p \in 1 .. n : x = list[p]
        BY <3>3, Zenon DEF InList
      <4>2. PICK i \in 1 .. n - 1 : r[i] = list[p]
        BY <4>1, <3>2
      <4>3. QED
        BY <4>1, <4>2, <3>3, Zenon DEF InList
    <3>6. QED
      BY <3>4, <3>5
  <2>10. Len(r) = IF f \in InList(list) THEN Len(list) - 1 ELSE Len(list)
    BY <1>2, <2>5 DEF n
  <2>11. \A i, j \in DOMAIN r : i < j =>
           \E p, q \in DOMAIN list : p < q /\ r[i] = list[p] /\ r[j] = list[q]
    BY <2>5, <2>7
  <2>12. QED
    BY <2>5, <2>8, <2>9, <2>10, <2>11, Zenon
<1>3. QED
  BY <1>1, <1>2

\* What InsertToListHead does.
LEMMA Linked ==
  ASSUME NEW S, NEW list \in Seq(S), Distinct(list), NEW f \in S, f \notin InList(list),
         NEW r, r = InsertToListHead(list, f)
  PROVE  /\ r \in Seq(S) /\ Distinct(r)
         /\ InList(r) = InList(list) \cup {f}
         /\ Len(r) = Len(list) + 1
         /\ r[1] = f
         /\ \A i \in 2 .. Len(r) : i - 1 \in DOMAIN list /\ r[i] = list[i - 1]
<1> DEFINE n == Len(list)
<1>1. n \in Nat /\ DOMAIN list = 1 .. n /\ \A i \in 1 .. n : list[i] \in S
  OBVIOUS
<1>2. r \in Seq(S) /\ Len(r) = n + 1 /\ DOMAIN r = 1 .. n + 1 /\ r[1] = f
  BY <1>1 DEF InsertToListHead
<1>3. \A i \in 2 .. n + 1 : i - 1 \in 1 .. n /\ r[i] = list[i - 1]
  BY <1>1 DEF InsertToListHead
<1> HIDE DEF n
<1>4. \A i \in 1 .. n : i + 1 \in 2 .. n + 1 /\ r[i + 1] = list[i]
  BY <1>1, <1>3
<1>5. Distinct(r)
  <2> SUFFICES ASSUME NEW i \in 1 .. n + 1, NEW j \in 1 .. n + 1, r[i] = r[j], i < j PROVE FALSE
    BY <1>1, <1>2 DEF Distinct
  <2>1. j \in 2 .. n + 1
    BY <1>1
  <2>2. j - 1 \in 1 .. n /\ r[j] = list[j - 1]
    BY <2>1, <1>3
  <2>3. CASE i = 1
    BY <2>2, <2>3, <1>2, <1>1 DEF InList
  <2>4. CASE i # 1
    <3>1. i - 1 \in 1 .. n /\ r[i] = list[i - 1]
      BY <2>4, <1>1, <1>3
    <3>2. i - 1 = j - 1
      BY <3>1, <2>2, <1>1, Zenon DEF Distinct
    <3>3. QED
      BY <3>2
  <2>5. QED
    BY <2>3, <2>4
<1>6. InList(r) = InList(list) \cup {f}
  <2>1. ASSUME NEW i \in 1 .. n + 1 PROVE r[i] \in InList(list) \cup {f}
    <3>1. CASE i = 1
      BY <3>1, <1>2
    <3>2. CASE i # 1
      <4>1. i - 1 \in 1 .. n /\ r[i] = list[i - 1]
        BY <3>2, <1>1, <1>3
      <4>2. QED
        BY <4>1, <1>1 DEF InList
    <3>3. QED
      BY <3>1, <3>2
  <2>2. 1 \in 1 .. n + 1
    BY <1>1
  <2>3. \A i \in 1 .. n : i + 1 \in 1 .. n + 1
    BY <1>1
  <2>4. DOMAIN list = 1 .. n /\ DOMAIN r = 1 .. n + 1 /\ r[1] = f
    BY <1>1, <1>2
  <2>5. ASSUME NEW x \in InList(r) PROVE x \in InList(list) \cup {f}
    <3>1. PICK i \in 1 .. n + 1 : x = r[i]
      BY <2>4, Zenon DEF InList
    <3>2. QED
      BY <3>1, <2>1
  <2>6. ASSUME NEW x \in InList(list) PROVE x \in InList(r)
    <3>1. PICK i \in 1 .. n : x = list[i]
      BY <2>4, Zenon DEF InList
    <3>2. PICK j \in 1 .. n + 1 : r[j] = list[i]
      BY <2>3, <1>4
    <3>3. QED
      BY <3>1, <3>2, <2>4, Zenon DEF InList
  <2>7. f \in InList(r)
    BY <2>2, <2>4, Zenon DEF InList
  <2>8. QED
    BY <2>5, <2>6, <2>7
<1>7. QED
  BY <1>1, <1>2, <1>3, <1>5, <1>6 DEF n

-----------------------------------------------------------------------------
(* The invariant.                                                          *)

\* The counters are natural numbers, and Size() is at most the lists' length.
LEMMA SizesAreNat ==
  ASSUME Sizes
  PROVE  /\ tot_size_ \in Nat /\ curr_size_ \in Nat /\ curr_size_ <= tot_size_
         /\ IsFiniteSet(Evictable)
         /\ curr_size_ = 0 <=> Evictable = {}
<1>1. Evictable \in SUBSET Listed
  BY DEF Evictable
<1>2. IsFiniteSet(Listed) /\ tot_size_ = Cardinality(Listed) /\ curr_size_ = Cardinality(Evictable)
  BY DEF Sizes
<1>3. IsFiniteSet(Evictable) /\ Cardinality(Evictable) <= Cardinality(Listed)
  BY <1>1, <1>2, FS_Subset
<1>4. QED
  BY <1>2, <1>3, FS_CardinalityType, FS_EmptySet

LEMMA InitInv == Init => IInv /\ Ordered
<1> SUFFICES ASSUME Init PROVE IInv /\ Ordered
  OBVIOUS
<1>1. history = <<>> /\ lru = <<>> /\ DOMAIN history = {} /\ DOMAIN lru = {}
  BY DEF Init
<1>2. Listed = {} /\ InList(lru) = {} /\ InList(history) = {}
  BY <1>1 DEF Listed, InList
<1>3. Lists
  BY <1>1, <1>2 DEF Lists, Distinct
<1>4. Accesses
  <2>1. current_timestamp_ \in 0 .. MaxTimestamp /\ k_ \in Nat \ {0}
    BY SizeAssumption DEF Init
  <2>2. record_cnt_ \in [Frame -> 0 .. current_timestamp_] /\ timestamps_ \in [Frame -> Seq(1 .. current_timestamp_)]
    BY DEF Init
  <2>3. \A f \in Frame : Len(timestamps_[f]) = 0 /\ record_cnt_[f] = 0
    BY DEF Init
  <2>4. QED
    BY <2>1, <2>2, <2>3 DEF Accesses
<1>5. Nodes
  BY <1>2, Zenon DEF Init, Nodes
<1>6. Sizes
  <2>1. Evictable = {}
    BY <1>2 DEF Evictable
  <2>2. Len(history) + Len(lru) = 0 /\ tot_size_ = 0 /\ curr_size_ = 0 /\ tot_size_ <= replacer_size_
    BY SizeAssumption DEF Init
  <2>3. QED
    BY <1>2, <2>1, <2>2, FS_EmptySet DEF Sizes
<1>7. Ordered
  BY <1>1 DEF Ordered, Newest
<1>8. QED
  BY <1>3, <1>4, <1>5, <1>6, <1>7 DEF IInv

\* What Erase does to the lists.
LEMMA ErasedFromLists ==
  ASSUME Lists, NEW f \in Listed, Erase(f)
  PROVE  /\ Lists'
         /\ InList(history') = InList(history) \ {f} /\ InList(lru') = InList(lru) \ {f}
         /\ Listed' = Listed \ {f}
         /\ Len(history') + Len(lru') = Len(history) + Len(lru) - 1
<1>1. /\ history \in Seq(Frame) /\ lru \in Seq(Frame)
      /\ Distinct(history) /\ Distinct(lru)
      /\ InList(history) \cap InList(lru) = {}
  BY DEF Lists
<1>2. history' = RemoveFromList(history, f) /\ lru' = RemoveFromList(lru, f)
  BY DEF Erase
<1>3. /\ history' \in Seq(Frame) /\ Distinct(history')
      /\ InList(history') = InList(history) \ {f}
      /\ Len(history') = IF f \in InList(history) THEN Len(history) - 1 ELSE Len(history)
  BY <1>1, <1>2, Unlinked
<1>4. /\ lru' \in Seq(Frame) /\ Distinct(lru')
      /\ InList(lru') = InList(lru) \ {f}
      /\ Len(lru') = IF f \in InList(lru) THEN Len(lru) - 1 ELSE Len(lru)
  BY <1>1, <1>2, Unlinked
<1>5. (f \in InList(history) /\ f \notin InList(lru)) \/ (f \notin InList(history) /\ f \in InList(lru))
  BY <1>1 DEF Listed
<1>6. Len(history) \in Nat /\ Len(lru) \in Nat
  BY <1>1
<1>7. Len(history') + Len(lru') = Len(history) + Len(lru) - 1
  <2>1. \/ Len(history') = Len(history) - 1 /\ Len(lru') = Len(lru)
        \/ Len(history') = Len(history) /\ Len(lru') = Len(lru) - 1
    BY <1>3, <1>4, <1>5, Zenon
  <2>2. QED
    BY <2>1, <1>6
<1>8. InList(history') \cap InList(lru') = {}
  BY <1>1, <1>3, <1>4
<1>9. Listed' = Listed \ {f}
  BY <1>3, <1>4 DEF Listed
<1>10. Lists'
  BY <1>3, <1>4, <1>8 DEF Lists
<1>11. QED
  BY <1>3, <1>4, <1>7, <1>9, <1>10, Zenon

\* Giving up an evictable frame keeps the invariant.
LEMMA EraseKeepsInv ==
  ASSUME IInv, latch_ = "free", NEW f \in Listed, evictable_[f], Erase(f)
  PROVE  IInv'
<1> USE DEF IInv
<1>1. /\ Lists'
      /\ InList(history') = InList(history) \ {f} /\ InList(lru') = InList(lru) \ {f}
      /\ Listed' = Listed \ {f}
      /\ Len(history') + Len(lru') = Len(history) + Len(lru) - 1
  BY ErasedFromLists
<1>2. f \in Frame /\ mp_ = Listed /\ mp_' = mp_ \ {f} /\ latch_' = "free"
  BY DEF Nodes, Erase
<1>3. Accesses'
  <2>1. record_cnt_' = [record_cnt_ EXCEPT ![f] = 0] /\ timestamps_' = [timestamps_ EXCEPT ![f] = <<>>]
        /\ current_timestamp_' = current_timestamp_
    BY DEF Erase
  <2>2. record_cnt_' \in [Frame -> 0 .. current_timestamp_]
    BY <1>2, <2>1 DEF Accesses
  <2>3. timestamps_' \in [Frame -> Seq(1 .. current_timestamp_)]
    BY <1>2, <2>1 DEF Accesses
  <2>4. \A g \in Frame : Len(timestamps_'[g]) = IF record_cnt_'[g] < k_ THEN record_cnt_'[g] ELSE k_
    BY <2>1, SizeAssumption DEF Accesses
  <2>5. QED
    BY <2>1, <2>2, <2>3, <2>4 DEF Accesses
<1>4. evictable_' = [evictable_ EXCEPT ![f] = TRUE] /\ evictable_' \in [Frame -> BOOLEAN]
  BY <1>2 DEF Nodes, Erase
<1>5. Nodes'
  <2>1. record_cnt_' = [record_cnt_ EXCEPT ![f] = 0] /\ record_cnt_ \in [Frame -> 0 .. current_timestamp_]
    BY DEF Erase, Accesses
  <2>2. \A g \in Frame \ {f} : record_cnt_'[g] = record_cnt_[g] /\ evictable_'[g] = evictable_[g]
    BY <1>4, <2>1 DEF Nodes
  <2>3. record_cnt_'[f] = 0 /\ evictable_'[f]
    BY <1>2, <1>4, <2>1 DEF Nodes
  <2>4. mp_' \subseteq Frame /\ \A g \in mp_' : g <= replacer_size_
    BY <1>2 DEF Nodes
  <2>5. \A g \in Frame \ mp_' : record_cnt_'[g] = 0 /\ evictable_'[g]
    BY <1>2, <2>2, <2>3 DEF Nodes
  <2>6. \A g \in Listed' : record_cnt_'[g] # 0 /\ (g \in InList(lru') <=> record_cnt_'[g] >= k_)
    BY <1>1, <1>2, <2>2 DEF Nodes
  <2>7. QED
    BY <1>1, <1>2, <1>4, <2>4, <2>5, <2>6 DEF Nodes
<1>6. Sizes'
  <2>1. Evictable' = Evictable \ {f} /\ f \in Evictable
    BY <1>1, <1>2, <1>4 DEF Evictable, Nodes
  <2>2. IsFiniteSet(Listed) /\ IsFiniteSet(Evictable) /\ tot_size_ \in Nat /\ curr_size_ \in Nat
    BY SizesAreNat DEF Sizes
  <2>3. IsFiniteSet(Listed') /\ Cardinality(Listed') = Cardinality(Listed) - 1
    BY <1>1, <2>2, FS_RemoveElement
  <2>4. Cardinality(Evictable') = Cardinality(Evictable) - 1
    BY <2>1, <2>2, FS_RemoveElement, Zenon
  <2>5. tot_size_' = tot_size_ - 1 /\ curr_size_' = curr_size_ - 1
    BY DEF Erase
  <2>6. QED
    BY <1>1, <2>2, <2>3, <2>4, <2>5, SizeAssumption, SMTT(30) DEF Sizes
<1>7. QED
  BY <1>1, <1>3, <1>5, <1>6

\* What RecordAccess does to the lists.
LEMMA RecordedInLists ==
  ASSUME IInv, latch_ = "free", NEW f \in Frame, RecordAccess(f)
  PROVE  /\ Lists'
         /\ InList(lru') = IF record_cnt_[f] + 1 >= k_ THEN InList(lru) \cup {f} ELSE InList(lru)
         /\ Listed' = Listed \cup {f}
         /\ Len(history') + Len(lru') =
              IF f \in Listed THEN Len(history) + Len(lru) ELSE Len(history) + Len(lru) + 1
<1> DEFINE listed == IF record_cnt_[f] = 0 THEN InsertToListHead(history, f) ELSE history
           kth == record_cnt_[f] + 1 >= k_
<1>1. /\ history \in Seq(Frame) /\ lru \in Seq(Frame)
      /\ Distinct(history) /\ Distinct(lru)
      /\ InList(history) \cap InList(lru) = {}
      /\ Len(history) \in Nat /\ Len(lru) \in Nat
  BY DEF IInv, Lists
<1>2. f \in Listed <=> record_cnt_[f] # 0
  BY DEF IInv, Nodes
<1>3. /\ listed \in Seq(Frame) /\ Distinct(listed) /\ InList(listed) \cap InList(lru) \subseteq {f}
      /\ InList(listed) \cup InList(lru) = Listed \cup {f}
      /\ f \in InList(listed) \/ f \in InList(lru)
      /\ ~(f \in InList(listed) /\ f \in InList(lru))
      /\ Len(listed) = IF f \in Listed THEN Len(history) ELSE Len(history) + 1
  <2>1. CASE f \in Listed
    BY <2>1, <1>1, <1>2 DEF Listed
  <2>2. CASE f \notin Listed
    <3>1. listed = InsertToListHead(history, f) /\ f \notin InList(history) /\ f \notin InList(lru)
      BY <2>2, <1>2 DEF Listed
    <3> HIDE DEF listed
    <3>2. /\ listed \in Seq(Frame) /\ Distinct(listed)
          /\ InList(listed) = InList(history) \cup {f}
          /\ Len(listed) = Len(history) + 1
      BY <3>1, <1>1, Linked
    <3>3. QED
      BY <3>1, <3>2, <2>2, <1>1 DEF Listed
  <2>3. QED
    BY <2>1, <2>2
<1>4. Len(listed) \in Nat
  BY <1>3
<1>5. /\ kth => history' = RemoveFromList(listed, f) /\ lru' = InsertToListHead(RemoveFromList(lru, f), f)
      /\ ~kth => history' = listed /\ lru' = lru
  BY DEF RecordAccess
<1> HIDE DEF listed
<1>6. CASE kth
  <2> DEFINE rest == RemoveFromList(lru, f)
  <2>1. /\ history' \in Seq(Frame) /\ Distinct(history')
        /\ InList(history') = InList(listed) \ {f}
        /\ Len(history') = IF f \in InList(listed) THEN Len(listed) - 1 ELSE Len(listed)
    BY <1>6, <1>5, <1>3, Unlinked, SMTT(30)
  <2>2. /\ rest \in Seq(Frame) /\ Distinct(rest)
        /\ InList(rest) = InList(lru) \ {f}
        /\ Len(rest) = IF f \in InList(lru) THEN Len(lru) - 1 ELSE Len(lru)
    BY <1>1, Unlinked
  <2>3. lru' = InsertToListHead(rest, f)
    BY <1>6, <1>5
  <2> HIDE DEF rest
  <2>4. /\ lru' \in Seq(Frame) /\ Distinct(lru')
        /\ InList(lru') = InList(rest) \cup {f}
        /\ Len(lru') = Len(rest) + 1
    BY <2>2, <2>3, Linked
  <2>5. InList(lru') = InList(lru) \cup {f}
    BY <2>2, <2>4
  <2>6. Listed' = Listed \cup {f}
    BY <2>1, <2>5, <1>3 DEF Listed
  <2>7. Lists'
    BY <2>1, <2>4, <2>5, <1>3 DEF Lists
  <2>8. Len(history') + Len(lru') = Len(listed) + Len(lru)
    <3>1. \/ Len(history') = Len(listed) - 1 /\ Len(rest) = Len(lru)
          \/ Len(history') = Len(listed) /\ Len(rest) = Len(lru) - 1
      BY <1>3, <2>1, <2>2, Zenon
    <3>2. QED
      BY <3>1, <2>4, <1>1, <1>4, SMTT(30)
  <2>9. QED
    BY <2>5, <2>6, <2>7, <2>8, <1>3, <1>1, <1>6
<1>7. CASE ~kth
  <2>1. f \notin InList(lru)
    BY <1>7, <1>2, SizeAssumption DEF IInv, Nodes, Accesses, Listed
  <2>2. history' = listed /\ lru' = lru
    BY <1>7, <1>5
  <2>3. Lists' /\ Listed' = Listed \cup {f}
    BY <2>1, <2>2, <1>1, <1>3 DEF Lists, Listed
  <2>4. QED
    BY <2>2, <2>3, <1>1, <1>3, <1>7
<1>8. QED
  BY <1>6, <1>7

\* The timestamps of a frame after an access: the first one stays as long as there are
\* fewer than k_, and the new one is the last.
LEMMA StampedFrame ==
  ASSUME Accesses, NEW f \in Frame
  PROVE  /\ Stamped(f) \in Seq(1 .. current_timestamp_ + 1)
         /\ Len(Stamped(f)) = IF record_cnt_[f] + 1 < k_ THEN record_cnt_[f] + 1 ELSE k_
         /\ Stamped(f)[Len(Stamped(f))] = current_timestamp_ + 1
         /\ record_cnt_[f] = 0 => Stamped(f)[1] = current_timestamp_ + 1
         /\ record_cnt_[f] # 0 /\ record_cnt_[f] < k_ => Stamped(f)[1] = timestamps_[f][1]
<1> DEFINE t == timestamps_[f]
           now == current_timestamp_ + 1
           c == record_cnt_[f]
           kept == IF Len(t) = k_ THEN Tail(t) ELSE t
<1>1. k_ \in Nat \ {0} /\ c \in Nat /\ current_timestamp_ \in Nat /\ now \in 1 .. now
  BY SizeAssumption DEF Accesses
<1>2. t \in Seq(1 .. now) /\ Len(t) = IF c < k_ THEN c ELSE k_
  <2>1. t \in Seq(1 .. current_timestamp_) /\ 1 .. current_timestamp_ \subseteq 1 .. now
    BY <1>1 DEF Accesses
  <2>2. QED
    BY <2>1 DEF Accesses
<1>3. Stamped(f) = Append(kept, now)
  BY DEF Stamped
<1> HIDE DEF t, c, now
<1>4. kept \in Seq(1 .. now) /\ Len(kept) = IF c < k_ THEN c ELSE k_ - 1
  <2>1. CASE c < k_
    BY <2>1, <1>1, <1>2
  <2>2. CASE ~(c < k_)
    <3>1. Len(t) = k_ /\ kept = Tail(t) /\ t # <<>>
      BY <2>2, <1>1, <1>2
    <3>2. Tail(t) \in Seq(1 .. now) /\ Len(Tail(t)) = Len(t) - 1
      BY <3>1, <1>2
    <3>3. QED
      BY <3>1, <3>2, <2>2
  <2>3. QED
    BY <2>1, <2>2
<1>5. c # 0 /\ c < k_ => kept[1] = t[1] /\ Len(kept) >= 1
  BY <1>1, <1>2
<1>6. c = 0 => kept = <<>>
  BY <1>1, <1>4
<1> HIDE DEF kept
<1>7. Stamped(f) \in Seq(1 .. now) /\ Len(Stamped(f)) = Len(kept) + 1 /\ Stamped(f)[Len(kept) + 1] = now
  BY <1>1, <1>3, <1>4
<1>8. c # 0 /\ c < k_ => Stamped(f)[1] = kept[1]
  BY <1>3, <1>4, <1>5
<1>9. Len(Stamped(f)) = IF c + 1 < k_ THEN c + 1 ELSE k_
  BY <1>1, <1>4, <1>7
<1>10. c = 0 => Stamped(f)[1] = now
  BY <1>1, <1>4, <1>7
<1>11. QED
  BY <1>5, <1>7, <1>8, <1>9, <1>10 DEF t, c, now

\* An access keeps the invariant.
LEMMA RecordKeepsInv ==
  ASSUME IInv, NEW f \in Frame, RecordAccess(f)
  PROVE  IInv'
<1> USE DEF IInv
<1>1. latch_ = "free" /\ latch_' = "free" /\ mp_ = Listed /\ mp_' = mp_ \cup {f} /\ evictable_' = evictable_
  BY DEF RecordAccess, Nodes
<1>2. /\ Lists'
      /\ InList(lru') = IF record_cnt_[f] + 1 >= k_ THEN InList(lru) \cup {f} ELSE InList(lru)
      /\ Listed' = Listed \cup {f}
      /\ Len(history') + Len(lru') =
           IF f \in Listed THEN Len(history) + Len(lru) ELSE Len(history) + Len(lru) + 1
  BY <1>1, RecordedInLists
<1>3. /\ record_cnt_' = [record_cnt_ EXCEPT ![f] = @ + 1]
      /\ timestamps_' = [timestamps_ EXCEPT ![f] = Stamped(f)]
      /\ current_timestamp_' = current_timestamp_ + 1 /\ current_timestamp_ < MaxTimestamp
  BY DEF RecordAccess
<1>4. /\ record_cnt_ \in [Frame -> 0 .. current_timestamp_] /\ current_timestamp_ \in Nat
      /\ timestamps_ \in [Frame -> Seq(1 .. current_timestamp_)]
      /\ k_ \in Nat \ {0} /\ MaxTimestamp \in Nat
  BY SizeAssumption DEF Accesses
<1>5. /\ \A g \in Frame \ {f} : record_cnt_'[g] = record_cnt_[g] /\ timestamps_'[g] = timestamps_[g]
      /\ record_cnt_'[f] = record_cnt_[f] + 1 /\ timestamps_'[f] = Stamped(f)
  BY <1>3, <1>4
<1>6. Accesses'
  <2>1. record_cnt_' \in [Frame -> 0 .. current_timestamp_ + 1]
    BY <1>3, <1>4
  <2>2. /\ Stamped(f) \in Seq(1 .. current_timestamp_ + 1)
        /\ Len(Stamped(f)) = IF record_cnt_[f] + 1 < k_ THEN record_cnt_[f] + 1 ELSE k_
    BY StampedFrame
  <2>3. timestamps_' \in [Frame -> Seq(1 .. current_timestamp_ + 1)]
    <3>1. 1 .. current_timestamp_ \subseteq 1 .. current_timestamp_ + 1
      BY <1>4
    <3>2. ASSUME NEW g \in Frame PROVE timestamps_'[g] \in Seq(1 .. current_timestamp_ + 1)
      <4>1. CASE g = f
        BY <4>1, <1>5, <2>2
      <4>2. CASE g # f
        <5>1. timestamps_[g] \in Seq(1 .. current_timestamp_)
          BY <1>4
        <5>2. timestamps_[g] \in Seq(1 .. current_timestamp_ + 1)
          BY <5>1, <3>1, SeqWidens, Zenon
        <5>3. QED
          BY <4>2, <5>2, <1>5
      <4>3. QED
        BY <4>1, <4>2
    <3>3. QED
      BY <1>3, <1>4, <3>2
  <2>4. \A g \in Frame : Len(timestamps_'[g]) = IF record_cnt_'[g] < k_ THEN record_cnt_'[g] ELSE k_
    <3> TAKE g \in Frame
    <3>1. CASE g = f
      BY <3>1, <1>5, <2>2
    <3>2. CASE g # f
      BY <3>2, <1>5 DEF Accesses
    <3>3. QED
      BY <3>1, <3>2
  <2>5. current_timestamp_' \in 0 .. MaxTimestamp
    BY <1>3, <1>4
  <2>6. QED
    BY <1>3, <2>1, <2>3, <2>4, <2>5 DEF Accesses
<1>7. Nodes'
  <2>1. mp_' \subseteq Frame /\ \A g \in mp_' : g <= replacer_size_
    BY <1>1 DEF Nodes, RecordAccess
  <2>2. \A g \in Frame \ mp_' : record_cnt_'[g] = 0 /\ evictable_'[g]
    BY <1>1, <1>5 DEF Nodes
  <2>3. \A g \in Listed' : record_cnt_'[g] # 0 /\ (g \in InList(lru') <=> record_cnt_'[g] >= k_)
    <3> TAKE g \in Listed'
    <3>1. CASE g = f
      <4>1. record_cnt_[f] \in Nat /\ record_cnt_'[f] = record_cnt_[f] + 1
        BY <1>4, <1>5
      <4>2. CASE record_cnt_[f] + 1 >= k_
        BY <4>1, <4>2, <3>1, <1>2
      <4>3. CASE ~(record_cnt_[f] + 1 >= k_)
        <5>1. f \notin InList(lru)
          BY <4>1, <4>3, <1>4 DEF Nodes, Listed
        <5>2. QED
          BY <4>1, <4>3, <5>1, <3>1, <1>2
      <4>4. QED
        BY <4>2, <4>3
    <3>2. CASE g # f
      <4>1. g \in Listed /\ g \in Frame /\ record_cnt_'[g] = record_cnt_[g]
        BY <3>2, <1>1, <1>2, <1>5 DEF Nodes
      <4>2. g \in InList(lru') <=> g \in InList(lru)
        BY <3>2, <1>2
      <4>3. QED
        BY <4>1, <4>2 DEF Nodes
    <3>3. QED
      BY <3>1, <3>2
  <2>4. QED
    BY <1>1, <1>2, <2>1, <2>2, <2>3 DEF Nodes
<1>8. Sizes'
  <2>1. IsFiniteSet(Listed) /\ IsFiniteSet(Evictable) /\ tot_size_ \in Nat /\ curr_size_ \in Nat
        /\ Len(history) + Len(lru) = Cardinality(Listed)
        /\ tot_size_ = Cardinality(Listed) /\ tot_size_ <= replacer_size_
        /\ curr_size_ = Cardinality(Evictable) /\ replacer_size_ \in Nat
    BY SizesAreNat, SizeAssumption DEF Sizes
  <2>2. CASE f \in Listed
    <3>1. record_cnt_[f] # 0
      BY <2>2 DEF Nodes
    <3>2. Listed' = Listed /\ Evictable' = Evictable
      BY <2>2, <1>1, <1>2 DEF Evictable
    <3>3. tot_size_' = tot_size_ /\ curr_size_' = curr_size_
      BY <3>1 DEF RecordAccess
    <3>4. QED
      BY <2>1, <2>2, <3>2, <3>3, <1>2 DEF Sizes
  <2>3. CASE f \notin Listed
    <3>1. record_cnt_[f] = 0 /\ evictable_[f]
      BY <2>3, <1>1 DEF Nodes
    <3>2. Evictable' = Evictable \cup {f} /\ f \notin Evictable
      BY <2>3, <3>1, <1>1, <1>2 DEF Evictable
    <3>3. tot_size_' = tot_size_ + 1 /\ curr_size_' = curr_size_ + 1 /\ tot_size_ # replacer_size_
      BY <2>3, <3>1, <1>1 DEF RecordAccess
    <3>4. IsFiniteSet(Listed') /\ Cardinality(Listed') = Cardinality(Listed) + 1
      BY <2>1, <2>3, <1>2, FS_AddElement
    <3>5. Cardinality(Evictable') = Cardinality(Evictable) + 1
      BY <2>1, <3>2, FS_AddElement, Zenon
    <3>6. QED
      BY <2>1, <2>3, <3>3, <3>4, <3>5, <1>2, SMTT(30) DEF Sizes
  <2>4. QED
    BY <2>2, <2>3
<1>9. QED
  BY <1>2, <1>6, <1>7, <1>8

\* So does a change of evictability.
LEMMA SetEvictableKeepsInv ==
  ASSUME IInv, NEW f \in Frame, NEW e \in BOOLEAN, SetEvictable(f, e)
  PROVE  IInv'
<1> USE DEF IInv
<1>1. /\ latch_ = "free" /\ mp_ = Listed
      /\ UNCHANGED <<current_timestamp_, tot_size_, mp_, history, lru, timestamps_, record_cnt_, latch_>>
  BY DEF SetEvictable, Nodes
<1>2. Listed' = Listed
  BY <1>1 DEF Listed
<1>3. Lists' /\ Accesses'
  BY <1>1 DEF Lists, Accesses
<1>4. evictable_ \in [Frame -> BOOLEAN]
  BY DEF Nodes
<1>5. evictable_' = [evictable_ EXCEPT ![f] = IF f \in mp_ THEN e ELSE @]
  BY DEF SetEvictable
<1>6. evictable_' \in [Frame -> BOOLEAN] /\ \A g \in Frame : g # f \/ f \notin mp_ => evictable_'[g] = evictable_[g]
  BY <1>4, <1>5
<1>7. f \in mp_ => evictable_'[f] = e
  BY <1>4, <1>5
<1>8. Nodes'
  BY <1>1, <1>2, <1>6 DEF Nodes
<1>9. Sizes'
  <2>1. IsFiniteSet(Evictable) /\ curr_size_ \in Nat /\ curr_size_ = Cardinality(Evictable)
    BY SizesAreNat DEF Sizes
  <2>2. Evictable \subseteq Frame /\ Listed \subseteq Frame
    BY <1>1 DEF Evictable, Nodes
  <2>3. curr_size_' = Cardinality(Evictable')
    <3>1. CASE f \notin mp_ \/ evictable_[f] = e
      <4>1. curr_size_' = curr_size_
        BY <3>1 DEF SetEvictable
      <4>2. \A g \in Listed : evictable_'[g] = evictable_[g]
        BY <3>1, <1>6, <1>7, <2>2
      <4>3. Evictable' = Evictable
        BY <4>2, <1>2 DEF Evictable
      <4>4. QED
        BY <4>1, <4>3, <2>1
    <3>2. CASE f \in mp_ /\ evictable_[f] # e /\ e
      <4>1. curr_size_' = curr_size_ + 1
        BY <3>2, Zenon DEF SetEvictable
      <4>2. Evictable' = Evictable \cup {f} /\ f \notin Evictable
        BY <3>2, <1>1, <1>2, <1>4, <1>6, <1>7, <2>2, Zenon DEF Evictable
      <4>3. QED
        BY <4>1, <4>2, <2>1, FS_AddElement, SMTT(30)
    <3>3. CASE f \in mp_ /\ evictable_[f] # e /\ ~e
      <4>1. curr_size_' = curr_size_ - 1
        BY <3>3 DEF SetEvictable
      <4>2. Evictable' = Evictable \ {f} /\ f \in Evictable
        BY <3>3, <1>1, <1>2, <1>4, <1>6, <1>7, <2>2 DEF Evictable
      <4>3. QED
        BY <4>1, <4>2, <2>1, FS_RemoveElement, SMTT(30)
    <3>4. QED
      BY <3>1, <3>2, <3>3
  <2>4. QED
    BY <1>1, <1>2, <2>3 DEF Sizes
<1>10. QED
  BY <1>3, <1>8, <1>9

\* And so does the access that hangs: it leaves a node that is in no list behind.
LEMMA HangKeepsInv ==
  ASSUME IInv, NEW f \in Frame, RecordAccessWhenFull(f)
  PROVE  IInv'
<1> USE DEF IInv
<1>1. /\ latch_ = "free" /\ mp_ = Listed /\ f \notin Listed /\ record_cnt_[f] = 0
      /\ latch_' = "deadlocked" /\ mp_' = Listed \cup {f} /\ f <= replacer_size_ /\ tot_size_ = replacer_size_
      /\ UNCHANGED <<curr_size_, tot_size_, history, lru, evictable_>>
  BY DEF RecordAccessWhenFull, Nodes
<1>2. Listed' = Listed /\ Evictable' = Evictable
  BY <1>1 DEF Listed, Evictable
<1>3. Lists' /\ Sizes'
  BY <1>1, <1>2, Zenon DEF Lists, Sizes
<1>4. /\ record_cnt_' = [record_cnt_ EXCEPT ![f] = 1]
      /\ timestamps_' = [timestamps_ EXCEPT ![f] = Stamped(f)]
      /\ current_timestamp_' = current_timestamp_ + 1 /\ current_timestamp_ < MaxTimestamp
  BY DEF RecordAccessWhenFull
<1>5. /\ record_cnt_ \in [Frame -> 0 .. current_timestamp_] /\ current_timestamp_ \in Nat
      /\ timestamps_ \in [Frame -> Seq(1 .. current_timestamp_)]
      /\ k_ \in Nat \ {0} /\ MaxTimestamp \in Nat
  BY SizeAssumption DEF Accesses
<1>6. /\ \A g \in Frame \ {f} : record_cnt_'[g] = record_cnt_[g] /\ timestamps_'[g] = timestamps_[g]
      /\ record_cnt_'[f] = 1 /\ timestamps_'[f] = Stamped(f)
  BY <1>4, <1>5
<1>7. Accesses'
  <2>1. record_cnt_' \in [Frame -> 0 .. current_timestamp_ + 1]
    BY <1>4, <1>5
  <2>2. Stamped(f) \in Seq(1 .. current_timestamp_ + 1) /\ Len(Stamped(f)) = IF 1 < k_ THEN 1 ELSE k_
    <3>1. /\ Stamped(f) \in Seq(1 .. current_timestamp_ + 1)
          /\ Len(Stamped(f)) = IF record_cnt_[f] + 1 < k_ THEN record_cnt_[f] + 1 ELSE k_
      BY StampedFrame
    <3>2. record_cnt_[f] + 1 = 1
      BY <1>1
    <3>3. QED
      BY <3>1, <3>2
  <2>3. ASSUME NEW g \in Frame
        PROVE  /\ timestamps_'[g] \in Seq(1 .. current_timestamp_ + 1)
               /\ Len(timestamps_'[g]) = IF record_cnt_'[g] < k_ THEN record_cnt_'[g] ELSE k_
    <3>1. CASE g = f
      BY <3>1, <1>6, <2>2
    <3>2. CASE g # f
      <4>1. timestamps_[g] \in Seq(1 .. current_timestamp_) /\ 1 .. current_timestamp_ \subseteq 1 .. current_timestamp_ + 1
        BY <1>5
      <4>2. timestamps_[g] \in Seq(1 .. current_timestamp_ + 1)
        BY <4>1, SeqWidens, Zenon
      <4>3. Len(timestamps_[g]) = IF record_cnt_[g] < k_ THEN record_cnt_[g] ELSE k_
        BY DEF Accesses
      <4>4. QED
        BY <3>2, <4>2, <4>3, <1>6
    <3>3. QED
      BY <3>1, <3>2
  <2>4. timestamps_' \in [Frame -> Seq(1 .. current_timestamp_ + 1)]
    BY <1>4, <1>5, <2>3
  <2>5. current_timestamp_' \in 0 .. MaxTimestamp
    BY <1>4, <1>5
  <2>6. QED
    BY <1>4, <2>1, <2>3, <2>4, <2>5 DEF Accesses
<1>8. Nodes'
  <2>1. mp_' \subseteq Frame /\ \A g \in mp_' : g <= replacer_size_
    BY <1>1 DEF Nodes
  <2>2. \A g \in Frame \ mp_' : record_cnt_'[g] = 0 /\ evictable_'[g]
    BY <1>1, <1>6 DEF Nodes
  <2>3. \A g \in Listed' : record_cnt_'[g] # 0 /\ (g \in InList(lru') <=> record_cnt_'[g] >= k_)
    BY <1>1, <1>2, <1>6 DEF Nodes
  <2>4. tot_size_' = replacer_size_ /\ f \in Frame \ Listed' /\ mp_' = Listed' \cup {f}
    BY <1>1, <1>2
  <2>5. evictable_' \in [Frame -> BOOLEAN]
    BY <1>1 DEF Nodes
  <2>6. QED
    BY <1>1, <2>1, <2>2, <2>3, <2>4, <2>5 DEF Nodes
<1>9. QED
  BY <1>3, <1>7, <1>8

\* A non-empty set of places of a list has a last one.
LEMMA LastPlace ==
  ASSUME NEW n \in Nat, NEW P \in SUBSET (1 .. n), P # {}
  PROVE  \E i \in P : \A j \in P : j <= i
<1> DEFINE D == {n - i : i \in P}
           R == OpToRel(<, Nat)
<1>1. D \subseteq Nat /\ D # {}
  <2>1. \A i \in P : n - i \in Nat
    OBVIOUS
  <2>2. QED
    BY <2>1, Zenon
<1>2. PICK d \in D : \A e \in D : ~(<<e, d>> \in R)
  <2> HIDE DEF D
  <2>1. QED
    BY <1>1, NatLessThanWellFounded, WFMin
<1>3. PICK i \in P : d = n - i
  BY <1>2
<1>4. ASSUME NEW j \in P PROVE j <= i
  <2>1. n - j \in D /\ n - j \in Nat /\ d \in Nat
    BY <1>1
  <2>2. ~(n - j < d)
    BY <2>1, <1>2, Zenon DEF OpToRel
  <2>3. QED
    BY <2>2, <1>3
<1>5. QED
  BY <1>4

\* The walk over a list that has an evictable frame stops at one, and the evictable
\* frames it has not come to stand before it.
LEMMA WalkStops ==
  ASSUME NEW S, NEW list \in Seq(S), Evictables(list) # {}
  PROVE  /\ Victim(list) \in InList(list) /\ evictable_[Victim(list)]
         /\ \E i \in DOMAIN list : /\ list[i] = Victim(list)
                                   /\ \A j \in DOMAIN list : evictable_[list[j]] => j <= i
<1>1. Len(list) \in Nat /\ DOMAIN list = 1 .. Len(list)
  OBVIOUS
<1>2. Evictables(list) \in SUBSET (1 .. Len(list))
  BY <1>1 DEF Evictables
<1>3. \E i \in Evictables(list) : \A j \in Evictables(list) : j <= i
  BY <1>1, <1>2, LastPlace, Zenon
<1> DEFINE last == CHOOSE i \in Evictables(list) : \A j \in Evictables(list) : j <= i
<1>4. last \in Evictables(list) /\ \A j \in Evictables(list) : j <= last
  BY <1>3
<1>5. Victim(list) = list[last]
  BY DEF Victim
<1> HIDE DEF last
<1>6. last \in DOMAIN list /\ evictable_[list[last]]
  BY <1>4 DEF Evictables
<1>7. \A j \in DOMAIN list : evictable_[list[j]] => j <= last
  BY <1>4 DEF Evictables
<1>8. QED
  BY <1>5, <1>6, <1>7 DEF InList

\* The victim is in a list and evictable.
LEMMA VictimListed ==
  ASSUME IInv, NEW list, list = history \/ list = lru, Evictables(list) # {}
  PROVE  Victim(list) \in Listed /\ evictable_[Victim(list)]
<1>1. list \in Seq(Frame)
  BY DEF IInv, Lists
<1>2. Victim(list) \in InList(list) /\ evictable_[Victim(list)]
  BY <1>1, WalkStops
<1>3. QED
  BY <1>2 DEF Listed

LEMMA UnchangedInv ==
  ASSUME IInv, UNCHANGED <<current_timestamp_, curr_size_, tot_size_, mp_, history, lru,
                           timestamps_, record_cnt_, evictable_, latch_>>
  PROVE  IInv'
<1>1. Listed' = Listed /\ Evictable' = Evictable
  BY DEF Listed, Evictable
<1>2. Lists' /\ Accesses' /\ Sizes'
  BY <1>1 DEF IInv, Lists, Accesses, Sizes
<1>3. Nodes'
  BY <1>1 DEF IInv, Nodes
<1>4. QED
  BY <1>2, <1>3 DEF IInv

LEMMA NextKeepsInv == IInv /\ [Next]_vars => IInv'
<1> SUFFICES ASSUME IInv, [Next]_vars PROVE IInv'
  OBVIOUS
<1>1. ASSUME NEW f \in Frame, RecordAccess(f) PROVE IInv'
  BY <1>1, RecordKeepsInv
<1>2. ASSUME NEW f \in Frame, RecordAccessWhenFull(f) PROVE IInv'
  BY <1>2, HangKeepsInv
<1>3. ASSUME NEW f \in Frame, RecordAccessThrows(f) PROVE IInv'
  BY <1>3, UnchangedInv DEF RecordAccessThrows
<1>4. ASSUME NEW f \in Frame, NEW e \in BOOLEAN, SetEvictable(f, e) PROVE IInv'
  BY <1>4, SetEvictableKeepsInv
<1>5. ASSUME NEW f \in Frame, Remove(f) PROVE IInv'
  <2>1. latch_ = "free" /\ f \in Listed /\ evictable_[f] /\ Erase(f)
    BY <1>5 DEF Remove, IInv, Nodes
  <2>2. QED
    BY <2>1, EraseKeepsInv
<1>6. ASSUME NEW f \in Frame, RemoveNothing(f) PROVE IInv'
  BY <1>6, UnchangedInv DEF RemoveNothing
<1>7. ASSUME Evict PROVE IInv'
  <2>1. PICK list : /\ list = history \/ list = lru
                    /\ Evictables(list) # {} /\ Erase(Victim(list)) /\ latch_ = "free"
    BY <1>7 DEF Evict
  <2>2. Victim(list) \in Listed /\ evictable_[Victim(list)]
    BY <2>1, VictimListed
  <2>3. QED
    BY <2>1, <2>2, EraseKeepsInv
<1>8. ASSUME EvictNone PROVE IInv'
  BY <1>8, UnchangedInv DEF EvictNone
<1>9. ASSUME UNCHANGED vars PROVE IInv'
  BY <1>9, UnchangedInv DEF vars
<1>10. QED
  BY <1>1, <1>2, <1>3, <1>4, <1>5, <1>6, <1>7, <1>8, <1>9 DEF Next

LEMMA InvAlways == Spec => []IInv
<1>1. Init => IInv
  BY InitInv
<1>2. QED
  BY <1>1, NextKeepsInv, PTL DEF Spec

-----------------------------------------------------------------------------
(* What follows from it.                                                   *)

LEMMA InvAgrees == IInv => ListsAndSizesAgree
<1> SUFFICES ASSUME IInv PROVE ListsAndSizesAgree
  OBVIOUS
<1> USE DEF IInv
<1>1. Listed \subseteq mp_
  BY DEF Nodes
<1>2. InList(history) \subseteq mp_ /\ InList(lru) \subseteq mp_
  BY <1>1 DEF Listed
<1>3. history \in Seq(mp_) /\ lru \in Seq(mp_)
  <2>1. history \in Seq(Frame) /\ lru \in Seq(Frame)
    BY DEF Lists
  <2>2. \A i \in DOMAIN history : history[i] \in mp_
    BY <1>2 DEF InList
  <2>3. \A i \in DOMAIN lru : lru[i] \in mp_
    BY <1>2 DEF InList
  <2>4. QED
    BY <2>1, <2>2, <2>3
<1>4. curr_size_ \in 0 .. replacer_size_ /\ tot_size_ \in 0 .. replacer_size_
  BY SizesAreNat, SizeAssumption DEF Sizes
<1>5. ASSUME NEW f \in Frame
      PROVE  /\ Len(timestamps_[f]) <= k_
             /\ \A i \in DOMAIN timestamps_[f] : timestamps_[f][i] \in 1 .. current_timestamp_
  <2>1. /\ timestamps_[f] \in Seq(1 .. current_timestamp_) /\ record_cnt_[f] \in 0 .. current_timestamp_
        /\ Len(timestamps_[f]) = IF record_cnt_[f] < k_ THEN record_cnt_[f] ELSE k_
        /\ k_ \in Nat /\ current_timestamp_ \in Nat
    BY SizeAssumption DEF Accesses
  <2>2. QED
    BY <2>1
<1>6. record_cnt_ \in [Frame -> 0 .. MaxTimestamp] /\ current_timestamp_ \in 0 .. MaxTimestamp
  <2>1. current_timestamp_ \in 0 .. MaxTimestamp /\ record_cnt_ \in [Frame -> 0 .. current_timestamp_]
    BY DEF Accesses
  <2>2. 0 .. current_timestamp_ \subseteq 0 .. MaxTimestamp
    BY <2>1, SizeAssumption
  <2>3. QED
    BY <2>1, <2>2
<1>7. TypeOK
  BY <1>3, <1>4, <1>5, <1>6 DEF TypeOK, Nodes
<1>8. QED
  BY <1>7 DEF ListsAndSizesAgree, Nodes, Sizes, Evictable

\* Theorem.  For any frames, any number of them and any k, whatever calls are made:
\* each frame with a node is in exactly one list, the one that its number of accesses
\* calls for; Size() is the number of evictable frames and tot_size_ the length of both
\* lists (LRUKReplacer::RecordAccess, SetEvictable, Evict, Remove).
THEOREM ListsAndSizesStayAgreed == Spec => []ListsAndSizesAgree
BY InvAlways, InvAgrees, PTL

LEMMA InvNeverStuck == IInv => NeverStuckWithinSize
<1> SUFFICES ASSUME IInv, latch_ = "deadlocked", \A f \in mp_ : ~(f >= replacer_size_) PROVE FALSE
  BY DEF NeverStuckWithinSize
<1>1. PICK f \in Frame \ Listed : mp_ = Listed \cup {f}
  BY DEF IInv, Nodes
<1>2. IsFiniteSet(Listed) /\ Cardinality(Listed) = replacer_size_ /\ replacer_size_ \in Nat \ {0}
  BY SizeAssumption DEF IInv, Nodes, Sizes
<1>3. Cardinality(mp_) = replacer_size_ + 1
  BY <1>1, <1>2, FS_AddElement
<1>4. mp_ \in SUBSET (0 .. replacer_size_ - 1)
  BY <1>2, FrameAssumption DEF IInv, Nodes
<1>5. IsFiniteSet(0 .. replacer_size_ - 1) /\ Cardinality(0 .. replacer_size_ - 1) = replacer_size_
  <2>1. 0 \in Int /\ replacer_size_ - 1 \in Int /\ ~(0 > replacer_size_ - 1)
    BY <1>2
  <2>2. Cardinality(0 .. replacer_size_ - 1) = replacer_size_ - 1 - 0 + 1
    BY <2>1, FS_Interval
  <2>3. QED
    BY <2>1, <2>2, <1>2, FS_Interval
<1>6. Cardinality(mp_) <= replacer_size_
  BY <1>4, <1>5, FS_Subset, ZenonT(30)
<1>7. QED
  BY <1>2, <1>3, <1>6

\* Theorem.  No call hangs on its own latch as long as the callers use the ids of the
\* frames the replacer was built for, as a buffer pool does: RecordAccess then never
\* finds the lists full, and does not call Evict under the latch.
THEOREM PoolNeverHangs == Spec => []NeverStuckWithinSize
BY InvAlways, InvNeverStuck, PTL

-----------------------------------------------------------------------------
(* The replacer that the buffer pool relies on.                            *)

\* Theorem.  The LRU-K replacer implements the replacer that the buffer pool is written
\* over: every call has the effect that Replacer gives it on the tracked and on the
\* evictable frames.
THEOREM ImplementsReplacer == Spec => RefinesReplacer
<1>1. Init => Abstract!Init
  <2> SUFFICES ASSUME Init PROVE Abstract!Init
    OBVIOUS
  <2>1. Listed = {}
    BY DEF Init, Listed, InList
  <2>2. QED
    BY <2>1 DEF Init, Abstract!Init, Abstract!Empty, NoCall, Abstract!NoCall
<1>2. IInv /\ IInv' /\ [Next]_vars => [Abstract!Next]_(Abstract!vars)
  <2> SUFFICES ASSUME IInv, IInv', [Next]_vars PROVE [Abstract!Next]_(Abstract!vars)
    OBVIOUS
  <2>0. /\ Listed \subseteq Frame /\ (latch_ = "free" => mp_ = Listed)
        /\ evictable_ \in [Frame -> BOOLEAN] /\ \A f \in Frame \ mp_ : evictable_[f]
    BY DEF IInv, Nodes
  <2>1. ASSUME NEW f \in Frame, RecordAccess(f) PROVE Abstract!DoRecordAccess(f)
    <3>1. latch_ = "free" /\ f <= replacer_size_ /\ evictable_' = evictable_ /\ ret' = [op |-> "RecordAccess"]
      BY <2>1 DEF RecordAccess
    <3>2. Listed' = Listed \cup {f}
      BY <2>1, <3>1, RecordedInLists
    <3>3. {g \in Listed' : evictable_'[g]} =
            IF f \in Listed THEN {g \in Listed : evictable_[g]} ELSE {g \in Listed : evictable_[g]} \cup {f}
      BY <2>0, <3>1, <3>2
    <3>4. QED
      BY <3>1, <3>2, <3>3, SMTT(30) DEF Abstract!DoRecordAccess, Abstract!RecordAccess
  <2>2. ASSUME NEW f \in Frame, RecordAccessWhenFull(f) PROVE UNCHANGED Abstract!vars
    BY <2>2 DEF RecordAccessWhenFull, Abstract!vars, Listed
  <2>3. ASSUME NEW f \in Frame, RecordAccessThrows(f) PROVE Abstract!DoRecordAccessThrows(f)
    BY <2>3 DEF RecordAccessThrows, Abstract!DoRecordAccessThrows, Listed
  <2>4. ASSUME NEW f \in Frame, NEW e \in BOOLEAN, SetEvictable(f, e)
        PROVE  Abstract!DoSetEvictable(f, e) \/ Abstract!DoSetEvictableIgnored(f)
    <3>1. /\ mp_ = Listed /\ ret' = [op |-> "SetEvictable"]
          /\ evictable_' = [evictable_ EXCEPT ![f] = IF f \in mp_ THEN e ELSE @]
      BY <2>4, <2>0 DEF SetEvictable
    <3>2. Listed' = Listed
      BY <2>4 DEF SetEvictable, Listed
    <3>3. {g \in Listed' : evictable_'[g]} =
            IF f \in Listed /\ e THEN {g \in Listed : evictable_[g]} \cup {f}
            ELSE {g \in Listed : evictable_[g]} \ {f}
      BY <2>0, <3>1, <3>2
    <3> DEFINE E == {g \in Listed : evictable_[g]}
    <3>4. ASSUME NEW A, NEW B
          PROVE  Abstract!SetEvictable([tracked |-> A, evictable |-> B], f, e)
                   = [tracked |-> A, evictable |-> IF f \in A /\ e THEN B \cup {f} ELSE B \ {f}]
      BY DEF Abstract!SetEvictable
    <3>5. Abstract!SetEvictable([tracked |-> Listed, evictable |-> E], f, e)
            = [tracked |-> Listed', evictable |-> {g \in Listed' : evictable_'[g]}]
      BY <3>2, <3>3, <3>4, Zenon
    <3>6. CASE f \in Listed
      BY <3>1, <3>5, <3>6, Zenon DEF Abstract!DoSetEvictable
    <3>7. CASE f \notin Listed
      <4>1. {g \in Listed' : evictable_'[g]} = {g \in Listed : evictable_[g]}
        BY <3>3, <3>7
      <4>2. QED
        BY <3>1, <3>2, <3>7, <4>1, Zenon DEF Abstract!DoSetEvictableIgnored
    <3>8. QED
      BY <3>6, <3>7
  <2>5. ASSUME NEW f \in Listed, Erase(f), evictable_[f]
        PROVE  /\ Listed' = Listed \ {f}
               /\ {g \in Listed' : evictable_'[g]} = {g \in Listed : evictable_[g]} \ {f}
    <3>1. Listed' = Listed \ {f}
      BY <2>5, ErasedFromLists DEF IInv
    <3>2. evictable_' = [evictable_ EXCEPT ![f] = TRUE]
      BY <2>5 DEF Erase
    <3>3. QED
      BY <2>0, <3>1, <3>2
  <2>6. ASSUME NEW f \in Frame, Remove(f) PROVE Abstract!DoRemove(f)
    <3>1. f \in Listed /\ evictable_[f] /\ Erase(f) /\ ret' = [op |-> "Remove"]
      BY <2>6, <2>0 DEF Remove
    <3>2. QED
      BY <3>1, <2>5 DEF Abstract!DoRemove, Abstract!Forget
  <2>7. ASSUME NEW f \in Frame, RemoveNothing(f) PROVE Abstract!DoRemove(f)
    <3>1. /\ mp_ = Listed /\ (f \in mp_ => ~evictable_[f])
          /\ ret' = [op |-> IF f \in mp_ THEN "RemoveThrows" ELSE "Remove"]
      BY <2>7, <2>0 DEF RemoveNothing
    <3>2. Listed' = Listed /\ evictable_' = evictable_
      BY <2>7 DEF RemoveNothing, Listed
    <3>3. CASE f \in Listed
      BY <3>1, <3>2, <3>3 DEF Abstract!DoRemove
    <3>4. CASE f \notin Listed
      BY <3>1, <3>2, <3>4, Zenon DEF Abstract!DoRemove, Abstract!Forget
    <3>5. QED
      BY <3>3, <3>4
  <2>8. ASSUME Evict PROVE Abstract!DoEvict
    <3>1. PICK list : /\ list = history \/ list = lru
                      /\ Evictables(list) # {} /\ Erase(Victim(list))
                      /\ ret' = [op |-> "Evict", victim |-> Victim(list)]
      BY <2>8 DEF Evict
    <3>2. Victim(list) \in Listed /\ evictable_[Victim(list)]
      BY <3>1, VictimListed
    <3>3. PICK f : f = Victim(list)
      OBVIOUS
    <3>4. QED
      BY <3>1, <3>2, <3>3, <2>5, Zenon DEF Abstract!DoEvict, Abstract!Forget
  <2>9. ASSUME EvictNone PROVE Abstract!DoEvict
    <3>1. Listed' = Listed /\ evictable_' = evictable_ /\ ret' = [op |-> "EvictNone"]
      BY <2>9 DEF EvictNone, Listed
    <3>2. {g \in Listed : evictable_[g]} = {}
      <4>1. CASE curr_size_ = 0
        BY <4>1, SizesAreNat DEF IInv, Evictable
      <4>2. CASE Evictables(history) = {} /\ Evictables(lru) = {}
        BY <4>2 DEF Evictables, Listed, InList
      <4>3. QED
        BY <4>1, <4>2, <2>9 DEF EvictNone
    <3>3. QED
      BY <3>1, <3>2 DEF Abstract!DoEvict
  <2>10. ASSUME UNCHANGED vars PROVE UNCHANGED Abstract!vars
    BY <2>10 DEF vars, Abstract!vars, Listed
  <2>11. QED
    BY <2>1, <2>2, <2>3, <2>4, <2>6, <2>7, <2>8, <2>9, <2>10 DEF Next, Abstract!Next
<1>3. QED
  BY <1>1, <1>2, InvAlways, PTL DEF Spec, RefinesReplacer, Abstract!Spec

-----------------------------------------------------------------------------
(* The order of the lists.                                                 *)

\* Unlinking a frame and changing the accesses of no other keeps the order of a list.
LEMMA UnlinkedNewest ==
  ASSUME NEW list \in Seq(Frame), Distinct(list), NEW f, NEW r, r = RemoveFromList(list, f),
         NEW access, NEW later, Newest(list, access), \A g \in InList(list) \ {f} : later[g] = access[g]
  PROVE  Newest(r, later)
<1> SUFFICES ASSUME NEW i \in DOMAIN r, NEW j \in DOMAIN r, i < j PROVE later[r[j]] < later[r[i]]
  BY DEF Newest
<1>1. InList(r) = InList(list) \ {f}
  BY Unlinked, SMTT(30)
<1>2. r[i] \in InList(list) \ {f} /\ r[j] \in InList(list) \ {f}
  BY <1>1, Zenon DEF InList
<1>3. PICK p, q \in DOMAIN list : p < q /\ r[i] = list[p] /\ r[j] = list[q]
  BY Unlinked
<1>4. access[list[q]] < access[list[p]]
  BY <1>3 DEF Newest
<1>5. QED
  BY <1>2, <1>3, <1>4

\* So does linking one whose access is later than all of them.
LEMMA LinkedNewest ==
  ASSUME NEW list \in Seq(Frame), Distinct(list), NEW f \in Frame, f \notin InList(list),
         NEW r, r = InsertToListHead(list, f),
         NEW access, Newest(list, access), \A g \in InList(list) : access[g] < access[f]
  PROVE  Newest(r, access)
<1> SUFFICES ASSUME NEW i \in DOMAIN r, NEW j \in DOMAIN r, i < j PROVE access[r[j]] < access[r[i]]
  BY DEF Newest
<1>1. /\ r \in Seq(Frame) /\ r[1] = f
      /\ \A n \in 2 .. Len(r) : n - 1 \in DOMAIN list /\ r[n] = list[n - 1]
  BY Linked
<1>2. DOMAIN r = 1 .. Len(r) /\ Len(r) \in Nat /\ DOMAIN list = 1 .. Len(list) /\ Len(list) \in Nat
  BY <1>1
<1>3. j \in 2 .. Len(r)
  BY <1>2
<1>4. j - 1 \in DOMAIN list /\ r[j] = list[j - 1]
  BY <1>1, <1>3
<1>5. CASE i = 1
  <2>1. r[j] \in InList(list) /\ r[i] = f
    BY <1>1, <1>4, <1>5 DEF InList
  <2>2. QED
    BY <2>1
<1>6. CASE i # 1
  <2>1. i \in 2 .. Len(r)
    BY <1>2, <1>6
  <2>2. i - 1 \in DOMAIN list /\ r[i] = list[i - 1] /\ i - 1 < j - 1
    BY <1>1, <1>2, <2>1
  <2>3. access[list[j - 1]] < access[list[i - 1]]
    BY <1>4, <2>2 DEF Newest
  <2>4. QED
    BY <1>4, <2>2, <2>3
<1>7. QED
  BY <1>5, <1>6

\* The first and the latest access of a frame in a list are before the next one.
LEMMA AccessesPast ==
  ASSUME IInv, NEW g \in Listed
  PROVE  /\ g \in Frame
         /\ FirstAccesses[g] = timestamps_[g][1] /\ FirstAccesses[g] \in 1 .. current_timestamp_
         /\ LastAccesses[g] = LastAccess(g) /\ LastAccesses[g] \in 1 .. current_timestamp_
<1>1. g \in Frame /\ record_cnt_[g] # 0
  BY DEF IInv, Nodes
<1>2. /\ timestamps_[g] \in Seq(1 .. current_timestamp_) /\ record_cnt_[g] \in Nat /\ k_ \in Nat \ {0}
      /\ Len(timestamps_[g]) = IF record_cnt_[g] < k_ THEN record_cnt_[g] ELSE k_
  BY <1>1, SizeAssumption DEF IInv, Accesses
<1>3. Len(timestamps_[g]) >= 1 /\ Len(timestamps_[g]) \in Nat
  BY <1>1, <1>2
<1>4. timestamps_[g][1] \in 1 .. current_timestamp_ /\ LastAccess(g) \in 1 .. current_timestamp_
  <2>1. PICK t : t = timestamps_[g]
    OBVIOUS
  <2>2. t \in Seq(1 .. current_timestamp_) /\ Len(t) >= 1 /\ Len(t) \in Nat
    BY <2>1, <1>2, <1>3
  <2>3. t[1] \in 1 .. current_timestamp_ /\ t[Len(t)] \in 1 .. current_timestamp_
    <3>1. 1 \in 1 .. Len(t) /\ Len(t) \in 1 .. Len(t)
      BY <2>2
    <3>2. QED
      BY <2>2, <3>1, SeqElement, Zenon
  <2>4. QED
    BY <2>1, <2>3 DEF LastAccess
<1>5. QED
  BY <1>1, <1>4 DEF FirstAccesses, LastAccesses

LEMMA NextKeepsOrder == IInv /\ IInv' /\ Ordered /\ [Next]_vars => Ordered'
<1> SUFFICES ASSUME IInv, IInv', Ordered, [Next]_vars PROVE Ordered'
  OBVIOUS
<1>1. /\ history \in Seq(Frame) /\ lru \in Seq(Frame) /\ Distinct(history) /\ Distinct(lru)
      /\ InList(history) \cap InList(lru) = {} /\ Newest(history, FirstAccesses) /\ Newest(lru, LastAccesses)
  BY DEF IInv, Lists, Ordered
<1>2. InList(history) \subseteq Frame /\ InList(lru) \subseteq Frame
  BY <1>1 DEF InList
<1>3. ASSUME NEW f, Erase(f) PROVE Ordered'
  <2>1. history' = RemoveFromList(history, f) /\ lru' = RemoveFromList(lru, f)
        /\ timestamps_' = [timestamps_ EXCEPT ![f] = <<>>]
    BY <1>3 DEF Erase
  <2>2. \A g \in Frame \ {f} : timestamps_'[g] = timestamps_[g]
    BY <2>1 DEF IInv, Accesses
  <2>3. \A g \in Frame \ {f} : FirstAccesses'[g] = FirstAccesses[g] /\ LastAccesses'[g] = LastAccesses[g]
    BY <2>2 DEF FirstAccesses, LastAccesses, LastAccess
  <2>4. Newest(history', FirstAccesses')
    BY <1>1, <1>2, <2>1, <2>3, UnlinkedNewest
  <2>5. Newest(lru', LastAccesses')
    BY <1>1, <1>2, <2>1, <2>3, UnlinkedNewest
  <2>6. QED
    BY <2>4, <2>5 DEF Ordered
<1>4. ASSUME UNCHANGED <<history, lru>>, \A g \in Listed : timestamps_'[g] = timestamps_[g] PROVE Ordered'
  <2>1. \A g \in Listed : FirstAccesses'[g] = FirstAccesses[g] /\ LastAccesses'[g] = LastAccesses[g]
    BY <1>2, <1>4 DEF FirstAccesses, LastAccesses, LastAccess, Listed
  <2>2. Newest(history', FirstAccesses')
    BY <1>1, <1>4, <2>1 DEF Newest, Listed, InList
  <2>3. Newest(lru', LastAccesses')
    BY <1>1, <1>4, <2>1 DEF Newest, Listed, InList
  <2>4. QED
    BY <2>2, <2>3 DEF Ordered
<1>5. ASSUME NEW f \in Frame, RecordAccess(f) PROVE Ordered'
  <2> DEFINE now == current_timestamp_ + 1
             listed == IF record_cnt_[f] = 0 THEN InsertToListHead(history, f) ELSE history
             kth == record_cnt_[f] + 1 >= k_
             rest == RemoveFromList(lru, f)
  <2>1. /\ latch_ = "free" /\ mp_ = Listed /\ timestamps_' = [timestamps_ EXCEPT ![f] = Stamped(f)]
        /\ kth => history' = RemoveFromList(listed, f) /\ lru' = InsertToListHead(rest, f)
        /\ ~kth => history' = listed /\ lru' = lru
    BY <1>5 DEF RecordAccess, IInv, Nodes
  <2>2. f \in Listed <=> record_cnt_[f] # 0
    BY <2>1 DEF IInv, Nodes
  <2>3. /\ \A g \in Frame \ {f} : timestamps_'[g] = timestamps_[g]
        /\ timestamps_'[f] = Stamped(f)
    BY <2>1 DEF IInv, Accesses
  <2>4. \A g \in Frame \ {f} : FirstAccesses'[g] = FirstAccesses[g] /\ LastAccesses'[g] = LastAccesses[g]
    BY <2>3 DEF FirstAccesses, LastAccesses, LastAccess
  <2>5. /\ LastAccesses'[f] = now
        /\ record_cnt_[f] = 0 => FirstAccesses'[f] = now
        /\ record_cnt_[f] # 0 /\ record_cnt_[f] < k_ => FirstAccesses'[f] = FirstAccesses[f]
    BY <2>3, StampedFrame DEF FirstAccesses, LastAccesses, LastAccess, IInv
  <2>6. \A g \in Listed : FirstAccesses[g] < now /\ LastAccesses[g] < now
    <3>1. ASSUME NEW g \in Listed PROVE FirstAccesses[g] < now /\ LastAccesses[g] < now
      <4>1. FirstAccesses[g] \in 1 .. current_timestamp_ /\ LastAccesses[g] \in 1 .. current_timestamp_
        BY AccessesPast
      <4>2. current_timestamp_ \in Nat
        BY SizeAssumption DEF IInv, Accesses
      <4>3. QED
        BY <4>1, <4>2
    <3>2. QED
      BY <3>1
  <2> HIDE DEF now
  <2>7. listed \in Seq(Frame) /\ Distinct(listed) /\ Newest(listed, FirstAccesses')
    <3>1. CASE record_cnt_[f] = 0
      <4>1. listed = InsertToListHead(history, f) /\ f \notin InList(history)
        BY <3>1, <2>2 DEF Listed
      <4>2. \A g \in InList(history) : g \in Frame /\ g # f /\ FirstAccesses'[g] = FirstAccesses[g]
        BY <4>1, <1>2, <2>4
      <4>3. Newest(history, FirstAccesses')
        BY <4>2, <1>1 DEF Newest, InList
      <4>4. \A g \in InList(history) : FirstAccesses'[g] < FirstAccesses'[f]
        BY <4>2, <2>5, <2>6, <3>1 DEF Listed
      <4> HIDE DEF listed
      <4>5. Newest(listed, FirstAccesses')
        BY <1>1, <4>1, <4>3, <4>4, LinkedNewest
      <4>6. listed \in Seq(Frame) /\ Distinct(listed)
        BY <1>1, <4>1, Linked
      <4>7. QED
        BY <4>5, <4>6
    <3>2. CASE record_cnt_[f] # 0
      <4>1. listed = history
        BY <3>2
      <4>2. ASSUME NEW g \in InList(history) PROVE FirstAccesses'[g] = FirstAccesses[g]
        <5>1. CASE g = f
          <6>1. g \in Listed /\ g \notin InList(lru)
            BY <1>1 DEF Listed
          <6>2. record_cnt_[f] < k_
            BY <6>1, <5>1, SizeAssumption DEF IInv, Nodes, Accesses
          <6>3. QED
            BY <5>1, <6>2, <3>2, <2>5
        <5>2. CASE g # f
          BY <5>2, <1>2, <2>4
        <5>3. QED
          BY <5>1, <5>2
      <4>3. Newest(history, FirstAccesses')
        BY <4>2, <1>1 DEF Newest, InList
      <4>4. QED
        BY <4>1, <4>3, <1>1
    <3>3. QED
      BY <3>1, <3>2
  <2> HIDE DEF listed
  <2>8. CASE kth
    <3>1. history' = RemoveFromList(listed, f) /\ lru' = InsertToListHead(rest, f)
      BY <2>1, <2>8
    <3>2. Newest(history', FirstAccesses')
      BY <3>1, <2>7, UnlinkedNewest
    <3>3. rest \in Seq(Frame) /\ Distinct(rest) /\ InList(rest) = InList(lru) \ {f}
      BY <1>1, Unlinked
    <3>4. Newest(rest, LastAccesses')
      BY <1>1, <1>2, <2>4, UnlinkedNewest
    <3> HIDE DEF rest
    <3>5. \A g \in InList(rest) : LastAccesses'[g] < LastAccesses'[f]
      BY <3>3, <1>2, <2>4, <2>5, <2>6 DEF Listed
    <3>6. Newest(lru', LastAccesses')
      BY <3>1, <3>3, <3>4, <3>5, LinkedNewest
    <3>7. QED
      BY <3>2, <3>6 DEF Ordered
  <2>9. CASE ~kth
    <3>1. history' = listed /\ lru' = lru
      BY <2>1, <2>9
    <3>2. f \notin InList(lru)
      BY <2>9, <2>2, SizeAssumption DEF IInv, Nodes, Accesses, Listed
    <3>3. \A g \in InList(lru) : LastAccesses'[g] = LastAccesses[g]
      BY <3>2, <1>2, <2>4
    <3>4. Newest(lru', LastAccesses')
      BY <3>1, <3>3, <1>1 DEF Newest, InList
    <3>5. QED
      BY <3>1, <3>4, <2>7 DEF Ordered
  <2>10. QED
    BY <2>8, <2>9
<1>6. ASSUME NEW f \in Frame, RecordAccessWhenFull(f) PROVE Ordered'
  <2>1. /\ f \notin Listed /\ timestamps_' = [timestamps_ EXCEPT ![f] = Stamped(f)]
        /\ UNCHANGED <<history, lru>>
    BY <1>6 DEF RecordAccessWhenFull, IInv, Nodes
  <2>2. \A g \in Listed : timestamps_'[g] = timestamps_[g]
    BY <2>1
  <2>3. QED
    BY <2>1, <2>2, <1>4
<1>7. ASSUME UNCHANGED <<history, lru, timestamps_>> PROVE Ordered'
  BY <1>4, <1>7
<1>8. ASSUME NEW f \in Frame, NEW e \in BOOLEAN, SetEvictable(f, e) PROVE Ordered'
  BY <1>7, <1>8 DEF SetEvictable
<1>9. ASSUME NEW f \in Frame, RecordAccessThrows(f) \/ RemoveNothing(f) PROVE Ordered'
  BY <1>7, <1>9 DEF RecordAccessThrows, RemoveNothing
<1>10. ASSUME NEW f \in Frame, Remove(f) PROVE Ordered'
  BY <1>3, <1>10 DEF Remove
<1>11. ASSUME Evict PROVE Ordered'
  BY <1>3, <1>11 DEF Evict
<1>12. ASSUME EvictNone \/ UNCHANGED vars PROVE Ordered'
  BY <1>7, <1>12 DEF EvictNone, vars
<1>13. QED
  BY <1>5, <1>6, <1>8, <1>9, <1>10, <1>11, <1>12 DEF Next

LEMMA OrderAlways == Spec => [](IInv /\ Ordered)
<1>1. Init => IInv /\ Ordered
  BY InitInv
<1>2. QED
  BY <1>1, NextKeepsInv, NextKeepsOrder, PTL DEF Spec

\* The frame that a walk stops at goes before the other evictable frames of its list.
LEMMA VictimGoesBefore ==
  ASSUME IInv, Ordered, NEW list, list = history \/ (list = lru /\ Evictables(history) = {}),
         Evictables(list) # {}, NEW g \in Listed \ {Victim(list)}, evictable_[g]
  PROVE  GoesBefore(Victim(list), g)
<1>1. /\ list \in Seq(Frame) /\ InList(list) \subseteq Listed
      /\ InList(history) \cap InList(lru) = {} /\ Listed = InList(history) \cup InList(lru)
  BY DEF IInv, Lists, Listed
<1>2. PICK i \in DOMAIN list : list[i] = Victim(list) /\ \A j \in DOMAIN list : evictable_[list[j]] => j <= i
  BY <1>1, WalkStops
<1>3. PICK v : v = Victim(list)
  OBVIOUS
<1>4. v \in InList(list) /\ v \in Listed
  BY <1>1, <1>2, <1>3 DEF InList
<1>5. /\ record_cnt_[v] \in Nat /\ record_cnt_[g] \in Nat /\ k_ \in Nat
      /\ (v \in InList(lru) <=> record_cnt_[v] >= k_) /\ (g \in InList(lru) <=> record_cnt_[g] >= k_)
  <2>1. v \in Frame /\ g \in Frame
    BY <1>4, AccessesPast
  <2>2. QED
    BY <2>1, <1>4, SizeAssumption DEF IInv, Nodes, Accesses
<1>6. ASSUME g \in InList(list) PROVE \E j \in DOMAIN list : g = list[j] /\ j < i
  <2>1. PICK j \in DOMAIN list : g = list[j]
    BY <1>6 DEF InList
  <2>2. j <= i /\ j # i /\ i \in Nat /\ j \in Nat
    BY <1>1, <1>2, <2>1
  <2>3. QED
    BY <2>1, <2>2
<1>7. CASE list = history
  <2>1. v \notin InList(lru) /\ record_cnt_[v] < k_
    BY <1>1, <1>4, <1>5, <1>7
  <2>2. CASE g \in InList(lru)
    BY <1>3, <1>5, <2>1, <2>2 DEF GoesBefore
  <2>3. CASE g \in InList(history)
    <3>1. PICK j \in DOMAIN list : g = list[j] /\ j < i
      BY <1>6, <1>7, <2>3
    <3>2. FirstAccesses[v] < FirstAccesses[g]
      BY <1>2, <1>3, <1>7, <3>1 DEF Ordered, Newest
    <3>3. timestamps_[v][1] < timestamps_[g][1]
      BY <3>2, <1>4, AccessesPast
    <3>4. QED
      BY <1>3, <2>1, <3>3 DEF GoesBefore
  <2>4. QED
    BY <1>1, <2>2, <2>3
<1>8. CASE list = lru /\ Evictables(history) = {}
  <2>1. g \in InList(lru)
    BY <1>1, <1>8 DEF Evictables, InList
  <2>2. PICK j \in DOMAIN list : g = list[j] /\ j < i
    BY <1>6, <1>8, <2>1
  <2>3. LastAccesses[v] < LastAccesses[g]
    BY <1>2, <1>3, <1>8, <2>2 DEF Ordered, Newest
  <2>4. LastAccess(v) < LastAccess(g)
    BY <2>3, <1>4, AccessesPast
  <2>5. ~(record_cnt_[v] < k_) /\ record_cnt_[g] >= k_
    BY <1>4, <1>5, <1>8, <2>1
  <2>6. QED
    BY <1>3, <2>4, <2>5 DEF GoesBefore
<1>9. QED
  BY <1>7, <1>8

\* Theorem.  Evict takes the frame whose turn it is: among the evictable frames one with
\* fewer than k accesses if there is one, the one first accessed longest ago; otherwise
\* the one whose latest access is longest ago.  Evict never looks at a timestamp: that
\* the lists are in this order is an invariant of all the calls together.
THEOREM EvictsInOrder == Spec => EvictionOrder
<1>1. IInv /\ Ordered /\ [Next]_vars => [EvictStep(GoesBefore)]_vars
  <2> SUFFICES ASSUME IInv, Ordered, Next PROVE EvictStep(GoesBefore)
    OBVIOUS
  <2> SUFFICES ASSUME NEW f \in mp_ \ mp_', ret' = [op |-> "Evict", victim |-> f],
                      NEW g \in mp_ \ {f}, evictable_[g]
               PROVE  GoesBefore(f, g)
    BY DEF EvictStep
  <2>1. ret'.op = "Evict" /\ ret'.victim = f
    OBVIOUS
  <2>2. ASSUME NEW h \in Frame, Remove(h) PROVE FALSE
    BY <2>1, <2>2 DEF Remove
  <2>3. ASSUME mp_ \subseteq mp_' PROVE FALSE
    BY <2>3
  <2>4. CASE Evict
    <3>1. PICK list : /\ list = history \/ (list = lru /\ Evictables(history) = {})
                      /\ Evictables(list) # {} /\ latch_ = "free"
                      /\ ret' = [op |-> "Evict", victim |-> Victim(list)]
      BY <2>4 DEF Evict
    <3>2. f = Victim(list) /\ g \in Listed
      BY <3>1, <2>1 DEF IInv, Nodes
    <3>3. QED
      BY <3>1, <3>2, VictimGoesBefore
  <2>5. CASE EvictNone
    BY <2>3, <2>5 DEF EvictNone
  <2>6. ASSUME NEW h \in Frame,
               \/ RecordAccess(h) \/ RecordAccessWhenFull(h) \/ RecordAccessThrows(h) \/ RemoveNothing(h)
               \/ \E e \in BOOLEAN : SetEvictable(h, e)
        PROVE  FALSE
    BY <2>3, <2>6 DEF RecordAccess, RecordAccessWhenFull, RecordAccessThrows, RemoveNothing, SetEvictable
  <2>7. QED
    BY <2>2, <2>4, <2>5, <2>6 DEF Next
<1>2. QED
  BY <1>1, OrderAlways, PTL DEF Spec, EvictionOrder
=============================================================================
