------------------------------ MODULE BPlusTree ------------------------------
(***************************************************************************)
(* The B+ trees of an instance as BPlusTreeIndex uses them, their pages in *)
(* the buffer pool with the pins the calls take and give back, and their   *)
(* records on the header page, page 0, which others use too.  Page 0 is    *)
(* allocated for it beforehand, as the tests do.  Calls come one at a      *)
(* time: the tree takes no latch.                                          *)
(*                                                                         *)
(* Split and InsertIntoParent are left out: GetValue takes other keys for  *)
(* the one looked for, so Insert refuses every second key of a tree, and   *)
(* no call gets as far as the test that leads to them (NoLeafFills in      *)
(* BPlusTreeProofs).  The tests insert five keys and expect each of them.  *)
(*                                                                         *)
(* The trees use what NewPage and FetchPage return without a test; the     *)
(* pool has two frames for them, the most that a call pins at a time.      *)
(***************************************************************************)
EXTENDS HeaderPage, FiniteSets

CONSTANTS
    Trees,           \* the trees, called after their indexes: no two have the same name
    Keys, Rids,
    leaf_max_size_,  \* at least 2 entries: LEAF_PAGE_SIZE is in the hundreds
    Tables           \* how many tables may be created, a page each

ASSUME LeafMaxSizeAssumption == leaf_max_size_ \in Nat /\ leaf_max_size_ >= 2
ASSUME TreesAssumption == Trees \subseteq Names

VARIABLES
    pages,           \* page id -> what the page holds
    pins,            \* page id -> how often it is pinned
    root_page_id_,   \* tree -> its root page
    call             \* the last call and its answer
treeVars == <<pages, pins, root_page_id_, call>>
vars == <<treeVars, headerVars>>

INVALID_PAGE_ID == -1
HEADER_PAGE_ID == 0
index_name_ == [t \in Trees |-> t]
IndexNames == {index_name_[t] : t \in Trees}

\* A page is a leaf, with its entries, or another, whose contents are elsewhere or do not matter.
LeafPage(array) == [kind |-> "leaf", array |-> array]
OtherPage(kind) == [kind |-> kind]
Entry(key, rid) == [key |-> key, rid |-> rid]

NoCall == [op |-> "none"]
Init ==
    /\ HeaderInit
    /\ pages = [p \in {HEADER_PAGE_ID} |-> OtherPage("header")]
    /\ pins = [p \in DOMAIN pages |-> 0]
    /\ root_page_id_ = [t \in Trees |-> INVALID_PAGE_ID]
    /\ call = NoCall

-----------------------------------------------------------------------------
(* The buffer pool, as far as the trees see it.                            *)

NewPageId == Cardinality(DOMAIN pages)
Extended(f, p, v) == [q \in DOMAIN f \cup {p} |-> IF q = p THEN v ELSE f[q]]
NewPage(ps, p) == Extended(ps, p, 1)
FetchPage(ps, p) == [ps EXCEPT ![p] = @ + 1]
UnpinPage(ps, p) == [ps EXCEPT ![p] = IF @ = 0 THEN 0 ELSE @ - 1]

-----------------------------------------------------------------------------
(* A leaf page.                                                            *)

comparator_(k1, k2) == IF k1 < k2 THEN -1 ELSE IF k1 > k2 THEN 1 ELSE 0

\* The lower bound: how many entries have a smaller key.
KeyIndex(array, key) == Cardinality({i \in DOMAIN array : comparator_(array[i].key, key) < 0})
Shifted(array, at, entry) == SubSeq(array, 1, at) \o <<entry>> \o SubSeq(array, at + 1, Len(array))
\* Mutant: the value of a key that is there is replaced.
InsertKeyReplaces(array, key, rid) ==
    LET at == KeyIndex(array, key) IN
    IF at < Len(array) /\ comparator_(array[at + 1].key, key) = 0 THEN [array EXCEPT ![at + 1] = Entry(key, rid)]
    ELSE Shifted(array, at, Entry(key, rid))
InsertKey(array, key, rid) ==
    LET at == KeyIndex(array, key) IN
    IF at < Len(array) /\ comparator_(array[at + 1].key, key) = 0 THEN array
    ELSE Shifted(array, at, Entry(key, rid))

-----------------------------------------------------------------------------
(* The tree.                                                               *)

IsEmpty(t) == root_page_id_[t] = INVALID_PAGE_ID
\* The root is a leaf; Findleaf pins it.
Findleaf(t) == root_page_id_[t]
Array(t) == pages[Findleaf(t)].array

\* An entry is taken for that of the key if the comparison is not zero.  GetValue answers
\* whether there is any; their values are its result.
GetValue(t, key) == ~IsEmpty(t) /\ \E i \in DOMAIN Array(t) : comparator_(Array(t)[i].key, key) # 0
Result(t, key) ==
    IF IsEmpty(t) THEN <<>>
    ELSE LET hits == SelectSeq(Array(t), LAMBDA e : comparator_(e.key, key) # 0) IN [i \in DOMAIN hits |-> hits[i].rid]
PinsAfterGetValue(t) ==
    IF IsEmpty(t) THEN pins ELSE UnpinPage(FetchPage(pins, Findleaf(t)), Findleaf(t))

\* UpdateRootPageId(1) for a tree whose root has become r.
\* Mutant: the record is updated, not inserted.
UpdateRootPageIdAsUpdate(t, r) == HeaderUpdate(index_name_[t], r)
UpdateRootPageId(t, r) == HeaderInsert(index_name_[t], r)
HeaderPins(ps) == UnpinPage(FetchPage(ps, HEADER_PAGE_ID), HEADER_PAGE_ID)

\* Mutant: the new root stays pinned.
RootPinsKept(r) == HeaderPins(NewPage(pins, r))
RootPins(r) == UnpinPage(HeaderPins(NewPage(pins, r)), r)

StartTree(t, key, rid) ==
    LET r == NewPageId IN
    /\ r \in RootIds /\ UpdateRootPageId(t, r)
    /\ pages' = Extended(pages, r, LeafPage(InsertKey(<<>>, key, rid)))
    /\ root_page_id_' = [root_page_id_ EXCEPT ![t] = r]
    /\ pins' = RootPins(r)

InsertIntoLeaf(t, key, rid) ==
    /\ pages' = [pages EXCEPT ![Findleaf(t)].array = InsertKey(@, key, rid)]
    /\ pins' = UnpinPage(FetchPage(PinsAfterGetValue(t), Findleaf(t)), Findleaf(t))
    /\ UNCHANGED <<root_page_id_, headerVars>>

\* InsertEntry.  The first test is Insert's for a duplicate.
Refused(t, key) == GetValue(t, key)
Insert ==
    \E t \in Trees, key \in Keys, rid \in Rids :
        /\ call' = [op |-> "Insert", ret |-> ~Refused(t, key)]
        /\ IF Refused(t, key) THEN pins' = PinsAfterGetValue(t) /\ UNCHANGED <<pages, root_page_id_, headerVars>>
           ELSE IF IsEmpty(t) THEN StartTree(t, key, rid)
           ELSE InsertIntoLeaf(t, key, rid)

ScanKey ==
    \E t \in Trees, key \in Keys :
        /\ call' = [op |-> "ScanKey", result |-> Result(t, key)]
        /\ pins' = PinsAfterGetValue(t)
        /\ UNCHANGED <<pages, root_page_id_, headerVars>>

\* DeleteEntry: Remove has no body.
DeleteEntry ==
    \E t \in Trees, key \in Keys :
        /\ call' = [op |-> "Remove"]
        /\ UNCHANGED <<pages, pins, root_page_id_, headerVars>>

\* TableHeap's constructor, which allocates the first page of a table and unpins it.
CreateTable ==
    /\ Cardinality({p \in DOMAIN pages : pages[p].kind = "table"}) < Tables
    /\ LET p == NewPageId IN
       /\ p \in RootIds
       /\ pages' = Extended(pages, p, OtherPage("table"))
       /\ pins' = UnpinPage(NewPage(pins, p), p)
    /\ call' = NoCall
    /\ UNCHANGED <<root_page_id_, headerVars>>

\* Whoever else keeps records on the header page, under names of their own.
OtherRecords == \E n \in Names \ IndexNames : HeaderCall(n) /\ UNCHANGED treeVars

Next == Insert \/ ScanKey \/ DeleteEntry \/ CreateTable \/ OtherRecords
Spec == Init /\ [][Next]_vars

-----------------------------------------------------------------------------
(* Properties.                                                             *)

\* Between two calls no page of a tree and no header page is pinned: whichever way a call
\* of the tree goes, every FetchPage and NewPage is met by one UnpinPage.
PinsReturned == \A p \in DOMAIN pins : pins[p] = 0

\* No call but Remove takes an entry out of a tree or changes it: inserting a key again, for
\* which Insert's test for duplicates is no help, does not move the entry of the first row to
\* a later one.
Entries(t) == IF IsEmpty(t) THEN {} ELSE {Array(t)[i] : i \in DOMAIN Array(t)}
EntriesStay == [][call'.op # "Remove" => \A t \in Trees : Entries(t) \subseteq Entries(t)']_vars

\* The header page names the root of every tree that is not empty, whatever records are
\* inserted before or behind its own, or removed.
HeaderAgrees == \A t \in Trees : ~IsEmpty(t) => GetRootId(page, index_name_[t]) = root_page_id_[t]

=============================================================================
