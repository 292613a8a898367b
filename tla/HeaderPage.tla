------------------------------ MODULE HeaderPage ------------------------------
(***************************************************************************)
(* HeaderPage: a count, then records <name, root_id> of a fixed size one   *)
(* after the other.  The bytes behind the last record keep what they held. *)
(* BPlusTree extends this module: its trees are users of the page.         *)
(***************************************************************************)
EXTENDS Integers, Sequences, FiniteSets

CONSTANTS
    Names,       \* the names of indexes; "" is what zeroed bytes spell
    RootIds,     \* page ids
    Capacity     \* the records a page has room for: 113

ASSUME CapacityAssumption == Capacity \in Nat \ {0}
\* InsertRecord does not ask whether there is room: there must not be more names than places.
ASSUME NamesAssumption == "" \notin Names /\ IsFiniteSet(Names) /\ Cardinality(Names) <= Capacity

VARIABLES
    page,        \* the page: count, and records by their place
    record_call  \* the last call and its arguments
headerVars == <<page, record_call>>

Record(name, root_id) == [name |-> name, root_id |-> root_id]
ZeroPage == [count |-> 0, records |-> [i \in 1..Capacity |-> Record("", 0)]]

Pages == [count : 0..Capacity, records : [1..Capacity -> [name : Names \cup {""}, root_id : RootIds \cup {0}]]]
HeaderTypeOK == page \in Pages

-----------------------------------------------------------------------------
(* The functions of the class, on the contents of a page.                  *)

\* The first record of that name among those counted; 0 if there is none.
FindRecord(pg, name) ==
    LET at == {i \in 1..pg.count : pg.records[i].name = name} IN
    IF at = {} THEN 0 ELSE CHOOSE i \in at : \A j \in at : i <= j

InsertRecord(pg, name, root_id) ==
    IF FindRecord(pg, name) # 0 THEN pg
    ELSE [count |-> pg.count + 1, records |-> [pg.records EXCEPT ![pg.count + 1] = Record(name, root_id)]]

\* memmove takes the records behind the one that goes a place forward.
\* Mutant: it moves one record too few.
MovedButLast(pg, at) == [i \in 1..Capacity |-> IF i \in at..(pg.count - 2) THEN pg.records[i + 1] ELSE pg.records[i]]
Moved(pg, at) == [i \in 1..Capacity |-> IF i \in at..(pg.count - 1) THEN pg.records[i + 1] ELSE pg.records[i]]
DeleteRecord(pg, name) ==
    LET at == FindRecord(pg, name) IN
    IF at = 0 THEN pg ELSE [count |-> pg.count - 1, records |-> Moved(pg, at)]

UpdateRecord(pg, name, root_id) ==
    LET at == FindRecord(pg, name) IN
    IF at = 0 THEN pg
    ELSE [count |-> pg.count, records |-> [pg.records EXCEPT ![at] = [@ EXCEPT !.root_id = root_id]]]

\* GetRootId: -1 for false.
GetRootId(pg, name) == LET at == FindRecord(pg, name) IN IF at = 0 THEN -1 ELSE pg.records[at].root_id

-----------------------------------------------------------------------------
(* A page in use.                                                          *)

HeaderInit == page = ZeroPage /\ record_call = <<"none">>
HeaderInsert(n, r) == page' = InsertRecord(page, n, r) /\ record_call' = <<"InsertRecord", n, r>>
\* An assertion wants a record to be there.
HeaderDelete(n) ==
    page.count > 0 /\ page' = DeleteRecord(page, n) /\ record_call' = <<"DeleteRecord", n>>
HeaderUpdate(n, r) == page' = UpdateRecord(page, n, r) /\ record_call' = <<"UpdateRecord", n, r>>
HeaderCall(n) == HeaderDelete(n) \/ \E r \in RootIds : HeaderInsert(n, r) \/ HeaderUpdate(n, r)
HeaderNext == \E n \in Names : HeaderCall(n)
HeaderSpec == HeaderInit /\ [][HeaderNext]_headerVars

\* The records counted have names, and no two have one name: the first that FindRecord meets
\* is the only one, and there are never more records than names.
Distinct(pg) ==
    /\ \A i, j \in 1..pg.count : pg.records[i].name = pg.records[j].name => i = j
    /\ \A i \in 1..pg.count : pg.records[i].name # ""
NamesDistinct == Distinct(page)

\* The header page is a directory of root pages: what GetRootId answers for each name
\* changes as inserting, updating or deleting the name of the call does, and for no other.
Recorded(pg) == [n \in {m \in Names : FindRecord(pg, m) # 0} |-> GetRootId(pg, n)]
Directory == INSTANCE RootDirectory WITH roots <- Recorded(page), call <- record_call
RefinesDirectory == Directory!Spec

=============================================================================
