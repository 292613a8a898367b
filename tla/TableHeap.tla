----------------------------- MODULE TableHeap -----------------------------
(***************************************************************************)
(* A table as a chain of slotted pages (src/storage/table/table_heap.cpp)  *)
(* and its iterator (table_iterator.cpp), used by concurrent transactions. *)
(* A thread fetches a page (pins it), latches it, does its work and gives  *)
(* both back.  Every fetch is a step of its own, so that others meet the   *)
(* pool with the page pinned; the work under the latch, up to the unpin,   *)
(* is another.  Two operations keep more from one step to the next:        *)
(* InsertTuple has a full page and the new one behind it pinned and        *)
(* latched for writing, the iterator a read latch and, on its way to the   *)
(* next page, two pins.  A page that cannot be fetched is a nullptr: where *)
(* the code does not test for it, the program stops (crashed).             *)
(***************************************************************************)
EXTENDS SlottedPage, FiniteSets
LOCAL INSTANCE SequencesExt

CONSTANTS Txns,             \* transactions, each run by a thread of its own
          Workloads         \* what they may do, and with how many frames; see below

VARIABLES workload,         \* the one this behaviour is about
          pages,            \* page id -> table page
          txn,              \* transaction -> [state, writes]
          op,               \* transaction -> the call it is in
          answer,           \* transaction -> what its last call returned
          seen,             \* transaction -> the rows its scan has returned
          steady,           \* transaction -> rows that did not change since its scan began
          crashed

heapVars == <<workload, pages, txn, op, answer, seen, steady, crashed>>

Tuples == workload.tuples            \* what they insert
Loaded == workload.loaded            \* tuples of earlier, committed transactions, on the first page
PoolSize == workload.frames          \* frames that nobody but these calls pins
enable_logging == workload.logging

NoRid == <<INVALID_PAGE_ID, 0>>
At(call, page, rid, tuple) == [call |-> call, page |-> page, rid |-> rid, tuple |-> tuple]
Idle == At("idle", INVALID_PAGE_ID, NoRid, <<>>)
first_page_id_ == 0

WriteCalls == {"insert", "mark", "update", "apply", "rollback", "undo"}
ReadLatchedCalls == {"copy", "hop"}                           \* with a read latch on the page
PinningCalls == WriteCalls \union ReadLatchedCalls \union {"get", "look", "read", "advance", "enter"}
TwoPageCalls == {"link", "leave"}                             \* with a page and the one before it
ScanCalls == {"look", "begin_next", "begin", "construct", "read", "at", "advance",
              "copy", "hop", "leave", "enter", "ended"}

Rids == UNION {{<<p, s>> : s \in Slots(pages[p])} : p \in DOMAIN pages}
RowIn(ps, rid) == GetTuple(ps[rid[1]], rid[2])
Rows == {<<rid, RowIn(pages, rid).tuple>> : rid \in {r \in Rids : RowIn(pages, r).ok}}

-----------------------------------------------------------------------------
(* The buffer pool and the latches, as the heap meets them.                 *)

PinsOf(o) == IF o.call \in TwoPageCalls THEN {o.page, pages[o.page].prev}
             ELSE IF o.call \in PinningCalls THEN {o.page} ELSE {}
Pinned == UNION {PinsOf(op[u]) : u \in Txns}
CanFetch(pinned, p) == p \in pinned \/ Cardinality(pinned) < PoolSize

\* A std::shared_mutex that lets readers in while a writer waits.
WLatched == UNION {PinsOf(op[u]) : u \in {v \in Txns : op[v].call = "link"}}
RLatched == {op[u].page : u \in {v \in Txns : op[v].call \in ReadLatchedCalls}}
            \union {pages[op[u].page].prev : u \in {v \in Txns : op[v].call = "leave"}}
CanRLatch(p) == p \notin WLatched
CanWLatch(p) == p \notin WLatched \union RLatched

-----------------------------------------------------------------------------
Becomes(t, o) == op' = [op EXCEPT ![t] = o]
Returns(t, result) == answer' = [answer EXCEPT ![t] = result]
Aborted(t) == txn' = [txn EXCEPT ![t].state = "ABORTED"]
AbortedIf(t, cond) == txn' = [txn EXCEPT ![t].state = IF cond THEN "ABORTED" ELSE @]
Record(rid, wtype, tuple) == [rid |-> rid, wtype |-> wtype, tuple |-> tuple]
Crash(t) == crashed' = TRUE /\ Becomes(t, Idle) /\ UNCHANGED <<pages, txn, answer, seen>>

\* The rows that stay as they are while a scan runs (auxiliary).
Observe ==
    /\ steady' = [t \in Txns |->
        IF op'[t].call \notin ScanCalls THEN {}
        ELSE IF op[t].call \notin ScanCalls THEN Rows
        ELSE {row \in steady[t] : RowIn(pages', row[1]) = [ok |-> TRUE, tuple |-> row[2]]}]
    /\ UNCHANGED workload

HeapInit ==
    /\ workload \in Workloads
    /\ pages = [p \in {first_page_id_} |->
                  FoldLeft(LAMBDA page, tuple : InsertTuple(page, tuple).page,
                           Init_(first_page_id_, INVALID_PAGE_ID), Loaded)]
    /\ op = [t \in Txns |-> Idle] /\ answer = [t \in Txns |-> TRUE]
    /\ seen = [t \in Txns |-> <<>>] /\ steady = [t \in Txns |-> {}]
    /\ crashed = FALSE

\* InsertTuple up to its loop.
InsertCall(t, tuple) ==
    /\ IF \/ Len(tuple) + SIZE_TABLE_PAGE_HEADER + SIZE_TUPLE > PageSize
          \/ ~CanFetch(Pinned, first_page_id_)
       THEN Aborted(t) /\ Returns(t, FALSE) /\ UNCHANGED op
       ELSE Becomes(t, At("insert", first_page_id_, NoRid, tuple)) /\ UNCHANGED <<txn, answer>>
    /\ UNCHANGED <<pages, seen, crashed>>

Inserted(t, ps, rid) ==
    /\ pages' = ps
    /\ txn' = [txn EXCEPT ![t].writes = Append(@, Record(rid, "INSERT", <<>>))]
    /\ Returns(t, TRUE) /\ Becomes(t, Idle) /\ UNCHANGED <<seen, crashed>>

\* One round of the loop: the page takes the tuple, or it is given up for the next
\* one, or a new page is linked to it; both are then pinned and latched.
InsertStep(t) ==
    LET p == op[t].page
        tuple == op[t].tuple
        next == pages[p].next
        r == InsertTuple(pages[p], tuple)
        n == Cardinality(DOMAIN pages)
    IN  /\ op[t].call = "insert" /\ CanWLatch(p)
        /\ \/ r.ok /\ Inserted(t, [pages EXCEPT ![p] = r.page], <<p, r.slot>>)
           \/ /\ ~r.ok /\ next # INVALID_PAGE_ID
              /\ Becomes(t, At("insert_next", next, NoRid, tuple))
              /\ UNCHANGED <<pages, txn, answer, seen, crashed>>
           \/ /\ ~r.ok /\ next = INVALID_PAGE_ID
              /\ IF Cardinality(Pinned) < PoolSize
                 THEN /\ pages' = [q \in DOMAIN pages \union {n} |->
                                     IF q = n THEN Init_(n, p)
                                     ELSE IF q = p THEN [pages[p] EXCEPT !.next = n] ELSE pages[q]]
                      /\ Becomes(t, At("link", n, NoRid, tuple))
                      /\ UNCHANGED <<txn, answer, seen, crashed>>
                 ELSE Aborted(t) /\ Returns(t, FALSE) /\ Becomes(t, Idle) /\ UNCHANGED <<pages, seen, crashed>>

\* The next page is fetched when the one before has been given up.
InsertNext(t) ==
    /\ op[t].call = "insert_next"
    /\ IF CanFetch(Pinned, op[t].page)
       THEN Becomes(t, [op[t] EXCEPT !.call = "insert"]) /\ UNCHANGED <<pages, txn, answer, seen, crashed>>
       ELSE Crash(t)

\* The full page is given up; the new one, which is still latched, takes the tuple.
LinkStep(t) ==
    LET n == op[t].page
        r == InsertTuple(pages[n], op[t].tuple)
    IN  op[t].call = "link" /\ Inserted(t, [pages EXCEPT ![n] = r.page], <<n, r.slot>>)

\* The page of a rid is fetched for GetTuple, MarkDelete, UpdateTuple, ApplyDelete
\* and RollbackDelete; without it the last two have an assertion, the others abort
\* the transaction.
RidCall(t, call, rid, tuple) ==
    /\ IF CanFetch(Pinned, rid[1])
       THEN Becomes(t, At(call, rid[1], rid, tuple)) /\ UNCHANGED <<pages, txn, answer, seen, crashed>>
       ELSE IF call \in {"apply", "rollback"} THEN Crash(t)
       ELSE Aborted(t) /\ Returns(t, FALSE) /\ UNCHANGED <<pages, op, seen, crashed>>

\* The answer of the page is dropped, the delete is recorded in any case.
MarkDeleteStep(t) ==
    LET rid == op[t].rid
        r == MarkDelete(pages[rid[1]], rid[2])
    IN  /\ op[t].call = "mark" /\ CanWLatch(rid[1])
        /\ pages' = [pages EXCEPT ![rid[1]] = r.page]
        /\ txn' = [txn EXCEPT ![t].state = IF enable_logging /\ ~r.ok THEN "ABORTED" ELSE @,
                              ![t].writes = Append(@, Record(rid, "DELETE", <<>>))]
        /\ Returns(t, TRUE) /\ Becomes(t, Idle) /\ UNCHANGED <<seen, crashed>>

\* The page may refuse a tuple for its size without aborting anything.
UpdateTupleStep(t) ==
    LET rid == op[t].rid
        r == UpdateTuple(pages[rid[1]], op[t].tuple, rid[2])
        missing == enable_logging /\ ~RowIn(pages, rid).ok
    IN  /\ op[t].call = "update" /\ CanWLatch(rid[1])
        /\ pages' = [pages EXCEPT ![rid[1]] = r.page]
        /\ txn' = [txn EXCEPT ![t].state = IF missing THEN "ABORTED" ELSE @,
                              ![t].writes = IF r.ok /\ txn[t].state # "ABORTED"
                                            THEN Append(@, Record(rid, "UPDATE", r.old)) ELSE @]
        /\ Returns(t, r.ok) /\ Becomes(t, Idle) /\ UNCHANGED <<seen, crashed>>

GetTupleStep(t) ==
    LET row == RowIn(pages, op[t].rid)
    IN  /\ op[t].call = "get" /\ CanRLatch(op[t].page)
        /\ Returns(t, row.ok) /\ AbortedIf(t, enable_logging /\ ~row.ok)
        /\ Becomes(t, Idle) /\ UNCHANGED <<pages, seen, crashed>>

-----------------------------------------------------------------------------
(* Begin and the iterator.                                                  *)

Scanning(t, call, page, rid) ==
    Becomes(t, At(call, page, rid, <<>>)) /\ UNCHANGED <<pages, txn, answer, crashed>>
Ends(t) == Scanning(t, "ended", INVALID_PAGE_ID, NoRid)

\* A page is fetched for a scan, without a test that it was.
ScanFetches(t, call, page, rid) ==
    IF CanFetch(Pinned, page) THEN Scanning(t, call, page, rid) /\ UNCHANGED seen ELSE Crash(t)

BeginCall(t) == Scanning(t, "begin", first_page_id_, NoRid) /\ seen' = [seen EXCEPT ![t] = <<>>]

\* One round of Begin's loop: the fetch, and the look at the page, up to the unpin.
BeginFetch(t) == op[t].call = "begin" /\ ScanFetches(t, "look", op[t].page, NoRid)
BeginStep(t) ==
    LET p == op[t].page
        slot == GetFirstTupleRid(pages[p])
    IN  /\ op[t].call = "look" /\ CanRLatch(p)
        /\ IF slot >= 0 THEN Scanning(t, "construct", INVALID_PAGE_ID, <<p, slot>>)
           ELSE /\ Becomes(t, At("begin_next", p, NoRid, Pinned))
                /\ UNCHANGED <<pages, txn, answer, crashed>>
        /\ UNCHANGED seen

\* The next page id is read through the pointer to the frame after the page was
\* unpinned: a page that was fetched since may be in the frame by now.
BeginNext(t) ==
    LET p == op[t].page
        InFrame == {p} \union
            IF Cardinality(DOMAIN pages) > PoolSize /\ p \notin Pinned
            THEN Pinned \ op[t].tuple ELSE {}
    IN  /\ op[t].call = "begin_next"
        /\ \E q \in InFrame :
             /\ IF pages[q].next = INVALID_PAGE_ID THEN Ends(t)
                ELSE Scanning(t, "begin", pages[q].next, NoRid)
             /\ UNCHANGED seen

\* The constructor of the iterator reads the tuple; if it cannot, the iterator
\* stands on a rid with an empty tuple.
StandsOn(t, rid, tuple) ==
    /\ seen' = [seen EXCEPT ![t] = Append(@, <<rid, tuple>>)]
    /\ Becomes(t, At("at", INVALID_PAGE_ID, rid, <<>>))
    /\ UNCHANGED <<pages, answer, crashed>>
ConstructFetch(t) ==
    LET rid == op[t].rid
    IN  /\ op[t].call = "construct"
        /\ IF CanFetch(Pinned, rid[1]) THEN Scanning(t, "read", rid[1], rid) /\ UNCHANGED seen
           ELSE Aborted(t) /\ StandsOn(t, rid, <<>>)
ConstructStep(t) ==
    LET r == RowIn(pages, op[t].rid)
    IN  /\ op[t].call = "read" /\ CanRLatch(op[t].page)
        /\ AbortedIf(t, enable_logging /\ ~r.ok) /\ StandsOn(t, op[t].rid, r.tuple)

\* The iterator has looked at page p, which it holds pinned and latched, and has
\* found slot (or -1).
Looked(t, p, slot) ==
    /\ CanRLatch(p)
    /\ IF slot >= 0 THEN Scanning(t, "copy", p, <<p, slot>>)
       ELSE IF pages[p].next # INVALID_PAGE_ID THEN Scanning(t, "hop", p, NoRid)
       ELSE Ends(t)
    /\ UNCHANGED seen

AdvanceFetch(t) == op[t].call = "at" /\ ScanFetches(t, "advance", op[t].rid[1], op[t].rid)
AdvanceStep(t) ==
    LET rid == op[t].rid
    IN  op[t].call = "advance" /\ Looked(t, rid[1], GetNextTupleRid(pages[rid[1]], rid[2]))

\* The next page is fetched while this one is held; then this one is given up.
HopStep(t) == op[t].call = "hop" /\ ScanFetches(t, "leave", pages[op[t].page].next, NoRid)
LeaveStep(t) == op[t].call = "leave" /\ Scanning(t, "enter", op[t].page, NoRid) /\ UNCHANGED seen
EnterStep(t) == op[t].call = "enter" /\ Looked(t, op[t].page, GetFirstTupleRid(pages[op[t].page]))

\* GetTuple fetches the page that the iterator has pinned and takes the latch that
\* it holds already, once more.
CopyStep(t) ==
    LET rid == op[t].rid
    IN  /\ op[t].call = "copy"
        /\ seen' = [seen EXCEPT ![t] = Append(@, <<rid, RowIn(pages, rid).tuple>>)]
        /\ Scanning(t, "at", INVALID_PAGE_ID, rid)

ScanReturns(t) ==
    /\ op[t].call = "ended"
    /\ Becomes(t, Idle) /\ seen' = [seen EXCEPT ![t] = <<>>]
    /\ UNCHANGED <<pages, txn, answer, crashed>>
=============================================================================
