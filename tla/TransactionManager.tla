------------------------- MODULE TransactionManager -------------------------
(***************************************************************************)
(* Transactions over one table: Begin, Commit and Abort of                 *)
(* src/concurrency/transaction_manager.cpp, record by record, between the  *)
(* steps of other transactions, and the global latch with its one writer.  *)
(* LockManager grants everything, so which rows a transaction may write is *)
(* left to its caller, which keeps to what row locks would give it: a      *)
(* transaction writes rows that exist and that no other unfinished one has *)
(* written, and does nothing but abort once its state is ABORTED.  Abort   *)
(* also walks the index write set; that is empty, for nothing in the code  *)
(* calls AppendIndexWriteRecord.                                           *)
(***************************************************************************)
EXTENDS TableHeap

VARIABLES calls,         \* transaction -> calls made
          blocked,       \* the global latch is held by BlockAllTransactions
          committed      \* rows of committed transactions (auxiliary)

Calls == workload.calls          \* which of insert, mark, update, get, scan are made
MaxCalls == workload.max_calls   \* calls per transaction
Serial == workload.serial        \* one transaction at a time

vars == <<heapVars, calls, blocked, committed>>

mgrVars == <<calls, blocked, committed>>
stepVars == <<pages, txn, op, answer, seen, crashed>>   \* what the steps inside a call are about

NoTransaction == [state |-> "none", writes |-> <<>>]
Transaction == [state |-> "GROWING", writes |-> <<>>]

\* Holders of the global latch in shared mode.
Running == {t \in Txns : txn[t].state # "none" /\ op[t].call # "done"}
WrittenBy(t) == {txn[t].writes[i].rid : i \in 1..Len(txn[t].writes)}
WrittenByOthers(t) == UNION {WrittenBy(u) \union {op[u].rid} : u \in Running \ {t}}

Init ==
    /\ HeapInit
    /\ txn = [t \in Txns |-> NoTransaction]
    /\ calls = [t \in Txns |-> 0] /\ blocked = FALSE /\ committed = Rows

Begin ==
    /\ ~crashed /\ ~blocked
    /\ \E t \in Txns :
        /\ txn[t].state = "none" /\ (Serial => Running = {})
        /\ txn' = [txn EXCEPT ![t] = Transaction]
    /\ UNCHANGED <<pages, op, answer, seen, crashed>> /\ Observe /\ UNCHANGED mgrVars

MayCall(t, call) ==
    /\ ~crashed /\ txn[t].state # "none" /\ op[t].call = "idle"
    /\ call \in Calls /\ calls[t] < MaxCalls
    /\ txn[t].state # "ABORTED"
MayWrite(t, rid) == RowIn(pages, rid).ok /\ rid \notin WrittenByOthers(t)
Called(t) == calls' = [calls EXCEPT ![t] = @ + 1] /\ Observe /\ UNCHANGED <<blocked, committed>>

CallInsert == \E t \in Txns : MayCall(t, "insert") /\ \E tuple \in Tuples : InsertCall(t, tuple) /\ Called(t)
CallMarkDelete ==
    \E t \in Txns : MayCall(t, "mark")
        /\ \E rid \in Rids : MayWrite(t, rid) /\ RidCall(t, "mark", rid, <<>>) /\ Called(t)
CallUpdate ==
    \E t \in Txns : MayCall(t, "update")
        /\ \E rid \in Rids, tuple \in Tuples :
             MayWrite(t, rid) /\ RidCall(t, "update", rid, tuple) /\ Called(t)
CallGetTuple ==
    \E t \in Txns : MayCall(t, "get") /\ \E rid \in Rids : RidCall(t, "get", rid, <<>>) /\ Called(t)
CallScan == \E t \in Txns : MayCall(t, "scan") /\ BeginCall(t) /\ Called(t)

-----------------------------------------------------------------------------
\* Mutants: no record is popped; Commit pops only deletes.
PoppedNot(t) == UNCHANGED txn
PoppedDeletes(t) ==
    txn' = [txn EXCEPT ![t].writes =
                IF txn[t].state = "ABORTED" \/ @[Len(@)].wtype = "DELETE" THEN SubSeq(@, 1, Len(@) - 1) ELSE @]
Popped(t) == txn' = [txn EXCEPT ![t].writes = SubSeq(@, 1, Len(@) - 1)]
Loop(t) == At(IF txn[t].state = "COMMITTED" THEN "commit" ELSE "abort", INVALID_PAGE_ID, NoRid, <<>>)

CommitCall(t) ==
    /\ txn[t].state # "none" /\ op[t].call = "idle"
    /\ txn' = [txn EXCEPT ![t].state = "COMMITTED"]
    /\ Becomes(t, At("commit", INVALID_PAGE_ID, NoRid, <<>>))
    /\ committed' = {row \in committed : row[1] \notin WrittenBy(t)}
                    \union {row \in Rows : row[1] \in WrittenBy(t)}
    /\ UNCHANGED <<pages, answer, seen, crashed, calls, blocked>>

AbortCall(t) ==
    /\ txn[t].state # "none" /\ op[t].call = "idle"
    /\ Aborted(t)
    /\ Becomes(t, At("abort", INVALID_PAGE_ID, NoRid, <<>>))
    /\ UNCHANGED <<pages, answer, seen, crashed, mgrVars>>

\* The end of both: the global latch is released.
Finish(t) ==
    Becomes(t, At("done", INVALID_PAGE_ID, NoRid, <<>>)) /\ UNCHANGED <<pages, txn, answer, seen, crashed>>

\* The last record is taken; what it calls comes back to UndoStep, which pops it.
CommitStep(t) ==
    LET writes == txn[t].writes
        last == writes[Len(writes)]
    IN  /\ op[t].call = "commit"
        /\ IF writes = <<>> THEN Finish(t)
           ELSE IF last.wtype = "DELETE" THEN RidCall(t, "apply", last.rid, <<>>)
           ELSE Popped(t) /\ UNCHANGED <<pages, op, answer, seen, crashed>>

AbortStep(t) ==
    LET writes == txn[t].writes
        last == writes[Len(writes)]
    IN  /\ op[t].call = "abort"
        /\ IF writes = <<>> THEN Finish(t)
           ELSE IF last.wtype = "DELETE" THEN RidCall(t, "rollback", last.rid, <<>>)
           ELSE IF last.wtype = "INSERT" THEN RidCall(t, "apply", last.rid, <<>>)
           ELSE IF CanFetch(Pinned, last.rid[1]) THEN RidCall(t, "undo", last.rid, last.tuple)
           ELSE Popped(t) /\ UNCHANGED <<pages, op, answer, seen, crashed>>

\* ApplyDelete, RollbackDelete, and UpdateTuple in a transaction that is ABORTED
\* already: it records nothing and its answer is not looked at.
ApplyDeleteStep(t) ==
    LET rid == op[t].rid
    IN  /\ op[t].call = "apply" /\ CanWLatch(rid[1])
        /\ IF CanApplyDelete(pages[rid[1]], rid[2])
           THEN /\ pages' = [pages EXCEPT ![rid[1]] = ApplyDelete(@, rid[2])]
                /\ Popped(t) /\ Becomes(t, Loop(t)) /\ UNCHANGED <<answer, seen, crashed>>
           ELSE Crash(t)
RollbackDeleteStep(t) ==
    LET rid == op[t].rid
    IN  /\ op[t].call = "rollback" /\ CanWLatch(rid[1])
        /\ pages' = [pages EXCEPT ![rid[1]] = RollbackDelete(@, rid[2])]
        /\ Popped(t) /\ Becomes(t, Loop(t)) /\ UNCHANGED <<answer, seen, crashed>>
UndoUpdateStep(t) ==
    LET rid == op[t].rid
    IN  /\ op[t].call = "undo" /\ CanWLatch(rid[1])
        /\ pages' = [pages EXCEPT ![rid[1]] = UpdateTuple(@, op[t].tuple, rid[2]).page]
        /\ Popped(t) /\ Becomes(t, Loop(t)) /\ UNCHANGED <<answer, seen, crashed>>

-----------------------------------------------------------------------------
\* The steps inside a call, by whichever thread is scheduled.
Go == Observe /\ UNCHANGED mgrVars
InsertRound == ~crashed /\ \E t \in Txns : InsertStep(t) /\ Go
InsertNextRound == ~crashed /\ \E t \in Txns : InsertNext(t) /\ Go
LinkRound == ~crashed /\ \E t \in Txns : LinkStep(t) /\ Go
GetRound == ~crashed /\ \E t \in Txns : GetTupleStep(t) /\ Go
MarkRound == ~crashed /\ \E t \in Txns : MarkDeleteStep(t) /\ Go
UpdateRound == ~crashed /\ \E t \in Txns : UpdateTupleStep(t) /\ Go
BeginFetchRound == ~crashed /\ \E t \in Txns : BeginFetch(t) /\ Go
BeginRound == ~crashed /\ \E t \in Txns : BeginStep(t) /\ Go
BeginNextRound == ~crashed /\ \E t \in Txns : BeginNext(t) /\ Go
ConstructFetchRound == ~crashed /\ \E t \in Txns : ConstructFetch(t) /\ Go
ConstructRound == ~crashed /\ \E t \in Txns : ConstructStep(t) /\ Go
AdvanceFetchRound == ~crashed /\ \E t \in Txns : AdvanceFetch(t) /\ Go
AdvanceRound == ~crashed /\ \E t \in Txns : AdvanceStep(t) /\ Go
HopRound == ~crashed /\ \E t \in Txns : HopStep(t) /\ Go
LeaveRound == ~crashed /\ \E t \in Txns : LeaveStep(t) /\ Go
EnterRound == ~crashed /\ \E t \in Txns : EnterStep(t) /\ Go
CopyRound == ~crashed /\ \E t \in Txns : CopyStep(t) /\ Go
ScanReturn == ~crashed /\ \E t \in Txns : ScanReturns(t) /\ Go
CommitRound == ~crashed /\ \E t \in Txns : CommitStep(t) /\ Go
AbortRound == ~crashed /\ \E t \in Txns : AbortStep(t) /\ Go
ApplyRound == ~crashed /\ \E t \in Txns : ApplyDeleteStep(t) /\ Go
RollbackRound == ~crashed /\ \E t \in Txns : RollbackDeleteStep(t) /\ Go
UndoRound == ~crashed /\ \E t \in Txns : UndoUpdateStep(t) /\ Go
Commit == ~crashed /\ \E t \in Txns : txn[t].state # "ABORTED" /\ CommitCall(t) /\ Observe
Abort == ~crashed /\ \E t \in Txns : AbortCall(t) /\ Observe

Step(t) ==
    /\ ~crashed
    /\ \/ InsertStep(t) \/ InsertNext(t) \/ LinkStep(t)
       \/ MarkDeleteStep(t) \/ UpdateTupleStep(t) \/ GetTupleStep(t)
       \/ BeginFetch(t) \/ BeginStep(t) \/ BeginNext(t) \/ ConstructFetch(t) \/ ConstructStep(t)
       \/ AdvanceFetch(t) \/ AdvanceStep(t) \/ HopStep(t) \/ LeaveStep(t) \/ EnterStep(t) \/ CopyStep(t) \/ ScanReturns(t)
       \/ CommitStep(t) \/ AbortStep(t) \/ ApplyDeleteStep(t) \/ RollbackDeleteStep(t) \/ UndoUpdateStep(t)

BlockAllTransactions ==
    /\ ~crashed /\ ~blocked /\ Running = {}
    /\ blocked' = TRUE /\ UNCHANGED <<heapVars, calls, committed>>
ResumeTransactions == blocked /\ blocked' = FALSE /\ UNCHANGED <<heapVars, calls, committed>>

Next ==
    \/ Begin \/ CallInsert \/ CallMarkDelete \/ CallUpdate \/ CallGetTuple \/ CallScan
    \/ Commit \/ Abort \/ BlockAllTransactions \/ ResumeTransactions
    \/ InsertRound \/ InsertNextRound \/ LinkRound \/ MarkRound \/ UpdateRound \/ GetRound
    \/ BeginFetchRound \/ BeginRound \/ BeginNextRound \/ ConstructFetchRound \/ ConstructRound
    \/ AdvanceFetchRound \/ AdvanceRound \/ HopRound \/ LeaveRound \/ EnterRound \/ CopyRound \/ ScanReturn
    \/ CommitRound \/ AbortRound \/ ApplyRound \/ RollbackRound \/ UndoRound

\* Every thread that is inside a call goes on: the scheduler runs it, and a
\* page latch is free again after the steps of the few threads that hold it.
Fairness == \A t \in Txns : SF_stepVars(Step(t))

Spec == Init /\ [][Next]_vars /\ Fairness

-----------------------------------------------------------------------------
\* Type invariant.
TypeOK ==
    /\ workload \in Workloads
    /\ DOMAIN pages = 0..(Cardinality(DOMAIN pages) - 1)
    /\ \A p \in DOMAIN pages : pages[p].id = p /\ pages[p].count \in Nat /\ pages[p].free \in 0..PageSize
    /\ \A t \in Txns : /\ txn[t].state \in {"none", "GROWING", "COMMITTED", "ABORTED"}
                       /\ WrittenBy(t) \subseteq Rids
                       /\ op[t].page \in DOMAIN pages \union {INVALID_PAGE_ID}

\* Safety: the pages stay well formed when several transactions write them, and
\* the chain that InsertTuple extends is a doubly linked list of all of them.
PagesLaidOut ==
    /\ TypeOK
    /\ \A p \in DOMAIN pages : LaidOut(pages[p])
    /\ \A p \in DOMAIN pages : pages[p].next = IF p + 1 \in DOMAIN pages THEN p + 1 ELSE INVALID_PAGE_ID
    /\ \A p \in DOMAIN pages \ {first_page_id_} : pages[p].prev = p - 1

\* Safety: no assertion of ApplyDelete fails, and no nullptr is used as a page as
\* long as the pool has a frame for every page the threads may pin at once (two
\* each: the iterator holds one page while it fetches the next, and InsertTuple a
\* full page when it has a new one).
NeverCrashes == PoolSize >= 2 * Cardinality(Txns) => ~crashed

\* Safety: a row that no unfinished transaction has written is as the last
\* committed transaction left it.  A commit makes its inserts, updates and
\* deletes final; an abort, working from the last record back to the first
\* (Abort), takes every change back, several changes of one row included.
RowsAsCommitted ==
    ~crashed => \A rid \in Rids :
        (\A t \in Txns : rid \notin WrittenBy(t)) =>
            {row \in Rows : row[1] = rid} = {row \in committed : row[1] = rid}

\* Safety: a row that exists unchanged while a scan runs is returned by it, once
\* and in the order of the rids, whatever is inserted, moved within its page or
\* removed in the meantime (TableHeap::Begin, TableIterator::operator++).
ScanComplete ==
    \A t \in Txns : op[t].call = "ended" =>
        /\ \A row \in steady[t] : \E i \in 1..Len(seen[t]) : seen[t][i] = row
        /\ \A i \in 1..(Len(seen[t]) - 1) :
             LET a == seen[t][i][1]
                 b == seen[t][i + 1][1]
             IN  a[1] < b[1] \/ (a[1] = b[1] /\ a[2] < b[2])

\* Liveness: every call returns, a Commit or an Abort ends and with it the hold
\* on the global latch, unless the program stops for want of a frame: no two
\* threads wait for each other's latches, not even when InsertTuple holds two pages
\* and the iterator goes from one to the other.
EveryCallReturns ==
    \A t \in Txns : op[t].call \notin {"idle", "done"} ~> crashed \/ op[t].call \in {"idle", "done"}

=============================================================================
