--------------------------- MODULE BustubInstance ---------------------------
(***************************************************************************)
(* The sessions of one BustubInstance: ExecuteSql of several threads, with *)
(* catalog_lock_ of the instance and global_txn_latch_ of the transaction  *)
(* manager.  What a statement does to data is in Session; here a statement *)
(* has a kind, the name it is about, and whether its execution throws.     *)
(*                                                                         *)
(* Binding and the meta-commands read the catalog without its lock.  When  *)
(* another session is inserting into the catalog's maps meanwhile, what    *)
(* they find is undefined, and may be a crash.                             *)
(***************************************************************************)
EXTENDS Integers, FiniteSets, Sequences

CONSTANTS
    Sessions,
    Texts,         \* what a session may submit: sequences of statements
    MockTables     \* the tables of GenerateMockTable

ASSUME MockTablesAssumption == IsFiniteSet(MockTables)

VARIABLES
    objects,       \* the catalog: table, or index of a table, -> oid
    next_oid,      \* kind -> the next oid
    catalog_lock_, \* the sessions that hold it, shared and exclusive
    running,       \* transactions that hold global_txn_latch_ shared
    blocked,       \* BlockAllTransactions holds it
    checkpoint,    \* how far the one caller of BlockAllTransactions is
    pc, todo,      \* session -> its next step, and the statements left of its text
    absent,        \* session -> CreateTable or CreateIndex has not found the name
    created,       \* what "created with id" has been written for: <<object, oid>>
    crashed
catalog == <<objects, next_oid, created>>
session == <<pc, todo, absent>>
vars == <<catalog, catalog_lock_, running, blocked, checkpoint, session, crashed>>

Kinds == {"create", "index"}
\* Tables have names of their own, and so have the indexes of a table.
ObjectOf(stmt) == IF stmt.kind = "create" THEN <<"create", stmt.name>> ELSE <<"index", stmt.name, stmt.table>>
TableNames == {o[2] : o \in {p \in DOMAIN objects : p[1] = "create"}}

Free == [shared |-> {}, exclusive |-> {}]
Init ==
    /\ objects = [o \in {} |-> 0] /\ next_oid = [k \in Kinds |-> 0] /\ created = {}
    /\ catalog_lock_ = Free
    /\ running = 0 /\ blocked = FALSE /\ checkpoint = "none"
    /\ pc = [s \in Sessions |-> "generate"] /\ todo = [s \in Sessions |-> <<>>] /\ absent = [s \in Sessions |-> FALSE]
    /\ crashed = FALSE

\* The mock tables are created before the first session starts, and in any order: their
\* oids are not looked at.
GenerateMockTable ==
    /\ \A s \in Sessions : pc[s] = "generate"
    /\ objects' = [o \in {<<"create", name>> : name \in MockTables} |-> 0]
    /\ next_oid' = [next_oid EXCEPT !["create"] = Cardinality(MockTables)]
    /\ pc' = [s \in Sessions |-> "idle"]
    /\ UNCHANGED <<created, catalog_lock_, running, blocked, checkpoint, todo, absent, crashed>>

-----------------------------------------------------------------------------
(* What the steps of a session have in common.                             *)

At(s, where) == ~crashed /\ pc[s] = where
Statement(s) == Head(todo[s])
Goto(s, where) == pc' = [pc EXCEPT ![s] = where] /\ UNCHANGED todo
\* The next statement of the text, or its end.
Advance(s) ==
    /\ todo' = [todo EXCEPT ![s] = Tail(@)]
    /\ pc' = [pc EXCEPT ![s] = IF Len(todo[s]) = 1 THEN "commit" ELSE "bind"]
\* An exception leaves ExecuteSql: the transaction is neither committed nor aborted.
Throw(s) == Goto(s, "lost")

LockShared(s) == catalog_lock_.exclusive = {} /\ catalog_lock_' = [catalog_lock_ EXCEPT !.shared = @ \cup {s}]
\* Mutant: DDL under a shared lock, as GenerateMockTable's.
LockExclusiveShared(s) == LockShared(s)
LockExclusive(s) == catalog_lock_ = Free /\ catalog_lock_' = [catalog_lock_ EXCEPT !.exclusive = @ \cup {s}]
\* Mutant: a lock that is not given back when the planner throws.
UnlockUnlessThrown(s) ==
    catalog_lock_' = IF pc[s] = "planning" /\ Statement(s).fails = "plan" THEN catalog_lock_
                     ELSE [shared |-> catalog_lock_.shared \ {s}, exclusive |-> catalog_lock_.exclusive \ {s}]
Unlock(s) == catalog_lock_' = [shared |-> catalog_lock_.shared \ {s}, exclusive |-> catalog_lock_.exclusive \ {s}]

\* A read without the lock: it may crash while another session changes the catalog.
Unlocked(s) == crashed' \in (IF catalog_lock_.exclusive # {} THEN BOOLEAN ELSE {FALSE})

-----------------------------------------------------------------------------
(* ExecuteSql.                                                             *)

Begin ==
    /\ ~blocked
    /\ \E s \in Sessions :
        /\ At(s, "idle")
        /\ \E text \in Texts :
            /\ todo' = [todo EXCEPT ![s] = text]
            /\ pc' = [pc EXCEPT ![s] = IF text # <<>> /\ Head(text).kind = "meta" THEN "meta" ELSE "parse"]
    /\ running' = running + 1
    /\ UNCHANGED <<catalog, catalog_lock_, blocked, checkpoint, absent, crashed>>

\* The meta-commands return before anything is parsed.
Meta ==
    /\ \E s \in Sessions :
        /\ At(s, "meta") /\ Unlocked(s)
        /\ IF Statement(s).name = "unsupported" THEN Throw(s) ELSE Goto(s, "commit")
    /\ UNCHANGED <<catalog, catalog_lock_, running, blocked, checkpoint, absent>>
\* The lock is taken and given back around the parser.
Parse ==
    /\ \E s \in Sessions :
        /\ At(s, "parse") /\ catalog_lock_.exclusive = {}
        /\ Goto(s, IF todo[s] = <<>> THEN "commit" ELSE "bind")
    /\ UNCHANGED <<catalog, catalog_lock_, running, blocked, checkpoint, absent, crashed>>
\* A statement about a table that is not there is refused; CREATE TABLE looks at no table.
Bind ==
    /\ \E s \in Sessions :
        /\ At(s, "bind") /\ Unlocked(s)
        /\ LET stmt == Statement(s) IN
           IF stmt.kind # "create" /\ stmt.table \notin TableNames THEN Throw(s)
           ELSE Goto(s, IF stmt.kind \in Kinds THEN "define" ELSE IF stmt.kind = "set" THEN "set" ELSE "plan")
    /\ UNCHANGED <<catalog, catalog_lock_, running, blocked, checkpoint, absent>>

\* CREATE TABLE and CREATE INDEX, while the lock is held: the name is looked up ...
DefineFind ==
    /\ \E s \in Sessions :
        /\ At(s, "define") /\ LockExclusive(s)
        /\ absent' = [absent EXCEPT ![s] = ObjectOf(Statement(s)) \notin DOMAIN objects]
        /\ Goto(s, "defining")
    /\ UNCHANGED <<catalog, running, blocked, checkpoint, crashed>>
\* ... and entered under a new oid.
DefineEnter ==
    /\ \E s \in Sessions :
        /\ At(s, "defining") /\ Unlock(s)
        /\ LET object == ObjectOf(Statement(s))
               oid == next_oid[object[1]]
           IN  IF absent[s]
               THEN /\ objects' = [o \in DOMAIN objects \cup {object} |-> IF o = object THEN oid ELSE objects[o]]
                    /\ next_oid' = [next_oid EXCEPT ![object[1]] = @ + 1]
                    /\ created' = created \cup {<<object, oid>>}
                    /\ Advance(s)
               ELSE Throw(s) /\ UNCHANGED catalog
        /\ absent' = [absent EXCEPT ![s] = FALSE]
    /\ UNCHANGED <<running, blocked, checkpoint, crashed>>

\* SET; SHOW does the same but for the variable.
Set ==
    /\ \E s \in Sessions : At(s, "set") /\ Advance(s)
    /\ UNCHANGED <<catalog, catalog_lock_, running, blocked, checkpoint, absent, crashed>>

\* Queries and EXPLAIN are planned and optimized under the shared lock.
PlanBegin ==
    /\ \E s \in Sessions : At(s, "plan") /\ LockShared(s) /\ Goto(s, "planning")
    /\ UNCHANGED <<catalog, running, blocked, checkpoint, absent, crashed>>
PlanEnd ==
    /\ \E s \in Sessions :
        /\ At(s, "planning") /\ Unlock(s)
        /\ IF Statement(s).fails = "plan" THEN Throw(s)
           ELSE IF Statement(s).kind = "explain" THEN Advance(s) ELSE Goto(s, "execute")
    /\ UNCHANGED <<catalog, running, blocked, checkpoint, absent, crashed>>
Execute ==
    /\ \E s \in Sessions :
        /\ At(s, "execute")
        /\ IF Statement(s).fails = "execute" THEN Throw(s) ELSE Advance(s)
    /\ UNCHANGED <<catalog, catalog_lock_, running, blocked, checkpoint, absent, crashed>>

Release == running' = running - 1
Commit ==
    /\ \E s \in Sessions : At(s, "commit") /\ Goto(s, "done")
    /\ Release
    /\ UNCHANGED <<catalog, catalog_lock_, blocked, checkpoint, absent, crashed>>

-----------------------------------------------------------------------------
(* A checkpoint blocks all transactions, and resumes them.                 *)

BlockAllTransactions ==
    /\ checkpoint = "none" /\ running = 0 /\ ~crashed
    /\ \E s \in Sessions : pc[s] # "generate"
    /\ blocked' = TRUE /\ checkpoint' = "blocking"
    /\ UNCHANGED <<catalog, catalog_lock_, running, session, crashed>>
ResumeTransactions ==
    /\ checkpoint = "blocking"
    /\ blocked' = FALSE /\ checkpoint' = "done"
    /\ UNCHANGED <<catalog, catalog_lock_, running, session, crashed>>

Next ==
    \/ GenerateMockTable \/ Begin \/ Meta \/ Parse \/ Bind \/ DefineFind \/ DefineEnter \/ Set
    \/ PlanBegin \/ PlanEnd \/ Execute \/ Commit \/ BlockAllTransactions \/ ResumeTransactions
Spec == Init /\ [][Next]_vars
\* A thread that can take a step takes it; each session submits one text, so that a
\* thread that waits for a lock is not overtaken for ever.
FairSpec == Spec /\ WF_vars(Next)

-----------------------------------------------------------------------------
(* Properties.                                                             *)

Ended(s) == pc[s] \in {"done", "lost"}

\* Of the sessions that create a table of one name, or an index of one name on one table, one
\* is told that it has, and with the oid the catalog has for the name; no oid is given to two
\* tables, or to two indexes.  The look-up is made under the same exclusive lock as the
\* insertion.
CreatedOnce ==
    /\ \A c \in created : objects[c[1]] = c[2]
    /\ \A c, d \in created : (c[1][1] = d[1][1] /\ c[2] = d[2]) => c = d

\* Every text ends, in a commit or in an exception: no session waits for a lock that a
\* session has ended with.
EveryTextEnds == \A s \in Sessions : <>(Ended(s) \/ crashed)

\* Unless a text throws, a checkpoint gets the latch and gives it back.
CheckpointCompletes == <>(checkpoint = "done" \/ crashed \/ \E s \in Sessions : pc[s] = "lost")

\* Texts and checkpoint end, however the sessions take the locks of the catalog and the
\* transaction manager's latch.
SessionsAndCheckpointEnd == EveryTextEnds /\ CheckpointCompletes

=============================================================================
