------------------------------- MODULE Session -------------------------------
(***************************************************************************)
(* BustubInstance::ExecuteSqlTxn for one session: the statements of a text *)
(* are bound, planned, optimized and executed one after the other, or      *)
(* change the catalog or the session's variables.  An exception ends the   *)
(* text.  Before its first text it may have the test tables generated.     *)
(* Locks and transactions are in BustubInstance.                           *)
(***************************************************************************)
EXTENDS Planner, Optimizer, Executors, TableGenerator, SQLReference

CONSTANTS
    Texts,          \* the texts a session may submit: sequences of statements
    MaxTexts,       \* how many it submits
    InitialTables,  \* the tables there are at the start: name, schema, heap, rows
    InitialIndexes  \* and the indexes: name, table, attrs

VARIABLES
    session_variables_,  \* name -> value
    submitted,      \* how many texts have been submitted
    todo,           \* the statements that are left; the first is the current one
    pc,             \* what comes next for it
    statement,      \* it, bound
    plan,           \* planned: planner.plan_
    optimized,      \* and optimized
    shuffled, cursor, result_set,   \* its execution
    outcome         \* how the last text ended
query == <<statement, plan, optimized, shuffled, cursor, result_set>>
vars == <<catalog, session_variables_, submitted, todo, pc, query, outcome, generator>>

None == [kind |-> "none"]
TypeOK ==
    /\ pc \in {"idle", "generate", "bind", "run", "plan", "execute", "next"}
    /\ submitted \in 0..MaxTexts
    /\ outcome \in {"none", "ok", "exception", "crash"}
    /\ cursor \in 0..MaxRows /\ Len(result_set) <= MaxRows

\* The catalog after the tables and the indexes have been created in order.
Table(i) == LET t == InitialTables[i] IN TableInfo(t.name, t.schema, t.heap, t.rows, i - 1)
Index(i) == LET x == InitialIndexes[i]
                rows == InitialTables[CHOOSE t \in DOMAIN InitialTables : InitialTables[t].name = x.table].rows
            IN  IndexInfo(x.name, x.table, x.attrs, Populated(rows), i - 1)
IndexesOn(name) == {i \in DOMAIN InitialIndexes : InitialIndexes[i].table = name}
Init ==
    /\ tables = [oid \in {i - 1 : i \in DOMAIN InitialTables} |-> Table(oid + 1)]
    /\ table_names = [n \in {InitialTables[i].name : i \in DOMAIN InitialTables} |->
                        (CHOOSE i \in DOMAIN InitialTables : InitialTables[i].name = n) - 1]
    /\ indexes = [oid \in {i - 1 : i \in DOMAIN InitialIndexes} |-> Index(oid + 1)]
    /\ index_names = [n \in DOMAIN table_names |->
                        [x \in {InitialIndexes[i].name : i \in IndexesOn(n)} |->
                            (CHOOSE i \in IndexesOn(n) : InitialIndexes[i].name = x) - 1]]
    /\ next_table_oid = Len(InitialTables) /\ next_index_oid = Len(InitialIndexes)
    /\ session_variables_ = EmptyMap
    /\ submitted = 0 /\ todo = <<>> /\ pc = "idle" /\ outcome = "none"
    /\ statement = None /\ plan = None /\ optimized = None
    /\ shuffled = <<>> /\ cursor = 0 /\ result_set = <<>>
    /\ GeneratorInit

-----------------------------------------------------------------------------
(* One step of ExecuteSqlTxn each.                                         *)

\* What is left of a statement that is done with, and of a text that is.
Forget == statement' = None /\ plan' = None /\ optimized' = None /\ shuffled' = <<>> /\ cursor' = 0 /\ result_set' = <<>>
Abandon(why) ==
    /\ outcome' = (IF why = "crash" THEN "crash" ELSE "exception")
    /\ pc' = "idle" /\ todo' = <<>> /\ Forget
Continue ==
    /\ todo' = Tail(todo) /\ Forget
    /\ IF Tail(todo) = <<>> THEN pc' = "idle" /\ outcome' = "ok" ELSE pc' = "bind" /\ outcome' = outcome

\* A step of GenerateTestTable, which shells call before the first text.
GenerateTestTable ==
    /\ \/ pc = "idle" /\ filling = 0 /\ submitted = 0
       \/ pc = "generate"
    /\ GenerateTestTables
    /\ pc' = IF filling' > Len(insert_meta) THEN "idle" ELSE "generate"
    /\ UNCHANGED <<session_variables_, submitted, todo, query, outcome>>

Submit ==
    /\ pc = "idle" /\ submitted < MaxTexts /\ outcome # "crash"
    /\ \E text \in Texts : todo' = text
    /\ submitted' = submitted + 1 /\ pc' = "bind" /\ outcome' = "none"
    /\ UNCHANGED <<catalog, session_variables_, query>>

Kinds == {"create", "index", "show", "set", "explain"}
Bind ==
    /\ pc = "bind"
    /\ \E bound \in {BindStatement(Head(todo))} :
       IF IsError(bound) THEN Abandon(bound.why)
       ELSE /\ statement' = bound
            /\ pc' = IF bound.kind \in Kinds THEN "run" ELSE "plan"
            /\ UNCHANGED <<todo, outcome, plan, optimized, shuffled, cursor, result_set>>
    /\ UNCHANGED <<catalog, session_variables_, submitted>>

RunCreate ==
    /\ pc = "run" /\ statement.kind = "create"
    /\ CreateTable(statement.table, statement.columns, TRUE, <<>>)
    /\ IF CanCreateTable(statement.table) THEN Continue ELSE Abandon("Failed to create table")
    /\ UNCHANGED <<session_variables_, submitted>>

\* The columns are looked up by the last part of their bound names.
ColumnIds(ref, cols) == [i \in DOMAIN cols |-> TryGetColIdx(ref.schema, <<cols[i].name[Len(cols[i].name)]>>)]
RunIndex ==
    /\ pc = "run" /\ statement.kind = "index"
    /\ LET ref == statement.table
           ids == ColumnIds(ref, statement.cols)
       IN  IF \E i \in DOMAIN ids : ref.schema[ids[i]].type # "INTEGER"
           THEN Abandon("only support creating index on integer column") /\ UNCHANGED catalog
           ELSE IF Len(ids) # 1
           THEN Abandon("only support creating index with exactly one column") /\ UNCHANGED catalog
           ELSE IF CanCreateIndex(statement.name, ref.table) /\ ~GetTable(ref.table).heap
           THEN Abandon("crash") /\ UNCHANGED catalog
           ELSE /\ CreateIndex(statement.name, ref.table, ids)
                /\ IF CanCreateIndex(statement.name, ref.table) THEN Continue ELSE Abandon("Failed to create index")
    /\ UNCHANGED <<session_variables_, submitted>>

\* What SHOW and EXPLAIN write is left out.
RunShow ==
    /\ pc = "run" /\ statement.kind = "show"
    /\ Continue /\ UNCHANGED <<catalog, session_variables_, submitted>>
RunSet ==
    /\ pc = "run" /\ statement.kind = "set"
    /\ session_variables_' = (statement.variable :> statement.value) @@ session_variables_
    /\ Continue /\ UNCHANGED <<catalog, submitted>>

\* Planned and optimized under one shared lock.
PlanAndOptimize(bound) ==
    LET Both(planned) == <<planned, Then(planned, Optimize)>> IN Both(PlanQuery(bound))
RunExplain ==
    /\ pc = "run" /\ statement.kind = "explain"
    /\ \E out \in {PlanAndOptimize(statement.statement)} : IF IsError(out[2]) THEN Abandon(out[2].why) ELSE Continue
    /\ UNCHANGED <<catalog, session_variables_, submitted>>
Plan ==
    /\ pc = "plan"
    /\ \E out \in {PlanAndOptimize(statement)} :
       IF IsError(out[2]) THEN Abandon(out[2].why)
       ELSE /\ plan' = out[1] /\ optimized' = out[2] /\ pc' = "execute"
            /\ UNCHANGED <<todo, outcome, statement, shuffled, cursor, result_set>>
    /\ UNCHANGED <<catalog, session_variables_, submitted>>

\* ExecutionEngine::Execute: what CreateExecutor and Init throw leaves it.
ExecuteInit ==
    /\ pc = "execute"
    /\ IF CreateExecutor(optimized) /\ CanInit(optimized)
       THEN /\ \E order \in Shuffles(optimized) : shuffled' = order
            /\ cursor' = 0 /\ pc' = "next"
            /\ UNCHANGED <<todo, outcome, statement, plan, optimized, result_set>>
       ELSE Abandon("not implemented")
    /\ UNCHANGED <<catalog, session_variables_, submitted>>
\* What Next throws ends the loop, and nothing more, unless it is no bustub::Exception.
StdExceptions == {"INVALID_ARGUMENT"}
ExecuteNext ==
    /\ pc = "next"
    /\ \E out \in {ExecutorNext(optimized, shuffled, cursor)} :
       CASE out.status = "row" ->
               /\ result_set' = Append(result_set, out.row) /\ cursor' = out.cursor
               /\ UNCHANGED <<todo, pc, outcome, statement, plan, optimized, shuffled>>
         [] out.status = "ASSERTION" -> Abandon("crash")
         [] out.status \in StdExceptions -> Abandon("exception")
         [] OTHER -> Continue
    /\ UNCHANGED <<catalog, session_variables_, submitted>>

ExecuteSqlTxn ==
    Submit \/ Bind \/ RunCreate \/ RunIndex \/ RunShow \/ RunSet \/ RunExplain \/ Plan \/ ExecuteInit \/ ExecuteNext
Next == GenerateTestTable \/ (ExecuteSqlTxn /\ UNCHANGED generator)
Spec == Init /\ [][Next]_vars

-----------------------------------------------------------------------------
(* Properties.                                                             *)

Select == pc \in {"execute", "next"} /\ statement.kind = "select"
\* The same result, for what the plan promises.
Agree(x, y) == IF Ordered(plan) THEN x = y ELSE SameRows(x, y)

\* The plan that the binder and the planner make of a SELECT yields the rows that the
\* query means by the names it is written with: in order if it ends in a sort.
PlanMeansQuery ==
    LET Means(rows) == HasMeaning(rows) => Agree(Meaning(plan), rows)
    IN  Select => Means(Query(Head(todo), EmptyMap).rows)

\* Every column that an expression of a plan reads is a column of the child it names, of
\* the type the expression expects, before and after the optimizer; and the optimized
\* plan's tuples can be read by the schema of the planned one, as ExecuteSqlTxn does.
RECURSIVE WellFormed(_)
WellFormed(p) ==
    LET Reads(e, schemas) ==
            \A c \in ColumnsOf(e) :
                /\ c.tuple + 1 \in DOMAIN schemas /\ c.col \in DOMAIN schemas[c.tuple + 1]
                /\ schemas[c.tuple + 1][c.col].type = c.type
        in == [i \in DOMAIN p.children |-> p.children[i].schema]
        All(exprs) == \A i \in DOMAIN exprs : Reads(exprs[i], in)
    IN  /\ \A i \in DOMAIN p.children : WellFormed(p.children[i])
        /\ CASE p.kind \in {"filter", "nlj"} -> Reads(p.pred, in)
             [] p.kind \in {"projection", "update"} -> All(p.exprs)
             [] p.kind = "aggregation" -> All(p.groups) /\ All([i \in DOMAIN p.aggs |-> p.aggs[i].expr])
             [] p.kind = "sort" -> All([i \in DOMAIN p.order |-> p.order[i].expr])
             [] p.kind = "index_join" -> Reads(p.key, in) /\ SameTypes(p.schema, in[1] \o p.inner)
             [] OTHER -> TRUE
PlansWellFormed ==
    pc \in {"execute", "next"} => WellFormed(plan) /\ WellFormed(optimized) /\ SameTypes(plan.schema, optimized.schema)

\* When the executors of a plan are exhausted, the result set is what the plan means (a
\* plan with an aggregation is another matter: its executor is a stub).
Complete(p) == SameRows(result_set, Meaning(p))
ResultIsMeaning ==
    (pc = "next" /\ LeafOf(optimized).kind # "aggregation"
                 /\ ExecutorNext(optimized, shuffled, cursor).status = "exhausted") => Complete(plan)

\* A plan as the optimizer leaves it, by the rule for hash joins, which OptimizeCustom
\* leaves switched off, and by the rules that eliminate true filters and merge filters
\* into scans, which no list of rules calls.
Rewritten ==
    <<optimized>> \o
    (IF Ordered(plan) THEN <<>> ELSE <<OptimizeNLJAsHashJoin(OptimizeMergeFilterNLJ(plan))>>) \o
    (IF HasError(OptimizeEliminateTrueFilter(plan)) THEN <<>>
     ELSE <<OptimizeMergeFilterScan(OptimizeEliminateTrueFilter(OptimizeMergeProjection(plan)))>>)
\* A filter above a LEFT join on a true predicate: MergeFilterNLJ makes it the predicate of
\* the join, after which every row of the left side has a row in the result.
RECURSIVE FiltersOuterJoin(_)
FiltersOuterJoin(p) ==
    \/ /\ p.kind = "filter" /\ p.children[1].kind = "nlj" /\ p.children[1].type = "LEFT"
       /\ Accepts(PredicateOf(p.children[1].pred))
    \/ \E i \in DOMAIN p.children : FiltersOuterJoin(p.children[i])
\* No rule of the optimizer changes a row of the result, nor their order where the plan
\* sorts them, whether it is switched on, switched off or called by no list of rules, and
\* what the rules leave is well formed: with two limits.  A plan that uses an index means
\* the same if the index leads to every row of its table, equal keys and NULLs included;
\* those of the catalog lead to the first row, so that the rows they do have are compared
\* where that is all there is.  And a filter above a LEFT join on a true predicate loses
\* no row by the merging of the two, while it may gain some.
RulesPreserveMeaning ==
    LET Same(x, y) == IF FiltersOuterJoin(OptimizeMergeProjection(plan)) THEN HasRowsOf(x, y) ELSE Agree(x, y)
        Keep(p, rows) ==
            /\ Same(MeaningWith(p, AllRows), rows)
            /\ IndexesComplete(p) => Same(Meaning(p), rows)
    IN  PlansWellFormed /\ (Select => \A i \in DOMAIN Rewritten : Keep(Rewritten[i], Meaning(plan)))

\* The catalog stays consistent through the statements that define tables and indexes
\* and through the generation of the test tables, which are as they are configured.
CatalogAgrees == TypeOK /\ MapsAgree /\ TablesAsConfigured

=============================================================================
