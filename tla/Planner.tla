------------------------------- MODULE Planner -------------------------------
(***************************************************************************)
(* The planner: from a bound statement to a plan.  What PlanExpression     *)
(* returns is a record of the column's name, the expression and the        *)
(* context's next_aggregation_ afterwards; the rest of PlannerContext      *)
(* (cte_list_ and expr_in_agg_) is passed down.                            *)
(*                                                                         *)
(* Names drawn from universal_id_ are made of the statement they belong to *)
(* and the position of the column, which makes them as unique.             *)
(***************************************************************************)
EXTENDS Binder

LOCAL INSTANCE SequencesExt
LOCAL INSTANCE FiniteSetsExt

CONSTANTS
    MockTables,     \* the internal tables whose name starts with "__mock"
    MaxDepth        \* how deep CTEs may lead to one another before the stack is taken to overflow

SizeMax == 1000000  \* a negative limit, converted to size_t: more than any number of rows

-----------------------------------------------------------------------------
(* Expressions.                                                            *)

\* PlannerContext: expr_in_agg_, and the index of the next one.
NoAggregation == <<>>
Planned(name, expr, next) == [kind |-> "planned", name |-> name, expr |-> expr, next |-> next]
Named(name, expr, next) == IF IsError(expr) THEN expr ELSE Planned(name, expr, next)

Comparisons == [op \in {"=", "==", "!=", "<>", "<", "<=", ">", ">="} |->
                    CASE op = "==" -> "=" [] op \in {"!=", "<>"} -> "#" [] OTHER -> op]
GetBinaryExpressionFromFactory(op, l, r) ==
    CASE op \in DOMAIN Comparisons -> ComparisonExpression(Comparisons[op], l, r)
      [] op \in {"+", "-"} -> ArithmeticExpression(op, l, r)
      [] op \in {"and", "or"} -> LogicExpression(op, l, r)
      [] OTHER -> Error("binary op not supported in planner yet")

PlanColumnRef(name, children) ==
    LET At(c) == {i \in DOMAIN children[c].schema : children[c].schema[i].name = name}
        Ref(c) == ColumnValueExpression(c - 1, Min(At(c)), children[c].schema[Min(At(c))].type)
    IN  CASE Len(children) = 0 -> Error("column ref should have at least one child")
          [] Len(children) = 1 ->
                CASE Cardinality(At(1)) > 1 -> Error("duplicated column found in schema")
                  [] At(1) = {} -> Error("Column does not exist")
                  [] OTHER -> Ref(1)
          [] Len(children) = 2 ->
                CASE At(1) # {} /\ At(2) # {} -> Error("ambiguous column name")
                  [] At(1) # {} /\ At(2) = {} -> Ref(1)
                  [] At(1) = {} /\ At(2) # {} -> Ref(2)
                  [] OTHER -> Error("column name not found")

RECURSIVE PlanExpression(_, _, _, _)
PlanExpression(e, children, in_agg, next) ==
    CASE e.kind = "agg_call" ->
            IF next >= Len(in_agg) THEN Error("unexpected agg call") ELSE Planned(Unnamed, in_agg[next + 1], next + 1)
      [] e.kind = "column_ref" -> Named(e.name, PlanColumnRef(e.name, children), next)
      [] e.kind = "binary_op" ->
            Then(PlanExpression(e.l, children, in_agg, next), LAMBDA l :
                 Then(PlanExpression(e.r, children, in_agg, l.next), LAMBDA r :
                      Named(Unnamed, GetBinaryExpressionFromFactory(e.op, l.expr, r.expr), r.next)))
      [] e.kind = "constant" -> Planned(Unnamed, ConstantValueExpression(e.value), next)
      [] e.kind = "alias" ->
            Then(PlanExpression(e.child, children, in_agg, next),
                 LAMBDA child : Planned(<<e.alias>>, child.expr, child.next))
      [] OTHER -> Error("expression type not supported in planner yet")

\* A list of expressions in order, each one taking up next_aggregation_ from the one before.
PlanList(list, children, in_agg, next) ==
    LET Step(done, e) ==
            Append(done, Then(IF done = <<>> THEN Planned(Unnamed, NoExpr, next) ELSE Last(done),
                              LAMBDA before : PlanExpression(e, children, in_agg, before.next)))
    IN  FoldLeft(Step, <<>>, list)
ExprsOf(planned) == [i \in DOMAIN planned |-> planned[i].expr]
NamesOf(planned) == [i \in DOMAIN planned |-> planned[i].name]
ProjectionOf(planned, names, child) ==
    ProjectionPlanNode(RenameSchema(InferProjectionSchema(ExprsOf(planned)), names), ExprsOf(planned), child)

-----------------------------------------------------------------------------
(* Aggregation.                                                            *)

\* The calls that AddAggCallToContext collects from an expression, in order, and Error
\* for an expression that it does not support.
RECURSIVE AddAggCallToContext(_)
AddAggCallToContext(e) ==
    CASE e.kind = "agg_call" -> <<e>>
      [] e.kind \in {"column_ref", "constant"} -> <<>>
      [] e.kind = "binary_op" -> AddAggCallToContext(e.l) \o AddAggCallToContext(e.r)
      [] e.kind = "alias" -> AddAggCallToContext(e.child)
      [] OTHER -> <<Error("expression type not supported in planner yet")>>

GetAggCallFromFactory(func, args) ==
    CASE args = <<>> /\ func = "count_star" -> [kind |-> "count_star", expr |-> ConstantValueExpression(Integer(1))]
      [] Len(args) = 1 /\ func \in {"min", "max", "sum", "count"} -> [kind |-> func, expr |-> args[1].expr]
      [] OTHER -> Error("unsupported agg_call")
PlanAggCall(call, child) ==
    IF call.distinct THEN Error("distinct agg is not implemented yet")
    ELSE ThenAll(PlanList(call.args, <<child>>, NoAggregation, 0), LAMBDA args : GetAggCallFromFactory(call.func, args))

\* What AddAggCallToContext sees: HAVING first, then the select list.
Clauses(s) == (IF s.having = NoExpr THEN <<>> ELSE <<s.having>>) \o s.list
AggCalls(s) == FlattenSeq([i \in DOMAIN Clauses(s) |-> AddAggCallToContext(Clauses(s)[i])])
PlanAggCalls(calls, child) == [i \in DOMAIN calls |-> Then(calls[i], LAMBDA call : PlanAggCall(call, child))]
\* The aggregation, and what HAVING and the select list make of its columns.
AggregationOf(s, child, groups, aggs) ==
    AggregationPlanNode(RenameSchema(InferAggSchema(ExprsOf(groups), aggs),
                                     NamesOf(groups) \o [i \in DOMAIN aggs |-> <<"agg#" \o Digit[i]>>]),
                        child, ExprsOf(groups), aggs, s.at)
PlanHavingAndList(s, agg) ==
    LET in_agg == [i \in DOMAIN agg.aggs |-> ColumnValueExpression(0, Len(agg.groups) + i, "INTEGER")]
        List(list, plan) == ProjectionOf(list, NamesOf(list), plan)
    IN  ThenAll(PlanList(Clauses(s), <<agg>>, in_agg, 0), LAMBDA planned :
                IF s.having = NoExpr THEN List(planned, agg)
                ELSE List(Tail(planned), FilterPlanNode(agg.schema, planned[1].expr, agg)))
PlanSelectAgg(s, child) ==
    ThenAll(PlanList(s.group, <<child>>, NoAggregation, 0), LAMBDA groups :
            ThenAll(PlanAggCalls(AggCalls(s), child), LAMBDA aggs :
                    PlanHavingAndList(s, AggregationOf(s, child, groups, aggs))))

-----------------------------------------------------------------------------
(* Tables.                                                                 *)

\* The schema is that of the first row.
PlanExpressionListRef(ref) ==
    LET ValuesOf(rows) ==
            Strict(FlattenSeq(rows),
                   ValuesPlanNode([k \in DOMAIN rows[1] |-> ColumnOfType(<<ref.identifier, Digit[k]>>, rows[1][k].expr.type)],
                                  [i \in DOMAIN rows |-> ExprsOf(rows[i])]))
    IN  ValuesOf([i \in DOMAIN ref.rows |-> PlanList(ref.rows[i], <<>>, NoAggregation, 0)])

PlanBaseTableRef(ref) ==
    LET table == GetTable(ref.table)
        schema == InferScanSchema(GetBoundTableName(ref), ref.schema)
    IN  CASE table = NullTable -> Error("table not found")
          [] ref.table \in MockTables -> MockScanPlanNode(schema, ref.table)
          [] ref.table \in InternalTables \ MockTables -> Error("unsupported internal table")
          [] OTHER -> SeqScanPlanNode(schema, ref.table, NoFilter)

\* A constant TRUE: the condition of a cross product.
True == ConstantValueExpression(GetBooleanValue("CmpTrue"))
RECURSIVE PlanTableRef(_, _, _), PlanSelect(_, _, _)

\* The subquery, and a projection that renames its columns.
PlanSubquery(ref, alias, ctes, depth) ==
    LET Column(schema, i) ==
            Planned(<<alias>> \o ref.select_list_name[i], ColumnValueExpression(0, i, schema[i].type), 0)
        Renaming(columns, select) == ProjectionOf(columns, NamesOf(columns), select)
    IN  Then(PlanSelect(ref.select, ctes, depth), LAMBDA select :
             Renaming([i \in DOMAIN select.schema |-> Column(select.schema, i)], select))
\* A CTE is looked up in the list of the statement being planned, whichever statement
\* it was bound in.
PlanCTERef(ref, ctes, depth) ==
    CASE CTENamed(ctes, ref.cte_name) = 0 -> Error("CTE not found")
      [] depth = 0 -> Error("crash")
      [] OTHER -> PlanSubquery(ctes[CTENamed(ctes, ref.cte_name)], ref.alias, ctes, depth - 1)
PlanCrossProductRef(left, right) ==
    NestedLoopJoinPlanNode(InferJoinSchema(left, right), left, right, True, "INNER")
PlanJoinRef(ref, left, right) ==
    Then(PlanExpression(ref.on, <<left, right>>, NoAggregation, 0), LAMBDA on :
         NestedLoopJoinPlanNode(InferJoinSchema(left, right), left, right, on.expr, ref.type))

PlanTableRef(ref, ctes, depth) ==
    CASE ref.kind = "base" -> PlanBaseTableRef(ref)
      [] ref.kind \in {"cross", "join"} ->
            Then(PlanTableRef(ref.l, ctes, depth), LAMBDA left :
                 Then(PlanTableRef(ref.r, ctes, depth), LAMBDA right :
                      IF ref.kind = "cross" THEN PlanCrossProductRef(left, right) ELSE PlanJoinRef(ref, left, right)))
      [] ref.kind = "values" -> PlanExpressionListRef(ref)
      [] ref.kind = "subquery" -> PlanSubquery(ref, ref.alias, ctes, depth)
      [] ref.kind = "cte" -> PlanCTERef(ref, ctes, depth)

-----------------------------------------------------------------------------
(* SELECT, clause by clause.  Each takes the plan so far, unless that is   *)
(* an exception.                                                           *)

PlanFrom(s, ctes, depth) ==
    IF s.table = EmptyRef THEN ValuesPlanNode(<<>>, <<(<<>>)>>) ELSE PlanTableRef(s.table, ctes, depth)
PlanWhere(s, plan) ==
    IF s.where = NoExpr THEN plan
    ELSE Then(PlanExpression(s.where, <<plan>>, NoAggregation, 0),
              LAMBDA where : FilterPlanNode(plan.schema, where.expr, plan))
IsAggregation(s) == s.having # NoExpr \/ s.group # <<>> \/ \E i \in DOMAIN s.list : HasAggregation(s.list[i])
PlanSelectList(s, plan) ==
    LET NameAt(list, i) ==
            IF list[i].name = Unnamed THEN <<Fresh("__unnamed#", s.at \o Digit[i])>> ELSE list[i].name
    IN  IF IsAggregation(s) THEN PlanSelectAgg(s, plan)
        ELSE ThenAll(PlanList(s.list, <<plan>>, NoAggregation, 0), LAMBDA list :
                     ProjectionOf(list, [i \in DOMAIN list |-> NameAt(list, i)], plan))
PlanDistinct(s, plan) ==
    IF ~s.distinct THEN plan
    ELSE AggregationPlanNode(plan.schema, plan,
            [i \in DOMAIN plan.schema |-> ColumnValueExpression(0, i, plan.schema[i].type)], <<>>, "distinct")
PlanOrderBy(s, plan) ==
    IF s.sort = <<>> THEN plan
    ELSE ThenAll(PlanList([i \in DOMAIN s.sort |-> s.sort[i].expr], <<plan>>, NoAggregation, 0), LAMBDA exprs :
                 SortPlanNode(plan.schema, plan,
                              [i \in DOMAIN exprs |-> [by |-> s.sort[i].by, expr |-> exprs[i].expr]]))
IsInteger(e) == e.kind = "constant" /\ e.value.type = "INTEGER"
ToSizeT(n) == IF n < 0 THEN SizeMax ELSE n
PlanLimit(s, plan) ==
    CASE s.limit = NoExpr /\ s.offset = NoExpr -> plan
      [] s.limit # NoExpr /\ ~IsInteger(s.limit) -> Error("LIMIT clause must be an integer constant")
      [] s.offset # NoExpr -> Error("OFFSET clause is not supported yet")
      [] OTHER -> LimitPlanNode(plan.schema, plan, ToSizeT(GetAs(s.limit.value)))

PlanSelect(s, parents, depth) ==
    LET ctes == IF s.ctes = <<>> THEN parents ELSE s.ctes
        Clause(plan, Rest(_, _)) == Then(plan, LAMBDA p : Rest(s, p))
    IN  Clause(Clause(Clause(Clause(Clause(
            PlanFrom(s, ctes, depth), PlanWhere), PlanSelectList), PlanDistinct), PlanOrderBy), PlanLimit)

-----------------------------------------------------------------------------
(* INSERT, DELETE, UPDATE.                                                 *)

RowCount(what) == <<FixedColumn(<<"__bustub_internal", what>>, "INTEGER")>>
PlanInsert(stmt) ==
    LET Fits(schema) == /\ Len(schema) = Len(stmt.table.schema)
                        /\ \A i \in DOMAIN schema : schema[i].type = stmt.table.schema[i].type
    IN  Then(PlanSelect(stmt.select, NoCtes, MaxDepth), LAMBDA select :
             IF Fits(select.schema) THEN InsertPlanNode(RowCount("insert_rows"), select, stmt.table.table)
             ELSE Error("table schema mismatch"))
\* The rows of a table that a condition selects, and an error if the condition is one.
Selected(ref, cond) ==
    Then(PlanTableRef(ref, NoCtes, MaxDepth), LAMBDA table :
         Then(PlanExpression(cond, <<table>>, NoAggregation, 0), LAMBDA pred :
              FilterPlanNode(table.schema, pred.expr, table)))
PlanDelete(stmt) ==
    Then(Selected(stmt.table, stmt.expr), LAMBDA filter :
         DeletePlanNode(RowCount("delete_rows"), filter, stmt.table.table))
\* One expression for each column: the last one assigned to it, or its own value.
PlanUpdate(stmt) ==
    LET Column(filter, col) == IF col = NoExpr THEN Error("crash") ELSE PlanColumnRef(col.name, <<filter>>)
        Target(filter, exprs, is, c) ==
            IF is = {} THEN ColumnValueExpression(0, c, filter.schema[c].type) ELSE exprs[Max(is)].expr
        Update(filter, exprs, cols) ==
            Strict(exprs \o cols,
                   UpdatePlanNode(RowCount("update_rows"), filter, stmt.table.table,
                                  [c \in DOMAIN filter.schema |->
                                      Target(filter, exprs, {i \in DOMAIN cols : cols[i].col = c}, c)]))
    IN  Then(Selected(stmt.table, stmt.filter), LAMBDA filter :
             Update(filter, PlanList(stmt.exprs, <<filter>>, NoAggregation, 0),
                    [i \in DOMAIN stmt.cols |-> Column(filter, stmt.cols[i])]))

\* The statements whose aggregate calls a plan evaluates, once for each node.
RECURSIVE Aggregations(_)
Aggregations(plan) ==
    (IF plan.kind = "aggregation" /\ plan.aggs # <<>> THEN <<plan.origin>> ELSE <<>>) \o
    FlattenSeq([i \in DOMAIN plan.children |-> Aggregations(plan.children[i])])
\* Planning replaces the aggregate calls of a bound statement by pseudo calls, which are
\* not supported when the statement (of a CTE) is planned again.
PlanQuery(stmt) ==
    Then(CASE stmt.kind = "select" -> PlanSelect(stmt, NoCtes, MaxDepth)
           [] stmt.kind = "insert" -> PlanInsert(stmt)
           [] stmt.kind = "delete" -> PlanDelete(stmt)
           [] stmt.kind = "update" -> PlanUpdate(stmt)
           [] OTHER -> Error("the statement is not supported in planner yet"),
         LAMBDA plan : IF IsInjective(Aggregations(plan)) THEN plan ELSE Error("unsupported agg_call"))

=============================================================================
