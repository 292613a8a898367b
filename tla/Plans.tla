-------------------------------- MODULE Plans --------------------------------
(***************************************************************************)
(* The expressions and the nodes of a plan.                                *)
(*                                                                         *)
(* Expressions are column values, constants, arithmetic, comparisons and   *)
(* three-valued logic, evaluated over one row, or over the two rows of a   *)
(* join.  An expression is a record that names its class in `kind'; an     *)
(* exception is a value of TypeSystem that Failed recognises, and a        *)
(* constructor that throws yields Error.                                   *)
(*                                                                         *)
(* Nodes come with their constructors, the output schemas they infer, and  *)
(* what a plan means, which is the reference that the optimizer and the    *)
(* executors are compared with.  A node is a record with its kind, its     *)
(* output schema (a sequence of columns) and its children.                 *)
(***************************************************************************)
EXTENDS Catalog

LOCAL INSTANCE SequencesExt
LOCAL INSTANCE FiniteSetsExt

Error(why) == [kind |-> "error", why |-> why]
IsError(node) == node.kind = "error"

Integer(n) == Value("INTEGER", "INTEGER", n)
NullInt == NullInteger("INTEGER")
\* ValueFactory::GetBooleanValue(CmpBool); a comparison that throws has no CmpBool.
GetBooleanValue(cmp) ==
    CASE cmp \in {"CmpTrue", "CmpFalse"} -> Value("TINYINT", "BOOLEAN", IF cmp = "CmpTrue" THEN 1 ELSE 0)
      [] cmp = "CmpNull" -> GetNullValueByType("BOOLEAN")
      [] OTHER -> Throw(cmp)

-----------------------------------------------------------------------------
(* Constructors.                                                           *)

ColumnValueExpression(tuple, col, t) == [kind |-> "column", tuple |-> tuple, col |-> col, type |-> t]
ConstantValueExpression(v) == [kind |-> "constant", value |-> v, type |-> v.type]
ArithmeticExpression(op, l, r) ==
    IF l.type = "INTEGER" /\ r.type = "INTEGER"
    THEN [kind |-> "arithmetic", op |-> op, l |-> l, r |-> r, type |-> "INTEGER"]
    ELSE Error("only support integer for now")
ComparisonExpression(op, l, r) == [kind |-> "comparison", op |-> op, l |-> l, r |-> r, type |-> "BOOLEAN"]
LogicExpression(op, l, r) ==
    IF l.type = "BOOLEAN" /\ r.type = "BOOLEAN"
    THEN [kind |-> "logic", op |-> op, l |-> l, r |-> r, type |-> "BOOLEAN"]
    ELSE Error("expect boolean from either side")
Binary == {"arithmetic", "comparison", "logic"}

-----------------------------------------------------------------------------
(* Evaluation.                                                             *)

\* A sum outside of int32_t is undefined in the code; no operand of the runs is that large.
PerformComputation(op, l, r) ==
    IF l.null \/ r.null THEN NullInt
    ELSE Integer(IF op = "+" THEN GetAs(l) + GetAs(r) ELSE GetAs(l) - GetAs(r))
\* The six comparisons of Value; each asserts that the operands are comparable.
PerformComparison(op, l, r) ==
    GetBooleanValue(IF CheckComparable(l, r) THEN Compare(op, l, r) ELSE "ASSERTION")
GetBoolAsCmpBool(v) ==
    IF v.null THEN "CmpNull" ELSE IF GetAs(v) # 0 THEN "CmpTrue" ELSE "CmpFalse"
\* One operand may decide the result whatever the other one is.
LogicOf(op, l, r) ==
    LET decides == IF op = "and" THEN "CmpFalse" ELSE "CmpTrue" IN
    IF decides \in {l, r} THEN decides ELSE IF l = r THEN l ELSE "CmpNull"
\* Mutant: NULL decides a conjunction.
PerformLogicNullFirst(op, l, r) ==
    GetBooleanValue(IF "CmpNull" \in {GetBoolAsCmpBool(l), GetBoolAsCmpBool(r)} THEN "CmpNull"
                    ELSE LogicOf(op, GetBoolAsCmpBool(l), GetBoolAsCmpBool(r)))
PerformLogic(op, l, r) ==
    GetBooleanValue(LogicOf(op, GetBoolAsCmpBool(l), GetBoolAsCmpBool(r)))

RECURSIVE EvaluateOn(_, _)
\* Evaluate and EvaluateJoin: `rows' are the rows that tuple index 0 and 1 stand for.
EvaluateOn(e, rows) ==
    CASE e.kind = "column" -> rows[e.tuple + 1][e.col]
      [] e.kind = "constant" -> e.value
      [] e.kind \in Binary ->
            LET Perform(l, r) ==
                    CASE Failed(l) -> l
                      [] ~Failed(l) /\ Failed(r) -> r
                      [] OTHER ->
                            CASE e.kind = "arithmetic" -> PerformComputation(e.op, l, r)
                              [] e.kind = "comparison" -> PerformComparison(e.op, l, r)
                              [] e.kind = "logic" -> PerformLogic(e.op, l, r)
            IN  Perform(EvaluateOn(e.l, rows), EvaluateOn(e.r, rows))
\* ColumnValueExpression::Evaluate does not look at the tuple index.
Evaluate(e, row) == EvaluateOn(e, <<row, row>>)
EvaluateJoin(e, left, right) == EvaluateOn(e, <<left, right>>)

\* What filters and joins keep: rows whose predicate is neither NULL nor false.
Accepts(v) == ~Failed(v) /\ ~v.null /\ GetAs(v) # 0

\* The children of an expression rebuilt by a visitor (CloneWithChildren).
WithChildren(e, l, r) == IF e.kind \in Binary THEN [e EXCEPT !.l = l, !.r = r] ELSE e

RECURSIVE ColumnsOf(_)
ColumnsOf(e) ==
    CASE e.kind = "column" -> {e}
      [] e.kind \in Binary -> ColumnsOf(e.l) \cup ColumnsOf(e.r)
      [] OTHER -> {}

-----------------------------------------------------------------------------
(* Schemas that nodes infer.                                               *)

Unnamed == <<"<unnamed>">>
VarcharDefaultLength == 128
ColumnOfType(name, t) == IF t = "VARCHAR" THEN VarlenColumn(name, VarcharDefaultLength) ELSE FixedColumn(name, t)

-----------------------------------------------------------------------------
(* Nodes.                                                                  *)

NoFilter == [kind |-> "none"]
SeqScanPlanNode(schema, table, filter) ==
    [kind |-> "seq_scan", schema |-> schema, children |-> <<>>, table |-> table, pred |-> filter]
MockScanPlanNode(schema, table) == [kind |-> "mock_scan", schema |-> schema, children |-> <<>>, table |-> table]
IndexScanPlanNode(schema, index) == [kind |-> "index_scan", schema |-> schema, children |-> <<>>, index |-> index]
ValuesPlanNode(schema, rows) == [kind |-> "values", schema |-> schema, children |-> <<>>, rows |-> rows]
FilterPlanNode(schema, pred, child) ==
    [kind |-> "filter", schema |-> schema, children |-> <<child>>, pred |-> pred]
ProjectionPlanNode(schema, exprs, child) ==
    [kind |-> "projection", schema |-> schema, children |-> <<child>>, exprs |-> exprs]
NestedLoopJoinPlanNode(schema, left, right, pred, type) ==
    [kind |-> "nlj", schema |-> schema, children |-> <<left, right>>, pred |-> pred, type |-> type]
NestedIndexJoinPlanNode(schema, child, key, index, inner, type) ==
    [kind |-> "index_join", schema |-> schema, children |-> <<child>>, key |-> key, index |-> index,
     inner |-> inner, type |-> type]
HashJoinPlanNode(schema, left, right, lkey, rkey, type) ==
    [kind |-> "hash_join", schema |-> schema, children |-> <<left, right>>, lkey |-> lkey, rkey |-> rkey,
     type |-> type]
AggregationPlanNode(schema, child, groups, aggs, origin) ==
    [kind |-> "aggregation", schema |-> schema, children |-> <<child>>, groups |-> groups, aggs |-> aggs,
     origin |-> origin]
SortPlanNode(schema, child, order) == [kind |-> "sort", schema |-> schema, children |-> <<child>>, order |-> order]
LimitPlanNode(schema, child, n) == [kind |-> "limit", schema |-> schema, children |-> <<child>>, n |-> n]
InsertPlanNode(schema, child, table) ==
    [kind |-> "insert", schema |-> schema, children |-> <<child>>, table |-> table]
DeletePlanNode(schema, child, table) ==
    [kind |-> "delete", schema |-> schema, children |-> <<child>>, table |-> table]
UpdatePlanNode(schema, child, table, exprs) ==
    [kind |-> "update", schema |-> schema, children |-> <<child>>, table |-> table, exprs |-> exprs]

CloneWithChildren(plan, children) == [plan EXCEPT !.children = children]

InferScanSchema(bound, columns) == [i \in DOMAIN columns |-> Renamed(<<bound>> \o columns[i].name, columns[i])]
InferJoinSchema(left, right) == left.schema \o right.schema
InferProjectionSchema(exprs) == [i \in DOMAIN exprs |-> ColumnOfType(Unnamed, exprs[i].type)]
InferAggSchema(groups, aggs) ==
    [i \in DOMAIN groups |-> ColumnOfType(Unnamed, groups[i].type)] \o
    [i \in DOMAIN aggs |-> FixedColumn(Unnamed, "INTEGER")]
\* RenameSchema throws if the number of names is not that of the columns.
CanRenameSchema(schema, names) == Len(schema) = Len(names)
RenameSchema(schema, names) == [i \in DOMAIN schema |-> Renamed(names[i], schema[i])]

-----------------------------------------------------------------------------
(* What a plan means: the sequence of the rows it should produce.          *)

NullRow(schema) == [i \in DOMAIN schema |-> GetNullValueByType(schema[i].type)]

\* AggregateKey::operator== : every pair of group-by values must compare as equal,
\* so a key with a NULL equals no key, not even itself.
Equal(v, w) == Compare("=", v, w) = "CmpTrue"
SameKey(x, y) == \A i \in DOMAIN x : Equal(x[i], y[i])
Keys(rows, groups) == [i \in DOMAIN rows |-> [g \in DOMAIN groups |-> Evaluate(groups[g], rows[i])]]

Numbers(agg, rows) == SelectSeq([i \in DOMAIN rows |-> Evaluate(agg.expr, rows[i])], LAMBDA v : ~v.null)
\* SQL's aggregate functions: NULLs do not count, and there is no least of nothing.
AggregateOf(func, vs) ==
    LET ns == [i \in DOMAIN vs |-> GetAs(vs[i])]
    IN  IF func # "count" /\ vs = <<>> THEN NullInt
        ELSE Integer(CASE func = "count" -> Len(vs)
                       [] func = "sum" -> FoldLeft(+, 0, ns)
                       [] func = "min" -> Min(ToSet(ns))
                       [] func = "max" -> Max(ToSet(ns)))
Aggregate(agg, rows) ==
    IF agg.kind = "count_star" THEN Integer(Len(rows)) ELSE AggregateOf(agg.kind, Numbers(agg, rows))
\* One row per group, in the order in which the groups first occur; without GROUP BY
\* there is exactly one group, even of no rows.
Aggregated(plan, rows) ==
    LET Row(key, members) ==
            key \o [a \in DOMAIN plan.aggs |-> Aggregate(plan.aggs[a], [k \in DOMAIN members |-> rows[members[k]]])]
        Members(i, keys) == SelectSeq([j \in DOMAIN keys |-> j], LAMBDA j : j = i \/ SameKey(keys[j], keys[i]))
        Groups(keys) == SelectSeq([i \in DOMAIN keys |-> [first |-> i, key |-> keys[i], members |-> Members(i, keys)]],
                                  LAMBDA g : g.first = Head(g.members))
        RowsOf(groups) == [k \in DOMAIN groups |-> Row(groups[k].key, groups[k].members)]
    IN  RowsOf(IF plan.groups = <<>> THEN <<[key |-> <<>>, members |-> [i \in DOMAIN rows |-> i]]>>
               ELSE Groups(Keys(rows, plan.groups)))

\* Whether a row comes before another: NULL sorts below every value.
Below(v, w) == (v.null /\ ~w.null) \/ Compare("<", v, w) = "CmpTrue"
\* The rows, by keys with a direction each; rows whose keys tie stay in their order.
SortedBy(rows, keys, order) ==
    LET Ids == DOMAIN rows
        Pairs == {t \in (DOMAIN order) \X Ids \X Ids : Below(keys[t[2]][t[1]], keys[t[3]][t[1]])}
        Ranked(less) ==
            LET Ahead(o, i, j) == IF order[o].by = "desc" THEN <<o, j, i>> \in less ELSE <<o, i, j>> \in less
                Tied(p, i, j) == \A o \in 1..(p - 1) : {<<o, i, j>>, <<o, j, i>>} \cap less = {}
                Before(i, j) == \E o \in DOMAIN order : Ahead(o, i, j) /\ Tied(o, i, j)
                Rank(i) == Cardinality({j \in Ids : Before(j, i) \/ (j < i /\ ~Before(i, j))})
            IN  [k \in Ids |-> rows[CHOOSE i \in Ids : Rank(i) = k - 1]]
    IN  Ranked(Pairs)
Sorted(rows, order) ==
    SortedBy(rows, [i \in DOMAIN rows |-> [o \in DOMAIN order |-> Evaluate(order[o].expr, rows[i])]], order)

Joined(left, right, rschema, type, Matches(_, _)) ==
    LET Rows(l, partners) ==
            IF partners = <<>> /\ type = "LEFT" THEN <<l \o NullRow(rschema)>>
            ELSE [k \in DOMAIN partners |-> l \o partners[k]]
    IN  FlattenSeq([i \in DOMAIN left |-> Rows(left[i], SelectSeq(right, LAMBDA r : Matches(left[i], r)))])
\* A join predicate may be the text 'true'.
Holding(v) == Accepts(IF v.type = "VARCHAR" THEN CastAs(v, "BOOLEAN") ELSE v)

\* The rows that an index leads to, in the order of its keys: by the entries it has, and
\* by those it would have if every row of the table had been taken into it.
InKeyOrder(index, rows) ==
    LET ByKey(a) == [by |-> "asc", expr |-> ColumnValueExpression(0, index.attrs[a], "INTEGER")]
    IN  Sorted(rows, [a \in DOMAIN index.attrs |-> ByKey(a)])
IndexedRows(index) ==
    InKeyOrder(index, [k \in DOMAIN index.entries |-> GetTable(index.table).rows[index.entries[k]]])
AllRows(index) == InKeyOrder(index, GetTable(index.table).rows)
\* The rows that a predicate keeps.
Filtered(rows, pred) == SelectSeq(rows, LAMBDA row : Holding(Evaluate(pred, row)))
\* What the sides of a join have to satisfy: an index or a hash join equates two keys.
JoinPredicate(plan) ==
    CASE plan.kind = "nlj" -> plan.pred
      [] plan.kind = "hash_join" -> ComparisonExpression("=", plan.lkey, [plan.rkey EXCEPT !.tuple = 1])
      [] plan.kind = "index_join" ->
            ComparisonExpression("=", plan.key, ColumnValueExpression(1, GetIndexByOid(plan.index).attrs[1], "INTEGER"))

\* The rows that a node takes from its children, from an index, and from a table.
UsesIndex(plan) == plan.kind \in {"index_scan", "index_join"}
Inputs(plan, children, RowsOf(_)) ==
    children \o
    (IF UsesIndex(plan) THEN <<RowsOf(GetIndexByOid(plan.index))>> ELSE <<>>) \o
    (IF plan.kind \in {"seq_scan", "mock_scan"} THEN <<GetTable(plan.table).rows>> ELSE <<>>)
MeaningOf(plan, in) ==
    CASE plan.kind \in {"mock_scan", "index_scan"} \/ (plan.kind = "seq_scan" /\ plan.pred = NoFilter) -> in[1]
      [] plan.kind = "filter" \/ (plan.kind = "seq_scan" /\ plan.pred # NoFilter) -> Filtered(in[1], plan.pred)
      [] plan.kind = "values" ->
            [i \in DOMAIN plan.rows |-> [k \in DOMAIN plan.rows[i] |-> Evaluate(plan.rows[i][k], <<>>)]]
      [] plan.kind = "projection" ->
            [i \in DOMAIN in[1] |-> [k \in DOMAIN plan.exprs |-> Evaluate(plan.exprs[k], in[1][i])]]
      [] plan.kind \in {"nlj", "index_join", "hash_join"} ->
            LET Matches(l, r) == Holding(EvaluateJoin(JoinPredicate(plan), l, r)) IN
            Joined(in[1], in[2], IF plan.kind = "index_join" THEN plan.inner ELSE plan.children[2].schema,
                   plan.type, Matches)
      [] plan.kind = "aggregation" -> Aggregated(plan, in[1])
      [] plan.kind = "sort" -> Sorted(in[1], plan.order)
      [] plan.kind = "limit" -> SubSeq(in[1], 1, Min({plan.n, Len(in[1])}))
MeaningWith(plan, RowsOf(_)) ==
    LET RECURSIVE Rows(_)
        Rows(p) == MeaningOf(p, Inputs(p, [i \in DOMAIN p.children |-> Rows(p.children[i])], RowsOf))
    IN  Rows(plan)
Meaning(plan) == MeaningWith(plan, IndexedRows)
\* Whether the indexes a plan uses lead to every row of their tables.
RECURSIVE IndexesComplete(_)
IndexesComplete(plan) ==
    /\ UsesIndex(plan) => IndexedRows(GetIndexByOid(plan.index)) = AllRows(GetIndexByOid(plan.index))
    /\ \A i \in DOMAIN plan.children : IndexesComplete(plan.children[i])

\* A query whose last steps are a sort and a limit promises an order; others promise a bag.
RECURSIVE Ordered(_)
Ordered(plan) == plan.kind = "sort" \/ (plan.kind \in {"limit", "projection", "filter"} /\ Ordered(plan.children[1]))
HasRowsOf(x, y) == ToSet(y) \subseteq ToSet(x)
SameRows(x, y) == Len(x) = Len(y) /\ \A r \in ToSet(x) \cup ToSet(y) :
    Cardinality({i \in DOMAIN x : x[i] = r}) = Cardinality({i \in DOMAIN y : y[i] = r})

=============================================================================
