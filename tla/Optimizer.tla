------------------------------ MODULE Optimizer ------------------------------
(***************************************************************************)
(* The optimizer: rewriting rules, each applied bottom up to the whole     *)
(* plan, one rule after the other.  A rule that throws leaves an Error in  *)
(* the plan.                                                               *)
(***************************************************************************)
EXTENDS Plans

LOCAL INSTANCE SequencesExt

RECURSIVE HasError(_)
HasError(plan) == IsError(plan) \/ \E i \in DOMAIN plan.children : HasError(plan.children[i])

\* A rule rewrites a node whose children it has rewritten before.
BottomUp(plan, Rule(_)) ==
    LET RECURSIVE Rewritten(_)
        Rewritten(p) == Rule(CloneWithChildren(p, [i \in DOMAIN p.children |-> Rewritten(p.children[i])]))
    IN  Rewritten(plan)

-----------------------------------------------------------------------------
(* A projection that changes nothing but names goes.                       *)

SameTypes(x, y) == Len(x) = Len(y) /\ \A i \in DOMAIN x : x[i].type = y[i].type
IsIdentical(exprs) ==
    \A i \in DOMAIN exprs : exprs[i].kind = "column" /\ exprs[i].tuple = 0 /\ exprs[i].col = i

MergeProjection(opt) ==
    IF opt.kind = "projection" /\ SameTypes(opt.children[1].schema, opt.schema) /\ IsIdentical(opt.exprs)
    THEN [opt.children[1] EXCEPT !.schema = opt.schema]
    ELSE opt
OptimizeMergeProjection(plan) == BottomUp(plan, MergeProjection)

-----------------------------------------------------------------------------
(* A filter over a join whose predicate is always true becomes the         *)
(* predicate of the join.                                                  *)

RECURSIVE RewriteExpressionForJoin(_, _, _)
RewriteExpressionForJoin(e, left, right) ==
    IF e.kind = "column"
    THEN CASE e.col <= left -> ColumnValueExpression(0, e.col, e.type)
           [] e.col > left -> ColumnValueExpression(1, e.col - left, e.type)
    ELSE IF e.kind \in Binary
    THEN WithChildren(e, RewriteExpressionForJoin(e.l, left, right), RewriteExpressionForJoin(e.r, left, right))
    ELSE e

\* Casting a constant that is neither a boolean nor a text throws.
PredicateOf(e) == IF e.kind = "constant" THEN CastAs(e.value, "BOOLEAN") ELSE GetBooleanValue("CmpFalse")

MergedPredicate(filter, nlj) ==
    RewriteExpressionForJoin(filter.pred, Len(nlj.children[1].schema), Len(nlj.children[2].schema))

InRange(e, nlj) == \A c \in ColumnsOf(e) : c.tuple = 0 /\ c.col <= Len(nlj.schema)

MergeFilterNLJ(opt) ==
    LET Merge(nlj, value) ==
            CASE Failed(value) -> Error("cannot cast")
              [] ~Failed(value) /\ ~Accepts(value) -> opt
              [] Accepts(value) /\ ~InRange(opt.pred, nlj) -> Error("col_idx not in range")
              [] OTHER -> NestedLoopJoinPlanNode(opt.schema, nlj.children[1], nlj.children[2],
                                                 MergedPredicate(opt, nlj), nlj.type)
    IN  IF opt.kind = "filter" /\ opt.children[1].kind = "nlj"
        THEN Merge(opt.children[1], PredicateOf(opt.children[1].pred))
        ELSE opt
OptimizeMergeFilterNLJ(plan) == BottomUp(plan, MergeFilterNLJ)

-----------------------------------------------------------------------------
(* Equality joins by index, or by hash (a rule that Optimize does not      *)
(* call).                                                                  *)

IsColumnEquality(e) ==
    e.kind = "comparison" /\ e.op = "=" /\ e.l.kind = "column" /\ e.r.kind = "column"
Tuple0(e) == [e EXCEPT !.tuple = 0]
\* An equality between the two sides of a join, whichever way round it is written.
KeyOfSide(e, side) == IF e.l.tuple = side THEN e.l ELSE e.r
CrossesSides(e) == {e.l.tuple, e.r.tuple} = {0, 1}

MatchIndex(table, col) == {i \in GetTableIndexes(table) : i.attrs = <<col>>}

NLJAsIndexJoin(opt) ==
    LET IndexJoin(scan, found) ==
            IF found = {} THEN opt
            ELSE NestedIndexJoinPlanNode(opt.schema, opt.children[1], Tuple0(KeyOfSide(opt.pred, 0)),
                                         (CHOOSE i \in found : TRUE).oid, scan.schema, opt.type)
    IN  IF /\ opt.kind = "nlj" /\ IsColumnEquality(opt.pred) /\ CrossesSides(opt.pred)
           /\ opt.children[2].kind = "seq_scan"
        THEN IndexJoin(opt.children[2], MatchIndex(opt.children[2].table, KeyOfSide(opt.pred, 1).col))
        ELSE opt
OptimizeNLJAsIndexJoin(plan) == BottomUp(plan, NLJAsIndexJoin)

\* Mutant: an outer join becomes an inner one.
AsInnerHashJoin(nlj) ==
    HashJoinPlanNode(nlj.schema, nlj.children[1], nlj.children[2],
                     Tuple0(KeyOfSide(nlj.pred, 0)), Tuple0(KeyOfSide(nlj.pred, 1)), "INNER")
AsHashJoin(nlj) ==
    HashJoinPlanNode(nlj.schema, nlj.children[1], nlj.children[2],
                     Tuple0(KeyOfSide(nlj.pred, 0)), Tuple0(KeyOfSide(nlj.pred, 1)), nlj.type)
NLJAsHashJoin(opt) ==
    IF opt.kind = "nlj" /\ IsColumnEquality(opt.pred) /\ CrossesSides(opt.pred) THEN AsHashJoin(opt) ELSE opt
OptimizeNLJAsHashJoin(plan) == BottomUp(plan, NLJAsHashJoin)

-----------------------------------------------------------------------------
(* Sorting a table by an indexed column is a scan of the index.            *)

AscendingBy(order) == Len(order) = 1 /\ order[1].by \in {"asc", "default"} /\ order[1].expr.kind = "column"
\* The index is recognised by the name of its only column.
IndexesNamed(table, name) ==
    {i \in GetTableIndexes(table) : Len(i.attrs) = 1 /\ GetTable(table).schema[i.attrs[1]].name = name}

OrderByAsIndexScan(opt) ==
    LET IndexScan(found) ==
            IF found = {} THEN opt ELSE IndexScanPlanNode(opt.schema, (CHOOSE i \in found : TRUE).oid)
        NameIn(table, col) == GetTable(table).schema[col].name
    IN  IF opt.kind = "sort" /\ AscendingBy(opt.order) /\ opt.children[1].kind = "seq_scan"
        THEN IndexScan(IndexesNamed(opt.children[1].table, NameIn(opt.children[1].table, opt.order[1].expr.col)))
        ELSE opt
OptimizeOrderByAsIndexScan(plan) == BottomUp(plan, OrderByAsIndexScan)

-----------------------------------------------------------------------------
(* Two rules that Optimize does not call: a filter that is always true     *)
(* goes, and a filter over a scan moves into the scan.                     *)

EliminateTrueFilter(opt) ==
    LET Eliminate(value) ==
            IF Failed(value) THEN Error("cannot cast") ELSE IF Accepts(value) THEN opt.children[1] ELSE opt
    IN  IF opt.kind = "filter" THEN Eliminate(PredicateOf(opt.pred)) ELSE opt
OptimizeEliminateTrueFilter(plan) == BottomUp(plan, EliminateTrueFilter)

TakesFilter(scan) == scan.kind = "seq_scan" /\ scan.pred = NoFilter
MergeFilterScan(opt) ==
    IF opt.kind = "filter" /\ TakesFilter(opt.children[1])
    THEN SeqScanPlanNode(opt.schema, opt.children[1].table, opt.pred)
    ELSE opt
OptimizeMergeFilterScan(plan) == BottomUp(plan, MergeFilterScan)

-----------------------------------------------------------------------------
(* The rules together.                                                     *)

\* The rule is left to be written: it returns the plan.
OptimizeSortLimitAsTopN(plan) == plan

OptimizeCustom(plan) ==
    LET AfterMerging(p) ==
            IF HasError(p) THEN Error("optimizer")
            ELSE OptimizeSortLimitAsTopN(OptimizeOrderByAsIndexScan(OptimizeNLJAsIndexJoin(p)))
    IN  AfterMerging(OptimizeMergeFilterNLJ(OptimizeMergeProjection(plan)))

\* With or without force_starter_rule_, the same rules in the same order.
Optimize(plan) == OptimizeCustom(plan)

=============================================================================
