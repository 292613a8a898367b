------------------------------- MODULE Binder -------------------------------
(***************************************************************************)
(* The binder: from a parse tree to a bound statement, in which every name *)
(* is resolved against the tables in scope.  The parser is not part of     *)
(* this code; a parse tree is a record of the kind that libpg_query's node *)
(* tags distinguish, with the fields that the binder reads.                *)
(*                                                                         *)
(* The two pointers of Binder, scope_ and cte_scope_, are parameters here: *)
(* NewContext resets the one, keeps the other, and restores both.  Names   *)
(* drawn from universal_id_ are made of the place `at' of the node in the  *)
(* statement instead: all that matters is that no two are the same.  A     *)
(* BoundExpression that is not there (INVALID) is NoExpr.                  *)
(***************************************************************************)
EXTENDS Plans

LOCAL INSTANCE SequencesExt

CONSTANTS
    Lower(_),         \* StringUtil::Lower on the identifiers in use
    InternalTables    \* the names of tables that start with two underscores

NoExpr == [kind |-> "invalid"]
NoScope == [kind |-> "invalid"]
NoCtes == <<>>        \* a null cte_scope_, or an empty one

\* A node is what it is built from, or the first error met in building it.
Strict(parts, node) ==
    LET errors == SelectSeq(parts, IsError) IN IF errors = <<>> THEN node ELSE Head(errors)
\* What comes after a node, or a list of nodes, unless an exception ended it.
Then(node, Rest(_)) == IF IsError(node) THEN node ELSE Rest(node)
ThenAll(parts, Rest(_)) == Strict(parts, Rest(parts))
Digit == <<"0", "1", "2", "3", "4", "5">>
Fresh(prefix, at) == prefix \o at

-----------------------------------------------------------------------------
(* Bound expressions and table references.                                 *)

BoundColumnRef(name) == [kind |-> "column_ref", name |-> name]
Prepend(ref, prefix) == IF ref.kind = "column_ref" THEN BoundColumnRef(<<prefix>> \o ref.name) ELSE ref
BoundConstant(v) == [kind |-> "constant", value |-> v]
BoundStar == [kind |-> "star"]
BoundAlias(alias, child) == [kind |-> "alias", alias |-> alias, child |-> child]
BoundBinaryOp(op, l, r) == [kind |-> "binary_op", op |-> op, l |-> l, r |-> r]
BoundUnaryOp(op, arg) == [kind |-> "unary_op", op |-> op, arg |-> arg]
BoundAggCall(func, distinct, args) == [kind |-> "agg_call", func |-> func, distinct |-> distinct, args |-> args]

RECURSIVE HasAggregation(_)
HasAggregation(e) ==
    CASE e.kind = "agg_call" -> TRUE
      [] e.kind = "alias" -> HasAggregation(e.child)
      [] e.kind = "binary_op" -> HasAggregation(e.l) \/ HasAggregation(e.r)
      [] e.kind = "unary_op" -> HasAggregation(e.arg)
      [] OTHER -> FALSE

EmptyRef == [kind |-> "empty"]
BoundBaseTableRef(table, alias, schema) == [kind |-> "base", table |-> table, alias |-> alias, schema |-> schema]
GetBoundTableName(ref) == IF ref.alias # "" THEN ref.alias ELSE ref.table
BoundCrossProductRef(l, r) == [kind |-> "cross", l |-> l, r |-> r]
BoundJoinRef(type, l, r, on) == [kind |-> "join", type |-> type, l |-> l, r |-> r, on |-> on]
BoundSubqueryRef(select, names, alias) ==
    [kind |-> "subquery", select |-> select, select_list_name |-> names, alias |-> alias]
BoundCTERef(cte_name, alias) == [kind |-> "cte", cte_name |-> cte_name, alias |-> alias]
BoundExpressionListRef(rows, identifier) == [kind |-> "values", rows |-> rows, identifier |-> identifier]

\* All clauses of a SELECT; `at' identifies the statement.
SelectStatement(table, list, where, group, having, limit, offset, sort, ctes, distinct, at) ==
    [kind |-> "select", table |-> table, list |-> list, where |-> where, group |-> group, having |-> having,
     limit |-> limit, offset |-> offset, sort |-> sort, ctes |-> ctes, distinct |-> distinct, at |-> at]

BoundOrderBy(by, expr) == [kind |-> "order_by", by |-> by, expr |-> expr]
InsertStatement(table, select) == [kind |-> "insert", table |-> table, select |-> select]
DeleteStatement(table, expr) == [kind |-> "delete", table |-> table, expr |-> expr]
UpdateStatement(table, filter, cols, exprs) ==
    [kind |-> "update", table |-> table, filter |-> filter, cols |-> cols, exprs |-> exprs]
CreateStatement(table, columns) == [kind |-> "create", table |-> table, columns |-> columns]
IndexStatement(name, table, cols) == [kind |-> "index", name |-> name, table |-> table, cols |-> cols]
VariableSetStatement(variable, value) == [kind |-> "set", variable |-> variable, value |-> value]
VariableShowStatement(variable) == [kind |-> "show", variable |-> variable]
ExplainStatement(statement) == [kind |-> "explain", statement |-> statement]

-----------------------------------------------------------------------------
(* Resolving names.  NoExpr stands for a null pointer: not found.          *)

\* The one candidate, none, or an ambiguity.
OnlyOne(candidates) ==
    CASE Len(candidates) = 0 -> NoExpr
      [] Len(candidates) = 1 -> Head(candidates)
      [] OTHER -> Error("ambiguous")
Either(l, r) ==
    CASE IsError(l) -> l
      [] ~IsError(l) /\ IsError(r) -> r
      [] l # NoExpr /\ r # NoExpr /\ ~IsError(l) /\ ~IsError(r) -> Error("ambiguous")
      [] OTHER -> IF l # NoExpr THEN l ELSE r

ResolveColumnRefFromSchema(schema, name) ==
    LET matching == SelectSeq(schema, LAMBDA col : Lower(col.name[1]) = name[1]) IN
    IF Len(name) # 1 THEN NoExpr ELSE OnlyOne([i \in DOMAIN matching |-> BoundColumnRef(matching[i].name)])

ResolveColumnRefFromBaseTableRef(ref, name) ==
    LET bound == GetBoundTableName(ref)
        direct == Prepend(ResolveColumnRefFromSchema(ref.schema, name), bound)
        strip == IF Len(name) > 1 /\ name[1] = bound
                 THEN Prepend(ResolveColumnRefFromSchema(ref.schema, Tail(name)), bound)
                 ELSE NoExpr
    IN  Either(strip, direct)

LowerName(name) == [i \in DOMAIN name |-> Lower(name[i])]
MatchSuffix(suffix, full) ==
    LET lower == LowerName(full) IN
    Len(suffix) <= Len(lower) /\ suffix = SubSeq(lower, Len(lower) - Len(suffix) + 1, Len(lower))
ResolveColumnRefFromSelectList(names, name) ==
    LET matching == SelectSeq(names, LAMBDA full : MatchSuffix(name, full)) IN
    OnlyOne([i \in DOMAIN matching |-> BoundColumnRef(matching[i])])
\* The result carries the subquery's own alias, also when a CTE is used under another.
ResolveColumnRefFromSubqueryRef(ref, alias, name) ==
    LET direct == Prepend(ResolveColumnRefFromSelectList(ref.select_list_name, name), ref.alias)
        strip == IF Len(name) > 1 /\ name[1] = alias
                 THEN Prepend(ResolveColumnRefFromSelectList(ref.select_list_name, Tail(name)), ref.alias)
                 ELSE NoExpr
    IN  Either(strip, direct)

\* The first CTE of a name (0: there is none).
CTENamed(ctes, name) ==
    LET is == {i \in DOMAIN ctes : ctes[i].alias = name} IN IF is = {} THEN 0 ELSE CHOOSE i \in is : \A j \in is : i <= j

RECURSIVE ResolveColumnInternal(_, _, _)
ResolveColumnInternal(ref, name, ctes) ==
    CASE ref.kind = "base" -> ResolveColumnRefFromBaseTableRef(ref, name)
      [] ref.kind \in {"cross", "join"} ->
            Either(ResolveColumnInternal(ref.l, name, ctes), ResolveColumnInternal(ref.r, name, ctes))
      [] ref.kind = "subquery" -> ResolveColumnRefFromSubqueryRef(ref, ref.alias, name)
      [] ref.kind = "cte" -> ResolveColumnRefFromSubqueryRef(ctes[CTENamed(ctes, ref.cte_name)], ref.alias, name)
      [] OTHER -> Error("unsupported TableReferenceType")
\* Inside VALUES there is no scope, and *scope_ dereferences a null pointer.
ResolveColumn(scope, name, ctes) ==
    LET Found(ref) == IF ref = NoExpr THEN Error("column not found") ELSE ref
    IN  IF scope = NoScope THEN Error("crash") ELSE Found(ResolveColumnInternal(scope, name, ctes))

RECURSIVE GetAllColumns(_, _)
GetAllColumns(ref, ctes) ==
    CASE ref.kind = "base" ->
            [i \in DOMAIN ref.schema |-> BoundColumnRef(<<GetBoundTableName(ref)>> \o ref.schema[i].name)]
      [] ref.kind \in {"cross", "join"} -> GetAllColumns(ref.l, ctes) \o GetAllColumns(ref.r, ctes)
      [] ref.kind = "subquery" ->
            [i \in DOMAIN ref.select_list_name |-> Prepend(BoundColumnRef(ref.select_list_name[i]), ref.alias)]
      [] ref.kind = "cte" ->
            LET columns == GetAllColumns(ctes[CTENamed(ctes, ref.cte_name)], ctes) IN
            [i \in DOMAIN columns |-> BoundColumnRef(<<ref.alias>> \o Tail(columns[i].name))]
      [] OTHER -> <<Error("select * cannot be used with this TableReferenceType")>>

-----------------------------------------------------------------------------
(* Binding expressions.                                                    *)

\* An integer, a text or NULL, which is an INTEGER.
BindConstant(v) == BoundConstant(IF v.null THEN NullInt ELSE v)
AggregateFunctions == {"min", "max", "first", "last", "sum", "count"}
BindFuncCall(name, distinct, args) ==
    IF name \in AggregateFunctions
    THEN Strict(args, BoundAggCall(IF name = "count" /\ args = <<>> THEN "count_star" ELSE name, distinct, args))
    ELSE Error("unsupported func call")
BindAExpr(op, args) ==
    Strict(args, CASE Len(args) = 2 -> BoundBinaryOp(op, args[1], args[2])
                   [] Len(args) = 1 -> BoundUnaryOp(op, args[1]))
StarFree(exprs) == [i \in DOMAIN exprs |-> IF exprs[i].kind = "star" THEN Error("unsupport * in list") ELSE exprs[i]]
\* The operator's name is read, and then "and" is built for OR as well.
BoolOp(op) == "and"
BindBoolExpr(op, args) ==
    Strict(args, IF op = "not"
                 THEN IF Len(args) = 1 THEN BoundUnaryOp("not", args[1]) ELSE Error("NOT should have 1 arg")
                 ELSE IF Len(args) <= 1 THEN Error("AND should have at least 1 arg")
                 ELSE FoldLeft(LAMBDA e, a : BoundBinaryOp(BoolOp(op), e, a), Head(args), Tail(args)))

BindColumnRef(e, scope, ctes) == ResolveColumn(scope, e.name, ctes)
RECURSIVE BindExpression(_, _, _)
BindResTarget(e, scope, ctes) ==
    Then(BindExpression(e.val, scope, ctes), LAMBDA child : IF e.name = "" THEN child ELSE BoundAlias(e.name, child))
BindExpression(e, scope, ctes) ==
    LET Args == [i \in DOMAIN e.args |-> BindExpression(e.args[i], scope, ctes)] IN
    CASE e.tag = "ColumnRef" -> BindColumnRef(e, scope, ctes)
      [] e.tag = "AStar" -> BoundStar
      [] e.tag = "AConst" -> BindConstant(e.value)
      [] e.tag = "ResTarget" -> BindResTarget(e, scope, ctes)
      [] e.tag = "FuncCall" -> BindFuncCall(e.func, e.distinct, Args)
      [] e.tag = "AExpr" -> BindAExpr(e.op, Args)
      [] e.tag = "BoolExpr" -> BindBoolExpr(e.op, StarFree(Args))
      [] OTHER -> Error("Expr not implemented")

BindExpressionList(list, scope, ctes) ==
    StarFree([i \in DOMAIN list |-> BindExpression(list[i], scope, ctes)])
BindSelectList(list, scope, ctes) ==
    LET Expanded(exprs) ==
            LET star == \E i \in DOMAIN exprs : exprs[i].kind = "star"
            IN  CASE star /\ Len(exprs) = 1 -> GetAllColumns(scope, ctes)
                  [] star /\ Len(exprs) > 1 -> <<Error("select * cannot have other expressions in list")>>
                  [] OTHER -> exprs
    IN  Expanded([i \in DOMAIN list |-> BindExpression(list[i], scope, ctes)])
BindOptional(e, scope, ctes) == IF e = NoExpr THEN NoExpr ELSE BindExpression(e, scope, ctes)
BindSort(list, scope, ctes) ==
    [i \in DOMAIN list |-> Then(BindExpression(list[i].node, scope, ctes), LAMBDA e : BoundOrderBy(list[i].by, e))]

-----------------------------------------------------------------------------
(* Binding tables and SELECT.                                              *)

BindBaseTableRef(name, alias) ==
    IF GetTable(name) = NullTable THEN Error("invalid table")
    ELSE BoundBaseTableRef(name, alias, GetTable(name).schema)
BindRangeVar(name, alias, ctes) ==
    IF CTENamed(ctes, name) # 0 THEN BoundCTERef(name, IF alias # "" THEN alias ELSE name)
    ELSE BindBaseTableRef(name, alias)

SubqueryName(e, at) ==
    CASE e.kind = "column_ref" -> e.name
      [] e.kind = "alias" -> <<e.alias>>
      [] OTHER -> <<Fresh("__item#", at)>>

\* VALUES: every other clause of the statement is dropped.
BoundValues(rows, name, at) ==
    IF \E i \in DOMAIN rows : Len(rows[i]) # Len(rows[1]) THEN Error("values must have the same length")
    ELSE Strict(FlattenSeq(rows),
            SelectStatement(BoundExpressionListRef(rows, name),
                            [k \in DOMAIN rows[1] |-> BoundColumnRef(<<name, Digit[k]>>)],
                            NoExpr, <<>>, NoExpr, NoExpr, NoExpr, <<>>, <<>>, FALSE, at))
BindValues(lists, at) ==
    BoundValues([i \in DOMAIN lists |-> BindExpressionList(lists[i], NoScope, NoCtes)], Fresh("__values#", at), at)

RECURSIVE BindSelect(_, _, _), BindTableRef(_, _, _)
BindSubquery(q, alias, ctes, at) ==
    Then(BindSelect(q, ctes, at), LAMBDA select :
         BoundSubqueryRef(select, [i \in DOMAIN select.list |-> SubqueryName(select.list[i], at \o Digit[i])], alias))
BindRangeSubselect(t, ctes, at) ==
    IF t.lateral THEN Error("LATERAL in subquery is not supported")
    ELSE BindSubquery(t.query, IF t.alias # "" THEN t.alias ELSE Fresh("__subquery#", at), ctes, at \o "s")
\* A CTE sees the CTEs of the enclosing statement, and not its siblings.
BindCTE(with, ctes, at) ==
    [i \in DOMAIN with |-> BindSubquery(with[i].query, with[i].name, ctes, at \o "w" \o Digit[i])]
BindJoin(t, ctes, at) ==
    LET On(l, r) == Then(BindExpression(t.on, BoundJoinRef(t.type, l, r, NoExpr), ctes),
                         LAMBDA on : BoundJoinRef(t.type, l, r, on))
    IN  IF t.type \notin {"INNER", "LEFT", "OUTER", "RIGHT"} THEN Error("Join type not supported")
        ELSE Then(BindTableRef(t.l, ctes, at \o "l"), LAMBDA l :
                  Then(BindTableRef(t.r, ctes, at \o "r"), LAMBDA r : On(l, r)))
BindTableRef(t, ctes, at) ==
    CASE t.tag = "RangeVar" -> BindRangeVar(t.name, t.alias, ctes)
      [] t.tag = "JoinExpr" -> BindJoin(t, ctes, at)
      [] t.tag = "RangeSubselect" -> BindRangeSubselect(t, ctes, at)
      [] OTHER -> Error("unsupported node type")
BindFrom(list, ctes, at) ==
    IF list = <<>> THEN EmptyRef
    ELSE ThenAll([i \in DOMAIN list |-> BindTableRef(list[i], ctes, at \o "f" \o Digit[i])],
                 LAMBDA refs : FoldLeft(BoundCrossProductRef, Head(refs), Tail(refs)))

\* The clauses after WITH and FROM, bound in the order of the code.
BoundSelect(table, list, where, group, having, limit, offset, sort, with, distinct, at) ==
    Strict(list \o <<where>> \o group \o <<having, limit, offset>> \o sort,
           SelectStatement(table, list, where, group, having, limit, offset, sort, with, distinct, at))
BindClauses(q, table, with, ctes, at) ==
    LET Optional(clause) == BindOptional(clause, table, ctes)
        bound == [where |-> q.where, having |-> q.having, limit |-> q.limit, offset |-> q.offset]
        BoundWith(optional) ==
            BoundSelect(table, BindSelectList(q.list, table, ctes), optional.where,
                        BindExpressionList(q.group, table, ctes), optional.having, optional.limit,
                        optional.offset, BindSort(q.sort, table, ctes), with, q.distinct, at)
    IN  CASE q.unsupported -> Error("DISTINCT ON is not supported")
          [] ~q.unsupported /\ q.list = <<>> -> Error("no select list")
          [] OTHER -> BoundWith([c \in DOMAIN bound |-> Optional(bound[c])])
BindSelect(q, parents, at) ==
    LET From(with, ctes) ==
            Then(BindFrom(q.from, ctes, at), LAMBDA table : BindClauses(q, table, with, ctes, at))
    IN  IF q.values # <<>> THEN BindValues(q.values, at)
        ELSE ThenAll(BindCTE(q.with, parents, at), LAMBDA with : From(with, IF q.with = <<>> THEN parents ELSE with))

-----------------------------------------------------------------------------
(* The other statements.                                                   *)

BindInsert(stmt) ==
    IF stmt.cols # <<>> THEN Error("insert only supports all columns")
    ELSE Then(BindBaseTableRef(stmt.relname, ""), LAMBDA table :
              IF stmt.relname \in InternalTables THEN Error("invalid table for insert")
              ELSE Then(BindSelect(stmt.select, NoCtes, "i"), LAMBDA select : InsertStatement(table, select)))

WhereOrTrue(where, table) ==
    IF where = NoExpr THEN BoundConstant(GetBooleanValue("CmpTrue")) ELSE BindExpression(where, table, NoCtes)
BindDelete(stmt) ==
    Then(BindBaseTableRef(stmt.relname, ""), LAMBDA table :
         Then(WhereOrTrue(stmt.where, table), LAMBDA expr : DeleteStatement(table, expr)))
\* A target that is no column of the table is bound to a null pointer.
BindUpdate(stmt) ==
    LET Bound(table, filter, cols, exprs) ==
            Strict(<<filter>> \o cols \o exprs, UpdateStatement(table, filter, cols, exprs))
        On(table) ==
            Bound(table, WhereOrTrue(stmt.where, table),
                  [i \in DOMAIN stmt.targets |-> ResolveColumnRefFromBaseTableRef(table, <<stmt.targets[i].name>>)],
                  [i \in DOMAIN stmt.targets |-> BindExpression(stmt.targets[i].val, table, NoCtes)])
    IN  IF stmt.unsupported THEN Error("WITH and FROM of UPDATE are not supported yet")
        ELSE Then(BindBaseTableRef(stmt.relname, ""), On)

\* A column definition has its type's name and the modifiers of the type; the list of
\* the modifiers is dereferenced when there are none.
BindColumnDefinition(def) ==
    LET Varchar_(mods) ==
            CASE mods = <<>> -> Error("crash")
              [] Len(mods) > 1 -> Error("should specify max length for varchar field")
              [] OTHER -> Strict(mods, [kind |-> "column", column |-> VarlenColumn(<<def.name>>, GetAs(mods[1].value))])
    IN
    CASE def.coll -> Error("coll clause on column is not supported")
      [] ~def.coll /\ def.type = "int4" -> [kind |-> "column", column |-> FixedColumn(<<def.name>>, "INTEGER")]
      [] ~def.coll /\ def.type = "varchar" -> Varchar_(BindExpressionList(def.typmods, NoScope, NoCtes))
      [] OTHER -> Error("unsupported type")
BindCreate(stmt) ==
    LET Column(def) ==
            IF def.tag # "ColumnDef" THEN Error("constraints not supported")
            ELSE Then(BindColumnDefinition(def), LAMBDA centry :
                      IF def.constraints THEN Error("constraints not supported") ELSE centry)
    IN  IF stmt.defs = <<>> THEN Error("should have at least 1 column")
        ELSE ThenAll([i \in DOMAIN stmt.defs |-> Column(stmt.defs[i])], LAMBDA columns :
                     CreateStatement(stmt.relname, [i \in DOMAIN columns |-> columns[i].column]))
BindIndex(stmt) ==
    LET Column(table, param) ==
            IF param = "" THEN Error("create index by expr is not supported yet")
            ELSE ResolveColumn(table, <<param>>, NoCtes)
    IN  Then(BindBaseTableRef(stmt.relname, ""), LAMBDA table :
             ThenAll([i \in DOMAIN stmt.params |-> Column(table, stmt.params[i])],
                     LAMBDA cols : IndexStatement(stmt.idxname, table, cols)))

BindVariableSet(stmt) ==
    LET SetTo(args) ==
            CASE Len(args) # 1 -> Error("Only exactly one arg is supported")
              [] Len(args) = 1 /\ args[1].kind # "constant" -> Error("Only constant is supported")
              [] OTHER -> VariableSetStatement(stmt.name, args[1].value)
    IN  SetTo(BindExpressionList(stmt.args, NoScope, NoCtes))
BindVariableShow(stmt) == VariableShowStatement(stmt.name)

RECURSIVE BindStatement(_)
\* Which of the sections EXPLAIN prints is left out.
BindExplain(stmt) ==
    Then(BindStatement(stmt.query), ExplainStatement)
BindStatement(stmt) ==
    CASE stmt.tag = "CreateStmt" -> BindCreate(stmt)
      [] stmt.tag = "InsertStmt" -> BindInsert(stmt)
      [] stmt.tag = "SelectStmt" -> BindSelect(stmt, NoCtes, "q")
      [] stmt.tag = "ExplainStmt" -> BindExplain(stmt)
      [] stmt.tag = "DeleteStmt" -> BindDelete(stmt)
      [] stmt.tag = "UpdateStmt" -> BindUpdate(stmt)
      [] stmt.tag = "IndexStmt" -> BindIndex(stmt)
      [] stmt.tag = "VariableSetStmt" -> BindVariableSet(stmt)
      [] stmt.tag = "VariableShowStmt" -> BindVariableShow(stmt)
      [] OTHER -> Error("not implemented")

=============================================================================
