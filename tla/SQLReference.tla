---------------------------- MODULE SQLReference ----------------------------
(***************************************************************************)
(* What a SELECT means, defined on its parse tree alone, by the names the  *)
(* query is written with: the reference that the binder, the planner and   *)
(* the optimizer together are compared with.  A relation is a list of      *)
(* columns, each a qualifier and a name, and a sequence of rows.  A name   *)
(* that does not denote exactly one column makes an Undefined value, and a *)
(* query one of whose rows holds one has no meaning here.                  *)
(***************************************************************************)
EXTENDS Binder

LOCAL INSTANCE SequencesExt
LOCAL INSTANCE FiniteSetsExt

Absent == [kind |-> "invalid"]     \* a clause that is not there
Undefined == Throw("UNDEFINED")
Col(q, n) == [qual |-> q, name |-> n]
Relation(cols, rows) == [cols |-> cols, rows |-> rows]

\* The value of a name in a row.
Lookup(name, cols, row) ==
    LET Matches(i) == IF Len(name) = 1 THEN cols[i].name = name[1] ELSE cols[i] = Col(name[1], name[2])
        is == {i \in DOMAIN cols : Matches(i)}
    IN  IF Cardinality(is) = 1 THEN row[CHOOSE i \in is : TRUE] ELSE Undefined

\* Kleene's logic: NULL is between false and true.
Truth(v) == IF v.null THEN 1 ELSE IF GetAs(v) = 0 THEN 0 ELSE 2
OfTruth(n) == GetBooleanValue(<<"CmpFalse", "CmpNull", "CmpTrue">>[n + 1])
Logic(op, values) ==
    LET ts == {Truth(values[i]) : i \in DOMAIN values} IN OfTruth(IF op = "and" THEN Min(ts) ELSE Max(ts))

\* An aggregate function over the rows of a group: NULLs do not count.
OverGroup(func, values) ==
    IF SelectSeq(values, Failed) # <<>> THEN Undefined ELSE AggregateOf(func, SelectSeq(values, LAMBDA v : ~v.null))

\* The value of an expression in a row; `group' are the rows that aggregates range over.
RECURSIVE Denotes(_, _, _, _)
Denotes(e, cols, row, group) ==
    LET Applied(args) ==
            CASE SelectSeq(args, Failed) # <<>> \/ (e.tag = "AExpr" /\ Len(args) # 2) -> Undefined
              [] e.tag = "BoolExpr" -> Logic(e.op, args)
              [] e.tag = "AExpr" /\ e.op \in {"+", "-"} -> PerformComputation(e.op, args[1], args[2])
              [] OTHER -> PerformComparison(IF e.op = "!=" THEN "#" ELSE e.op, args[1], args[2])
    IN  CASE e.tag = "ColumnRef" -> Lookup(e.name, cols, row)
          [] e.tag = "AConst" -> e.value
          [] e.tag = "ResTarget" -> Denotes(e.val, cols, row, group)
          [] e.tag = "FuncCall" ->
                IF e.args = <<>> THEN Integer(Len(group))
                ELSE OverGroup(e.func, [i \in DOMAIN group |-> Denotes(e.args[1], cols, group[i], <<>>)])
          [] e.tag \in {"BoolExpr", "AExpr"} -> Applied([i \in DOMAIN e.args |-> Denotes(e.args[i], cols, row, group)])

\* The rows that satisfy a condition, and a row without meaning for each row of which
\* the condition has none.
Satisfying(rows, cond, cols) ==
    LET Kept(row, v) == IF Failed(v) THEN <<(<<Undefined>>)>> ELSE IF Truth(v) = 2 THEN <<row>> ELSE <<>>
    IN  IF cond = Absent THEN rows
        ELSE FlattenSeq([i \in DOMAIN rows |-> Kept(rows[i], Denotes(cond, cols, rows[i], <<>>))])

ProductOf(x, y) ==
    Relation(x.cols \o y.cols,
             FlattenSeq([i \in DOMAIN x.rows |-> [k \in DOMAIN y.rows |-> x.rows[i] \o y.rows[k]]]))
\* Every row of the left with its partners, or with NULLs if it has none and the join is LEFT.
JoinOf(x, y, on, type) ==
    LET cols == x.cols \o y.cols
        Rows(row, pairs) ==
            IF pairs = <<>> /\ type = "LEFT" THEN <<row \o [k \in DOMAIN y.cols |-> NullInt]>> ELSE pairs
        Pairs(row) == Satisfying([k \in DOMAIN y.rows |-> row \o y.rows[k]], on, cols)
    IN  Relation(cols, FlattenSeq([i \in DOMAIN x.rows |-> Rows(x.rows[i], Pairs(x.rows[i]))]))

NameOf(e) ==
    CASE e.tag = "ColumnRef" -> Last(e.name)
      [] e.tag = "ResTarget" -> IF e.name # "" THEN e.name ELSE IF e.val.tag = "ColumnRef" THEN Last(e.val.name) ELSE ""
      [] OTHER -> ""

RECURSIVE Calls(_)
Calls(e) ==
    CASE e.tag = "FuncCall" -> TRUE
      [] e.tag = "ResTarget" -> Calls(e.val)
      [] e.tag \in {"AExpr", "BoolExpr"} -> \E i \in DOMAIN e.args : Calls(e.args[i])
      [] OTHER -> FALSE

\* The rows by their keys, in the order in which the keys first occur.
GroupsOf(rows, keys) ==
    LET firsts == SelectSeq([i \in DOMAIN rows |-> i], LAMBDA i : \A j \in 1..(i - 1) : keys[j] # keys[i])
        Members(key) == SelectSeq([i \in DOMAIN rows |-> i], LAMBDA i : keys[i] = key)
    IN  [k \in DOMAIN firsts |-> [m \in DOMAIN Members(keys[firsts[k]]) |-> rows[Members(keys[firsts[k]])[m]]]]
\* The rows of a query whose FROM and WHERE make up a relation.
Aggregating(q) == q.group # <<>> \/ q.having # Absent \/ \E i \in DOMAIN q.list : Calls(q.list[i])
Projected(q, r) ==
    LET Key(row) == [g \in DOMAIN q.group |-> Denotes(q.group[g], r.cols, row, <<>>)]
        Groups == IF q.group = <<>> THEN <<r.rows>> ELSE GroupsOf(r.rows, [i \in DOMAIN r.rows |-> Key(r.rows[i])])
        \* A group without rows has no row to take a column from.
        FirstOf(group) == IF group = <<>> THEN [k \in DOMAIN r.cols |-> Undefined] ELSE group[1]
        Having(groups) == IF q.having = Absent THEN groups
                          ELSE SelectSeq(groups, LAMBDA g : Truth(Denotes(q.having, r.cols, FirstOf(g), g)) = 2)
        Out(row, group) == [i \in DOMAIN q.list |-> Denotes(q.list[i], r.cols, row, group)]
        OutOf(groups) == [k \in DOMAIN groups |-> Out(FirstOf(groups[k]), groups[k])]
    IN  CASE q.list[1].tag = "AStar" -> r.rows
          [] q.list[1].tag # "AStar" /\ Aggregating(q) -> OutOf(Having(Groups))
          [] OTHER -> [i \in DOMAIN r.rows |-> Out(r.rows[i], <<>>)]

Distinct(q, rows) ==
    LET groups == GroupsOf(rows, rows) IN IF q.distinct THEN [k \in DOMAIN groups |-> groups[k][1]] ELSE rows
\* LIMIT NULL is no limit.
Limited(q, rows) ==
    IF q.limit = Absent \/ q.limit.value.null THEN rows ELSE SubSeq(rows, 1, Min({Len(rows), GetAs(q.limit.value)}))
\* ORDER BY sees the columns of the relation `where'; after an aggregation, those of the
\* result, whose rows are `out'.
InOrder(q, cols, where, out) ==
    LET seen == IF Aggregating(q) THEN Relation(cols, out) ELSE where
        Key(i, o) == Denotes(q.sort[o].node, seen.cols, seen.rows[i], <<>>)
    IN  SortedBy(out, [i \in DOMAIN out |-> [o \in DOMAIN q.sort |-> Key(i, o)]], q.sort)
\* A query whose FROM makes up a relation, and one that is made of VALUES.
Selecting(q, from) ==
    LET cols == IF q.list[1].tag = "AStar" THEN from.cols ELSE [i \in DOMAIN q.list |-> Col("", NameOf(q.list[i]))]
        Where(where) == Relation(cols, Limited(q, Distinct(q, InOrder(q, cols, where, Projected(q, where)))))
    IN  Where(Relation(from.cols, Satisfying(from.rows, q.where, from.cols)))
ValuesOf(values) ==
    Relation([k \in DOMAIN values[1] |-> Col("", "")],
             [i \in DOMAIN values |-> [k \in DOMAIN values[i] |-> Denotes(values[i][k], <<>>, <<>>, <<>>)]])
\* A relation under another name.
CalledAs(r, alias) == Relation([i \in DOMAIN r.cols |-> Col(alias, r.cols[i].name)], r.rows)
BaseTable(info) == Relation([i \in DOMAIN info.schema |-> Col("", Lower(info.schema[i].name[1]))], info.rows)

RECURSIVE Query(_, _), TableOf(_, _)
\* env: the relations that names of CTEs stand for.
TableOf(t, env) ==
    CASE t.tag = "RangeVar" ->
            CalledAs(IF t.name \in DOMAIN env THEN env[t.name] ELSE BaseTable(GetTable(t.name)),
                     IF t.alias # "" THEN t.alias ELSE t.name)
      [] t.tag = "RangeSubselect" -> CalledAs(Query(t.query, env), t.alias)
      [] t.tag = "JoinExpr" -> JoinOf(TableOf(t.l, env), TableOf(t.r, env), t.on, t.type)
Query(q, outer) ==
    LET WithQuery(name) == Query((CHOOSE w \in ToSet(q.with) : w.name = name).query, outer)
        From(env) == FoldLeft(ProductOf, Relation(<<>>, <<(<<>>)>>), [i \in DOMAIN q.from |-> TableOf(q.from[i], env)])
    IN  IF q.values # <<>> THEN ValuesOf(q.values)
        ELSE Selecting(q, From([n \in {q.with[i].name : i \in DOMAIN q.with} |-> WithQuery(n)] @@ outer))

HasMeaning(rows) == \A i \in DOMAIN rows : \A k \in DOMAIN rows[i] : ~Failed(rows[i][k])

=============================================================================
