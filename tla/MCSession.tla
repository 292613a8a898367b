------------------------------ MODULE MCSession ------------------------------
(***************************************************************************)
(* Sessions over three tables with indexes, and four mock tables.  The     *)
(* texts are built from small sets of tables, columns, conditions and      *)
(* select lists, in all combinations, and from single statements for the   *)
(* clauses that remain.  A linear congruence stands for the generator of   *)
(* random numbers.                                                         *)
(***************************************************************************)
EXTENDS Session

MCBits == ("TINYINT" :> 8) @@ ("SMALLINT" :> 14) @@ ("INTEGER" :> 29) @@ ("BIGINT" :> 30)
MCLower(s) == CASE s = "colA" -> "cola" [] s = "colB" -> "colb" [] s = "colE" -> "cole" [] s = "colF" -> "colf" [] OTHER -> s
MCMockTables == {"__mock_table_1", "__mock_table_3", "__mock_table_123", "__mock_t3_1k"}
MCInternalTables == MCMockTables \cup {"__catalog"}

MCDraw(k, min, max) == min + ((7 * k + 3) % (max - min + 1))

Int2(x, y) == <<x, y>>
I(n) == Integer(n)
TableT == [name |-> "t", schema |-> TwoInts("x", "y"), heap |-> TRUE,
           rows |-> <<Int2(I(2), I(1)), Int2(I(1), I(1)), Int2(I(3), NullInt)>>]
TableU == [name |-> "u", schema |-> TwoInts("x", "z"), heap |-> TRUE,
           rows |-> <<Int2(I(3), I(1)), Int2(I(2), I(5))>>]
Mock(name) == [name |-> name, schema |-> GetMockTableSchemaOf(name), heap |-> FALSE, rows |-> MockRows(name)]
TableV == [name |-> "v", schema |-> TwoInts("x", "z"), heap |-> TRUE, rows |-> <<Int2(I(2), I(5))>>]
MCTables == <<TableT, TableU, TableV, Mock("__mock_table_1"), Mock("__mock_table_3"), Mock("__mock_table_123"), Mock("__mock_t3_1k"),
              [name |-> "__catalog", schema |-> TwoInts("x", "y"), heap |-> FALSE, rows |-> <<>>]>>
\* A unique index on t and on u, one on a column with equal values and a NULL, and one
\* whose table has a single row.
MCIndexes == <<[name |-> "ux", table |-> "u", attrs |-> <<1>>], [name |-> "tx", table |-> "t", attrs |-> <<1>>],
               [name |-> "ty", table |-> "t", attrs |-> <<2>>], [name |-> "vx", table |-> "v", attrs |-> <<1>>]>>

-----------------------------------------------------------------------------
(* Parse trees.                                                            *)

Ref(name) == [tag |-> "ColumnRef", name |-> name]
Const(v) == [tag |-> "AConst", value |-> v]
Num(n) == Const(I(n))
Star == [tag |-> "AStar"]
As(e, alias) == [tag |-> "ResTarget", val |-> e, name |-> alias]
Fn(func, args) == [tag |-> "FuncCall", func |-> func, distinct |-> FALSE, args |-> args]
Op(op, l, r) == [tag |-> "AExpr", op |-> op, args |-> <<l, r>>]
Neg(e) == [tag |-> "AExpr", op |-> "-", args |-> <<e>>]
Bool(op, args) == [tag |-> "BoolExpr", op |-> op, args |-> args]
T(name, alias) == [tag |-> "RangeVar", name |-> name, alias |-> alias]
Join(type, l, r, on) == [tag |-> "JoinExpr", type |-> type, l |-> l, r |-> r, on |-> on]
Sub(q, alias) == [tag |-> "RangeSubselect", query |-> q, alias |-> alias, lateral |-> FALSE]
By(e, by) == [node |-> e, by |-> by]
SelectStmt(list, from, where) ==
    [tag |-> "SelectStmt", with |-> <<>>, from |-> from, list |-> list, where |-> where, group |-> <<>>,
     having |-> NoExpr, limit |-> NoExpr, offset |-> NoExpr, sort |-> <<>>, values |-> <<>>, distinct |-> FALSE,
     unsupported |-> FALSE]
From(t) == SelectStmt(<<Star>>, <<t>>, NoExpr)
ValuesStmt(rows) == [SelectStmt(<<>>, <<>>, NoExpr) EXCEPT !.values = rows]
With(name, q, body) == [body EXCEPT !.with = Append(@, [name |-> name, query |-> q])]

x == Ref(<<"x">>)
y == Ref(<<"y">>)
tx == Ref(<<"t", "x">>)
ux == Ref(<<"u", "x">>)
uz == Ref(<<"u", "z">>)
vx == Ref(<<"v", "x">>)
TrueText == Const(Text(<<116, 114, 117, 101>>))
AliasedSum == As(Op("+", x, Num(1)), "p")

\* FROM, WHERE and select list in all combinations.
Froms ==
    { <<T("t", "")>>, <<T("t", "a")>>, <<T("t", ""), T("u", "")>>, <<T("t", ""), T("t", "b"), T("u", "")>>,
      <<Join("INNER", T("t", ""), T("u", ""), Op("=", tx, ux))>>,
      <<Join("LEFT", T("t", ""), T("u", ""), Op("=", ux, tx))>>,
      <<Join("LEFT", T("t", ""), T("u", ""), Op("<", tx, uz))>>,
      <<Sub(SelectStmt(<<AliasedSum, y>>, <<T("t", "")>>, NoExpr), "s")>>,
      <<Sub(SelectStmt(<<y, x>>, <<T("t", "")>>, NoExpr), "t"), T("u", "")>>,
      <<T("__mock_table_1", "t")>> }
Conds ==
    { NoExpr, Op(">", x, Num(1)), Op("=", tx, ux), Op("=", ux, Num(3)), Op("=", y, Ref(<<"a", "x">>)),
      Bool("and", <<Op("<=", tx, Num(2)), Op("!=", y, Num(2))>>),
      Bool("and", <<Op("=", Ref(<<"cola">>), Num(2)), Op("<", Ref(<<"colb">>), Num(900)), Op("=", y, y)>>) }
Lists ==
    { <<Star>>, <<x>>, <<tx, uz>>, <<y, tx>>, <<Ref(<<"s", "p">>), Ref(<<"s", "y">>)>>,
      <<As(Op("-", tx, Num(1)), "k"), ux>>, <<Fn("count", <<>>), Fn("sum", <<tx>>)>>, <<Star, x>>,
      <<Op("+", Fn("max", <<y>>), Fn("min", <<x>>))>>, <<Ref(<<"cola">>), Ref(<<"t", "colb">>)>> }
Combined == {SelectStmt(l, f, c) : l \in Lists, f \in Froms, c \in Conds}

\* The clauses that remain, one query for each of their cases.
FromT(list) == SelectStmt(list, <<T("t", "")>>, NoExpr)
mock == T("__mock_table_3", "m")
Clauses_ ==
    { [FromT(<<y, Fn("count", <<x>>)>>) EXCEPT !.group = <<y>>, !.where = Op("<", x, Num(3))],
      [FromT(<<As(Fn("max", <<x>>), "k"), y, Fn("count", <<>>)>>) EXCEPT !.group = <<y>>, !.where = Op("<", x, Num(3)),
           !.having = Op(">", Fn("sum", <<x>>), Fn("min", <<y>>))],
      [FromT(<<Fn("count", <<>>)>>) EXCEPT !.having = Op(">", Fn("count", <<>>), Num(7))],
      [FromT(<<x>>) EXCEPT !.group = <<y>>], [FromT(<<Fn("first", <<x>>)>>) EXCEPT !.group = <<y>>],
      FromT(<<Fn("sum", <<Fn("count", <<x>>)>>)>>), FromT(<<Fn("abs", <<x>>)>>), FromT(<<Fn("min", <<x, y>>)>>),
      FromT(<<[Fn("count", <<x>>) EXCEPT !.distinct = TRUE]>>), FromT(<<Bool("not", <<Op("=", x, y)>>)>>), FromT(<<Neg(x)>>),
      SelectStmt(<<x>>, <<T("t", "")>>, Op("=", Fn("count", <<>>), Num(1))),
      [FromT(<<As(Op("-", y, y), "k")>>) EXCEPT !.distinct = TRUE, !.where = Op("<", x, Num(3))],
      [FromT(<<Star>>) EXCEPT !.sort = <<By(x, "default")>>], [FromT(<<Star>>) EXCEPT !.sort = <<By(x, "desc")>>, !.limit = Num(2)],
      [FromT(<<y, x>>) EXCEPT !.sort = <<By(y, "asc"), By(x, "desc")>>], [FromT(<<AliasedSum>>) EXCEPT !.sort = <<By(x, "asc")>>],
      [FromT(<<y>>) EXCEPT !.limit = Num(0)], [FromT(<<y>>) EXCEPT !.limit = Num(1), !.offset = Num(1)],
      [FromT(<<y>>) EXCEPT !.limit = Const(Text(<<49>>))], [FromT(<<y>>) EXCEPT !.limit = Const(NullInt)],
      SelectStmt(<<Num(1), As(Op("+", Num(1), Num(2)), "k")>>, <<>>, NoExpr), SelectStmt(<<x>>, <<>>, NoExpr),
      SelectStmt(<<>>, <<T("t", "")>>, NoExpr), From(T("nosuch", "")), From(T("__catalog", "")),
      ValuesStmt(<<<<Num(1), Const(NullInt)>>, <<Op("+", Num(2), Num(3)), Num(4)>>>>),
      ValuesStmt(<<<<Num(1)>>, <<Num(1), Num(2)>>>>), ValuesStmt(<<<<x>>>>), ValuesStmt(<<<<Star>>>>),
      From(Sub(ValuesStmt(<<<<Num(5)>>, <<Num(6)>>>>), "v")), From([Sub(FromT(<<x>>), "") EXCEPT !.lateral = TRUE]),
      From(Sub(FromT(<<x>>), "")), SelectStmt(<<Star>>, <<T("t", "")>>, TrueText),
      SelectStmt(<<Star>>, <<Sub(SelectStmt(<<Star>>, <<T("t", "")>>, Op(">", x, Num(1))), "s")>>, Op("=", y, Num(1))),
      SelectStmt(<<Op("=", x, Const(Text(<<97>>)))>>, <<T("t", "")>>, Op("=", Num(1), Bool("and", <<Op("=", x, x), Op("=", y, y)>>))),
      SelectStmt(<<Op("+", Bool("and", <<Op("=", x, x), Op("=", y, y)>>), x)>>, <<T("t", "")>>, NoExpr),
      FromT(<<Bool("and", <<Op(">", x, Num(9)), Op("=", y, Num(1))>>)>>), SelectStmt(<<Op("*", x, x)>>, <<T("t", "")>>, NoExpr),
      SelectStmt(<<x>>, <<T("t", "")>>, Bool("and", <<Op("=", y, Num(1)), Op("=", y, Num(1)), Op("<", x, Num(9))>>)) }
Joined_(type, left, right, on) == SelectStmt(<<Star>>, <<Join(type, T(left, ""), T(right, ""), on)>>, NoExpr)
Indexed ==
    { [FromT(<<Star>>) EXCEPT !.sort = <<By(y, "asc")>>], [From(T("v", "")) EXCEPT !.sort = <<By(x, "asc")>>] } \cup
    {Joined_(type, "u", "t", Op("=", uz, y)) : type \in {"INNER", "LEFT"}} \cup
    {Joined_(type, "t", "v", Op("=", vx, tx)) : type \in {"INNER", "LEFT"}}
Outer == {[Joined_("LEFT", "t", "u", TrueText) EXCEPT !.where = Op("=", l, r)] : l \in {tx, ux}, r \in {uz, Num(3)}}
Generated == {SelectStmt(<<Ref(<<"col2">>)>>, <<T("test_simple_seq_2", "")>>, Op(">", Ref(<<"col1">>), Num(7)))}
Executed ==
    { SelectStmt(<<Ref(<<"m", "cole">>)>>, <<mock>>, Op(">=", Ref(<<"cole">>), Num(0))), From(mock),
      SelectStmt(<<Op("+", Ref(<<"cole">>), Num(1)), Ref(<<"colf">>)>>, <<mock>>, NoExpr),
      SelectStmt(<<Star>>, <<mock>>, Bool("and", <<Op("<", Ref(<<"cole">>), Num(2)), Op("=", Ref(<<"colf">>), Ref(<<"colf">>))>>)),
      SelectStmt(<<y, x>>, <<T("__mock_t3_1k", "")>>, Op("<", x, Num(150))), From(T("__mock_table_123", "")),
      SelectStmt(<<Op("=", Ref(<<"colf">>), Ref(<<"cole">>))>>, <<mock>>, NoExpr),
      SelectStmt(<<Star>>, <<Join("RIGHT", mock, T("t", ""), Op("=", x, Ref(<<"cole">>)))>>, NoExpr),
      SelectStmt(<<Star>>, <<mock>>, Op("=", Ref(<<"cole">>), Ref(<<"colf">>))), FromT(<<Num(1)>>) }
Ctes ==
    { With("c", FromT(<<AliasedSum, y>>), SelectStmt(<<Ref(<<"p">>), Ref(<<"c", "y">>)>>, <<T("c", "")>>, NoExpr)),
      With("c", FromT(<<x>>), SelectStmt(<<Star>>, <<T("c", "d"), T("c", "")>>, NoExpr)),
      With("c", FromT(<<As(Fn("max", <<x>>), "k")>>), SelectStmt(<<Star>>, <<T("c", "")>>, NoExpr)),
      With("c", FromT(<<As(Fn("max", <<x>>), "k")>>), SelectStmt(<<Star>>, <<T("c", "d"), T("c", "e")>>, NoExpr)),
      With("d", From(T("c", "")), With("c", FromT(<<x>>), From(T("d", "")))),
      With("t", SelectStmt(<<x>>, <<T("u", "")>>, NoExpr), From(T("t", ""))),
      With("c", FromT(<<Num(1)>>), From(T("c", ""))) }
Def(name, type, mods) == [tag |-> "ColumnDef", name |-> name, type |-> type, typmods |-> mods, coll |-> FALSE, constraints |-> FALSE]
CreateStmt(name, defs) == [tag |-> "CreateStmt", relname |-> name, defs |-> defs]
IndexStmt(name, table, params) == [tag |-> "IndexStmt", idxname |-> name, relname |-> table, params |-> params]
InsertStmt(name, select) == [tag |-> "InsertStmt", relname |-> name, cols |-> <<>>, select |-> select]
DeleteStmt(name, where) == [tag |-> "DeleteStmt", relname |-> name, where |-> where]
UpdateStmt(name, targets, where) == [tag |-> "UpdateStmt", relname |-> name, targets |-> targets, where |-> where, unsupported |-> FALSE]
ExplainStmt(stmt) == [tag |-> "ExplainStmt", query |-> stmt]
SetStmt(args) == [tag |-> "VariableSetStmt", name |-> "force_optimizer_starter_rule", args |-> args]
ShowStmt == [tag |-> "VariableShowStmt", name |-> "force_optimizer_starter_rule"]
NewTable == CreateStmt("w", <<Def("x", "int4", <<>>), Def("s", "varchar", <<Num(8)>>)>>)
Definitions ==
    { <<NewTable, IndexStmt("wx", "w", <<"x">>), IndexStmt("wx", "w", <<"x">>)>>, <<NewTable, NewTable>>,
      <<NewTable, IndexStmt("ws", "w", <<"s">>)>>, <<IndexStmt("txy", "t", <<"x", "y">>)>>, <<IndexStmt("tq", "t", <<"q">>)>>,
      <<IndexStmt("mx", "__mock_t3_1k", <<"x">>)>>, <<IndexStmt("ty", "nosuch", <<"y">>)>>,
      <<NewTable, SelectStmt(<<Star>>, <<T("w", ""), T("t", "")>>, Op("=", Ref(<<"w", "x">>), tx))>>,
      <<NewTable, IndexStmt("wx", "w", <<"x">>), SelectStmt(<<Star>>, <<T("t", ""), T("w", "")>>, Op("=", tx, Ref(<<"w", "x">>)))>>,
      <<CreateStmt("w", <<>>)>>, <<CreateStmt("w", <<Def("x", "int8", <<>>)>>)>>, <<CreateStmt("w", <<Def("x", "varchar", <<>>)>>)>>,
      <<CreateStmt("w", <<Def("x", "varchar", <<Num(1), Num(2)>>)>>)>>,
      <<CreateStmt("w", <<[Def("x", "int4", <<>>) EXCEPT !.coll = TRUE]>>)>>,
      <<CreateStmt("w", <<[Def("x", "int4", <<>>) EXCEPT !.constraints = TRUE]>>)>>,
      <<CreateStmt("w", <<Def("x", "int4", <<>>), [Def("x", "int4", <<>>) EXCEPT !.tag = "Constraint"]>>)>>,
      <<IndexStmt("t_", "t", <<"">>)>>, <<[FromT(<<x>>) EXCEPT !.unsupported = TRUE]>>,
      <<[UpdateStmt("t", <<>>, NoExpr) EXCEPT !.unsupported = TRUE]>> }
Modifications ==
    { <<InsertStmt("t", ValuesStmt(<<<<Num(1), Num(2)>>>>))>>, <<InsertStmt("t", ValuesStmt(<<<<Num(1)>>>>))>>,
      <<InsertStmt("t", SelectStmt(<<ux, uz>>, <<T("u", "")>>, NoExpr))>>, <<InsertStmt("__mock_t3_1k", From(T("t", "")))>>,
      <<[InsertStmt("t", From(T("t", ""))) EXCEPT !.cols = <<"x">>]>>, <<InsertStmt("t", From(mock))>>, <<InsertStmt("no", From(mock))>>,
      <<DeleteStmt("t", NoExpr)>>, <<DeleteStmt("t", Op("=", x, Num(1)))>>, <<DeleteStmt("t", Op("=", uz, Num(1)))>>,
      <<UpdateStmt("t", <<[name |-> "y", val |-> Op("+", x, Num(1))], [name |-> "y", val |-> x]>>, Op("=", x, y))>>,
      <<UpdateStmt("t", <<[name |-> "q", val |-> x]>>, NoExpr)>>, <<UpdateStmt("no", <<>>, NoExpr)>>,
      <<SetStmt(<<Const(Text(<<121>>))>>), ShowStmt>>, <<SetStmt(<<Num(1), Num(2)>>)>>, <<SetStmt(<<Op("+", Num(1), Num(1))>>)>>,
      <<ExplainStmt(From(T("t", ""))), ExplainStmt(NewTable)>>, <<ExplainStmt(InsertStmt("no", From(mock)))>>, <<[tag |-> "DropStmt"]>> }
Singles(qs) == {<<q>> : q \in qs}
MCTexts == Singles(Combined \cup Clauses_ \cup Generated \cup Executed \cup Ctes \cup Indexed \cup Outer) \cup Definitions \cup Modifications

=============================================================================
