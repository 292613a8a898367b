------------------------------ MODULE Executors ------------------------------
(***************************************************************************)
(* The executors.  Values, filters, projections and scans of mock tables   *)
(* work; the others are stubs that throw in Init, but for the aggregation, *)
(* which yields no row.  A tree of working executors is a chain, so its    *)
(* state is the cursor of its leaf and, for a shuffled mock table, the     *)
(* order of the rows.                                                      *)
(*                                                                         *)
(* Mock tables have the rows of the code, as many as MaxRows allows.  A    *)
(* text made of emoji or of names is a sequence of codes that differs      *)
(* where the code's text does.                                             *)
(***************************************************************************)
EXTENDS Plans

LOCAL INSTANCE SequencesExt
LOCAL INSTANCE FiniteSetsExt

CONSTANT MaxRows      \* the rows of a mock table that are kept

-----------------------------------------------------------------------------
(* Mock tables.                                                            *)

GraphNodeCnt == 10
TwoInts(a, b) == <<FixedColumn(<<a>>, "INTEGER"), FixedColumn(<<b>>, "INTEGER")>>
Varchar(name, length) == VarlenColumn(<<name>>, length)
AggInput == TwoInts("v1", "v2") \o TwoInts("v3", "v4") \o <<FixedColumn(<<"v5">>, "INTEGER"), Varchar("v6", 128)>>
LeaderboardTables == {"__mock_t1_50k", "__mock_t2_100k", "__mock_t3_1k", "__mock_t4_1m", "__mock_t5_1m", "__mock_t6_1m"}
GetMockTableSchemaOf(table) ==
    CASE table = "__mock_table_1" -> TwoInts("colA", "colB")
      [] table = "__mock_table_2" -> <<Varchar("colC", 128), Varchar("colD", 128)>>
      [] table = "__mock_table_3" -> <<FixedColumn(<<"colE">>, "INTEGER"), Varchar("colF", 128)>>
      [] table = "__mock_table_tas_2022" -> <<Varchar("github_id", 128), Varchar("office_hour", 128)>>
      [] table = "__mock_table_schedule_2022" -> <<Varchar("day_of_week", 128), FixedColumn(<<"has_lecture">>, "INTEGER")>>
      [] table \in {"__mock_agg_input_small", "__mock_agg_input_big"} -> AggInput
      [] table = "__mock_graph" ->
            TwoInts("src", "dst") \o <<Varchar("src_label", 8), Varchar("dst_label", 8), FixedColumn(<<"distance">>, "INTEGER")>>
      [] table = "__mock_table_123" -> <<FixedColumn(<<"number">>, "INTEGER")>>
      [] table \in LeaderboardTables -> TwoInts("x", "y")
      [] table = "__mock_t7" -> <<FixedColumn(<<"v">>, "INTEGER")>> \o TwoInts("v1", "v2")
      [] table = "__mock_t8" -> <<FixedColumn(<<"v4">>, "INTEGER")>>

MockSize ==
    [t \in {"__mock_table_1", "__mock_table_2", "__mock_table_3", "__mock_graph"} |-> 100] @@
    [t \in {"__mock_t3_1k", "__mock_agg_input_small"} |-> 1000] @@
    [t \in {"__mock_t4_1m", "__mock_t5_1m", "__mock_t6_1m", "__mock_t7"} |-> 1000000] @@
    ("__mock_agg_input_big" :> 10000) @@ ("__mock_t1_50k" :> 50000) @@ ("__mock_t2_100k" :> 100000) @@
    ("__mock_table_tas_2022" :> 11) @@ ("__mock_table_schedule_2022" :> 7) @@
    ("__mock_table_123" :> 3) @@ ("__mock_t8" :> 10)
mock_table_list == DOMAIN MockSize
GetSizeOf(table) == IF table \in mock_table_list THEN Min({MockSize[table], MaxRows}) ELSE 0
GetShuffled(table) == table \in {"__mock_t1_50k", "__mock_t2_100k", "__mock_t3_1k"}

Emoji == 128169
Text(s) == ValueText("VARCHAR", s)
Repeat(n) == Text([i \in 1..n |-> Emoji])
Numbered(c) == Text(TextOfInt(c) \o <<MinusSign, Emoji>>)
\* The elements of ta_list_2022 (all different), ta_oh_2022 (by the number of the day)
\* and course_on_date.
Name(c) == Text(<<1000 + c>>)
OfficeHours == <<2, 3, 1, 3, 4, 5, 3, 8, 2, 1, 2>>
CourseOnBool == <<0, 1, 0, 1, 0, 1, 1>>
\* {:03} of a node of the graph.
Padded(n) == Text(<<48, 48, 48 + n>>)
Pair(a, b) == <<Integer(a), Integer(b)>>
AggInputRow(c, per, texts) ==
    Pair((c + 2) % 10, c) \o Pair((c + 50) % 100, c \div per) \o <<Integer(233), Repeat((c % texts) + 1)>>
LeaderboardRow(table, c) ==
    CASE table = "__mock_t1_50k" -> Pair(10 * c, 1000 * c)
      [] table = "__mock_t2_100k" -> Pair(c, 100 * c)
      [] table = "__mock_t3_1k" -> Pair(100 * c, 10000 * c)
      [] table = "__mock_t4_1m" -> Pair(c % 500000, 10 * (c % 500000))
      [] table = "__mock_t5_1m" -> Pair((c + 30000) % 500000, 10 * ((c + 30000) % 500000))
      [] table = "__mock_t6_1m" -> Pair((c + 60000) % 500000, 10 * ((c + 60000) % 500000))
      [] table = "__mock_t7" -> <<Integer(c % 20)>> \o Pair(c, c)
      [] table = "__mock_t8" -> <<Integer(c)>>
\* GetFunctionOf: the row at a cursor, which counts from 0.
MockRow(table, c) ==
    CASE table = "__mock_table_1" -> Pair(c, 100 * c)
      [] table = "__mock_table_2" -> <<Numbered(c), Repeat(c % 8)>>
      [] table = "__mock_table_3" -> <<IF c % 2 = 0 THEN Integer(c) ELSE NullInt, Numbered(c)>>
      [] table = "__mock_table_tas_2022" -> <<Name(c), Name(OfficeHours[c + 1])>>
      [] table = "__mock_table_schedule_2022" -> <<Name(c + 1), Integer(CourseOnBool[c + 1])>>
      [] table = "__mock_agg_input_small" -> AggInputRow(c, 100, 8)
      [] table = "__mock_agg_input_big" -> AggInputRow(c, 1000, 16)
      [] table = "__mock_table_123" -> <<Integer(c + 1)>>
      [] table = "__mock_graph" ->
            LET src == c % GraphNodeCnt
                dst == c \div GraphNodeCnt
            IN  Pair(src, dst) \o <<Padded(src), Padded(dst), IF src = dst THEN NullInt ELSE Integer(1)>>
      [] OTHER -> LeaderboardRow(table, c)
MockRows(table) == [i \in 1..GetSizeOf(table) |-> MockRow(table, i - 1)]

-----------------------------------------------------------------------------
(* The factory and Init.                                                   *)

Joins == {"nlj", "index_join", "hash_join"}
RECURSIVE CreateExecutor(_)
\* Whether an executor can be made for the plan: joins are INNER or LEFT.
CreateExecutor(plan) ==
    /\ \A i \in DOMAIN plan.children : CreateExecutor(plan.children[i])
    /\ plan.kind \in Joins => plan.type \in {"INNER", "LEFT"}

\* Init of the root initialises the child of a filter or a projection, and only that.
RECURSIVE CanInit(_)
CanInit(plan) ==
    CASE plan.kind \in {"values", "mock_scan", "aggregation"} -> TRUE
      [] plan.kind \in {"filter", "projection"} -> CanInit(plan.children[1])
      [] OTHER -> FALSE

RECURSIVE LeafOf(_)
LeafOf(plan) == IF plan.kind \in {"filter", "projection"} THEN LeafOf(plan.children[1]) ELSE plan
\* The orders that the constructor of the leaf may shuffle its rows into (none: <<>>).
Shuffles(plan) ==
    LET Orders(n) == {p \in [1..n -> 0..(n - 1)] : IsInjective(p)}
        OfLeaf(leaf) ==
            IF leaf.kind = "mock_scan" /\ GetShuffled(leaf.table) THEN Orders(GetSizeOf(leaf.table)) ELSE {<<>>}
    IN  OfLeaf(LeafOf(plan))

-----------------------------------------------------------------------------
(* Next.                                                                   *)

Row(values, cursor) == [status |-> "row", row |-> values, cursor |-> cursor]
Exhausted(cursor) == [status |-> "exhausted", row |-> <<>>, cursor |-> cursor]
Thrown(v, cursor) == [status |-> v.type, row |-> <<>>, cursor |-> cursor]
\* A row of values, or the first exception among them.
RowOf(values, cursor) ==
    LET failed == SelectSeq(values, Failed) IN
    IF failed = <<>> THEN Row(values, cursor) ELSE Thrown(Head(failed), cursor)

MockScanNext(table, shuffled, cursor) ==
    IF cursor = GetSizeOf(table) THEN Exhausted(cursor)
    ELSE Row(MockRow(table, IF shuffled = <<>> THEN cursor ELSE shuffled[cursor + 1]), cursor + 1)
ValuesNext(plan, cursor) ==
    IF cursor >= Len(plan.rows) THEN Exhausted(cursor)
    ELSE RowOf([k \in DOMAIN plan.rows[cursor + 1] |-> Evaluate(plan.rows[cursor + 1][k], <<>>)], cursor + 1)

\* value.GetAs<bool>() looks at one byte.
GetAsBool(v) == GetAs(v) % 256 # 0
\* Mutant: a NULL is taken for true.
PassesNull(v) == v.null \/ GetAsBool(v)
Passes(v) == ~v.null /\ GetAsBool(v)
RECURSIVE ExecutorNext(_, _, _)
ExecutorNext(plan, shuffled, cursor) ==
    LET Filter(in, v) ==
            CASE Failed(v) -> Thrown(v, in.cursor)
              [] ~Failed(v) /\ Passes(v) -> in
              [] OTHER -> ExecutorNext(plan, shuffled, in.cursor)
        From(in) ==
            CASE in.status # "row" -> in
              [] in.status = "row" /\ plan.kind = "projection" ->
                    RowOf([k \in DOMAIN plan.exprs |-> Evaluate(plan.exprs[k], in.row)], in.cursor)
              [] in.status = "row" /\ plan.kind = "filter" -> Filter(in, Evaluate(plan.pred, in.row))
    IN
    CASE plan.kind = "mock_scan" -> MockScanNext(plan.table, shuffled, cursor)
      [] plan.kind = "values" -> ValuesNext(plan, cursor)
      [] plan.kind = "aggregation" -> Exhausted(cursor)
      [] plan.kind \in {"projection", "filter"} -> From(ExecutorNext(plan.children[1], shuffled, cursor))

=============================================================================
