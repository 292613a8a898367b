------------------------------ MODULE MCTuples ------------------------------
(***************************************************************************)
(* Schemas with texts before, between and after numbers; rows with NULLs,  *)
(* empty texts and texts of two lengths.  The SQL types have widths 3, 4,  *)
(* 8 and 9; they are called with the limits, NULLs and zeros of every      *)
(* type, their neighbours, and texts that are and are not numbers.         *)
(***************************************************************************)
EXTENDS Tuples

MCBits == [t \in IntegerTypes |->
    CASE t = "TINYINT" -> 3 [] t = "SMALLINT" -> 4 [] t = "INTEGER" -> 8 [] t = "BIGINT" -> 9]

X == FixedColumn(<<"x">>, "INTEGER")
B == FixedColumn(<<"b">>, "BOOLEAN")
S == VarlenColumn(<<"s">>, 8)
T == VarlenColumn(<<"t">>, 8)
MCSchemas == {Schema(<<S, X, T>>), Schema(<<T, X>>), Schema(<<B, X>>)}

Integer(t, ns) == {Value(t, t, n) : n \in ns}
Texts == {<<55>>, <<49, 48>>, <<MinusSign, 51>>, <<53>>, <<51, 48, 48>>, <<49, Point, 53>>, <<116>>, <<97>>, <<48, 55>>}
MCOperands ==
    {GetMinValue(t) : t \in CastTypes} \cup {GetMaxValue(t) : t \in CastTypes}
      \cup {GetNullValueByType(t) : t \in CastTypes} \cup {GetZeroValueByType(t) : t \in CastTypes}
      \cup Integer("TINYINT", {-2, -1, 1, 2})
      \cup Integer("SMALLINT", {-4, -1, 2, 3, 4})
      \cup Integer("INTEGER", {-126, -64, -3, -1, 2, 11, 63, 64})
      \cup Integer("BIGINT", {-129, -128, -2, -1, 3, 128})
      \cup {ValueDouble("DECIMAL", q) :
               q \in {Whole(256), Whole(-256), Whole(127), Whole(3), Fraction(7, 2), Fraction(-1, 2), Fraction(3, 1)}}
      \cup {ValueText("VARCHAR", s) : s \in Texts}

ValuesOf(col) ==
    CASE col.type = "INTEGER" -> Integer("INTEGER", {1, 2, NullOf("INTEGER")})
      [] col.type = "BOOLEAN" -> {Value("TINYINT", "BOOLEAN", 0), Value("TINYINT", "BOOLEAN", 1)}
      [] col.type = "VARCHAR" -> {NullText, ValueText("VARCHAR", <<>>), ValueText("VARCHAR", <<97, 98>>)}
MCRowsOf(schema) ==
    {r \in [DOMAIN schema.columns -> UNION {ValuesOf(schema.columns[i]) : i \in DOMAIN schema.columns}] :
        \A i \in DOMAIN schema.columns : r[i] \in ValuesOf(schema.columns[i])}
MCKeyAttrs(schema) == IF Len(schema.columns) = 3 THEN <<3, 2>> ELSE <<1>>
=============================================================================
