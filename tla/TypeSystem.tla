----------------------------- MODULE TypeSystem -----------------------------
(***************************************************************************)
(* What the SQL types compute.  First the numeric ones: TinyintType,       *)
(* SmallintType, IntegerType, BigintType and DecimalType, with the         *)
(* templates of IntegerParentType they share, and VarlenType's casts,      *)
(* which they call.  Then BooleanType and VarlenType, the dispatch of Type *)
(* and Value on the type of the left operand, and ValueFactory, which      *)
(* converts values with code of its own.  Expressions, tuples and the      *)
(* optimizer call these operators; SQLTypes checks them call by call.      *)
(*                                                                         *)
(* The five numeric classes repeat the same functions.  The operators they *)
(* have in common come first; each class then says what it does with them, *)
(* in definitions that carry its name.  An operation on integers yields    *)
(* the SET of its possible results: a sum or product beyond the C++ type   *)
(* it is computed in is undefined, and the overflow test that follows may  *)
(* or may not see it.                                                      *)
(***************************************************************************)
EXTENDS Values

LOCAL INSTANCE FiniteSetsExt

ArithmeticOps == {"+", "-", "*", "/", "%"}
ComparisonOps == {"=", "#", "<", "<=", ">", ">="}

-----------------------------------------------------------------------------
(* VarlenType: text to everything else.                                    *)

TrueTexts == {<<116, 114, 117, 101>>, <<49>>, <<116>>}            \* true, 1, t
FalseTexts == {<<102, 97, 108, 115, 101>>, <<48>>, <<102>>}       \* false, 0, f
NullName == <<110, 117, 108, 108>>     \* varlen_null, tinyint_null, ...: no number

VarlenToString(v) == IF v.null THEN NullName ELSE v.val

TextToBoolean(s) ==
    IF s \in TrueTexts \cup FalseTexts THEN Value("INTEGER", "BOOLEAN", IF s \in TrueTexts THEN 1 ELSE 0)
    ELSE TypeError

\* stoi gives an int (stoll a long) or throws; narrower types cut it down first
\* and look afterwards whether the result is below their minimum.
CutDown(n, t, c) ==
    IF n \notin NullOf(c)..MaxOf(c) \/ Wrap(n, Bits[t]) < MinOf(t) THEN OutOfRange
    ELSE Value(t, t, n)
TextToInteger(s, t) ==
    IF IsNumber(s) THEN CutDown(Stoi(s), t, IF t = "BIGINT" THEN "BIGINT" ELSE "INTEGER")
    ELSE InvalidArgument

InDoubleRange(q) ==
    IF Less(DecimalMax, q) \/ Less(q, DecimalMin) THEN OutOfRange ELSE ValueDouble("DECIMAL", q)
TextToDecimal(s) == IF IsNumber(s) THEN InDoubleRange(Stod(s)) ELSE InvalidArgument

VarlenCastAs(v, t) ==
    LET s == VarlenToString(v)
    IN  CASE t = "BOOLEAN" -> TextToBoolean(s)
          [] t \in IntegerTypes -> TextToInteger(s, t)
          [] t = "DECIMAL" -> TextToDecimal(s)
          [] t = "VARCHAR" -> v
          [] OTHER -> TypeError

-----------------------------------------------------------------------------
(* IntegerParentType: arithmetic on two integers of any two widths.        *)

\* The integer promotions: nothing is computed in less than an int.
Promoted(l, r) == Max({Bits["INTEGER"], Bits[l.type], Bits[r.type]})
Wider(l, r) == IF Bits[r.type] > Bits[l.type] THEN r.type ELSE l.type

\* z is the exact result, computed what the C++ type leaves of it, kept what the
\* result's type does; lost says whether the second test finds it damaged.
Tested(l, r, z, computed, kept, lost(_)) ==
    LET throws == \/ /\ computed # Wrap(computed, Bits[l.type])
                     /\ computed # Wrap(computed, Bits[r.type])
                  \/ lost(kept)
        outcomes == {throws} \cup (IF computed = z THEN {} ELSE {FALSE})
    IN  {IF threw THEN OutOfRange ELSE Value(Wider(l, r), Wider(l, r), kept) : threw \in outcomes}
Checked(l, r, z, lost(_)) ==
    LET computed == Wrap(z, Promoted(l, r))
    IN  Tested(l, r, z, computed, Wrap(computed, Bits[Wider(l, r)]), lost)

\* Mutant: the sum of two negative numbers is not tested.
AddValueHalfTested(l, r) ==
    LET Lost(s) == GetAs(l) > 0 /\ GetAs(r) > 0 /\ s < 0
    IN  Checked(l, r, GetAs(l) + GetAs(r), Lost)
AddValue(l, r) ==
    LET Lost(s) == \/ GetAs(l) > 0 /\ GetAs(r) > 0 /\ s < 0
                   \/ GetAs(l) < 0 /\ GetAs(r) < 0 /\ s > 0
    IN  Checked(l, r, GetAs(l) + GetAs(r), Lost)

SubtractValue(l, r) ==
    LET Lost(d) == \/ GetAs(l) > 0 /\ GetAs(r) < 0 /\ d < 0
                   \/ GetAs(l) < 0 /\ GetAs(r) > 0 /\ d > 0
    IN  Checked(l, r, GetAs(l) - GetAs(r), Lost)

MultiplyValue(l, r) ==
    LET Lost(p) == GetAs(r) # 0 /\ Quot(p, GetAs(r)) # GetAs(l)
    IN  Checked(l, r, GetAs(l) * GetAs(r), Lost)

DivideValue(l, r) ==
    IF GetAs(r) = 0 THEN {DivideByZero}
    ELSE {Value(Wider(l, r), Wider(l, r), Quot(GetAs(l), GetAs(r)))}

ModuloValue(l, r) ==
    IF GetAs(r) = 0 THEN {DivideByZero}
    ELSE {Value(Wider(l, r), Wider(l, r), Rem(GetAs(l), GetAs(r)))}

Method(op, l, r) ==
    CASE op = "+" -> AddValue(l, r)
      [] op = "-" -> SubtractValue(l, r)
      [] op = "*" -> MultiplyValue(l, r)
      [] op = "/" -> DivideValue(l, r)
      [] op = "%" -> ModuloValue(l, r)

ValMod(p, q) == Minus(p, Times(Whole(Truncated(Over(p, q))), q))
OnDoubles(op, p, q) ==
    CASE op = "+" -> Plus(p, q)
      [] op = "-" -> Minus(p, q)
      [] op = "*" -> Times(p, q)
      [] op = "/" -> Over(p, q)
      [] op = "%" -> ValMod(p, q)

-----------------------------------------------------------------------------
(* What the four integer classes and DecimalType share.                    *)

\* The switch of a MODIFY macro on the type of the right operand.
ModifyFunc(self, op, l, r) ==
    CASE r.type \in IntegerTypes -> Method(op, l, r)
      [] r.type = "DECIMAL" -> {ValueDouble("DECIMAL", OnDoubles(op, l.val, r.val))}
      [] r.type = "VARCHAR" -> LET OnCast(rv) == IF Failed(rv) THEN {rv} ELSE Method(op, l, rv)
                               IN  OnCast(VarlenCastAs(r, self))
      [] OTHER -> {TypeError}

\* A text has no IsZero.
Arithmetic(op, l, r, Modify(_, _, _), OperateNull(_)) ==
    IF l.null \/ r.null THEN {OperateNull(r)}
    ELSE IF op \in {"/", "%"} /\ r.type = "VARCHAR" THEN {NotImplemented}
    ELSE IF op \in {"/", "%"} /\ GetAs(r) = 0 THEN {DivideByZero}
    ELSE Modify(op, l, r)

Holds(op, p, q) ==
    CASE op = "=" -> p = q
      [] op = "#" -> p # q
      [] op = "<" -> Less(p, q)
      [] op = "<=" -> ~Less(q, p)
      [] op = ">" -> Less(q, p)
      [] op = ">=" -> ~Less(p, q)
GetCmpBool(b) == IF b THEN "CmpTrue" ELSE "CmpFalse"

\* A comparison, by the six operators: r is the right operand and rv what the COMPARE
\* macro of the class makes of it.  For each class, the macro is the set of the types of
\* r that its switch has a case for.
CompareWith(op, l, rv) == IF Failed(rv) THEN rv.type ELSE GetCmpBool(Holds(op, l.val, rv.val))
NullOr(l, r, cmp) == IF l.null \/ r.null THEN "CmpNull" ELSE cmp

\* std::sqrt, to a half: the largest multiple of 1/2 whose square is not above q.
StdSqrt(q) ==
    LET k == Max({i \in 0..(2 * Abs(q[1])) : ~Less(q, Fraction(i * i, 4))})
    IN  Fraction(k, 2)
Root(v, onNull) ==
    IF v.null THEN onNull
    ELSE IF v.val[1] < 0 THEN NegativeRoot
    ELSE ValueDouble("DECIMAL", StdSqrt(v.val))

NullInteger(t) == Value(t, t, NullOf(t))
NullDecimal == ValueDouble("DECIMAL", DecimalNull)

\* The switch of an integer CastAs: the types in narrower are range-checked.  For each
\* class, its CastAs is the set of these types.
IntegerCast(v, t, narrower, text) ==
    CASE t \in IntegerTypes ->
            IF v.null THEN NullInteger(t)
            ELSE IF t \in narrower /\ GetAs(v) \notin MinOf(t)..MaxOf(t) THEN OutOfRange
            ELSE Value(t, t, GetAs(v))
      [] t = "DECIMAL" -> IF v.null THEN NullDecimal ELSE ValueDouble(t, v.val)
      [] t = "VARCHAR" -> IF v.null THEN NullText ELSE ValueText(t, text)
      [] OTHER -> TypeError

-----------------------------------------------------------------------------
(* TinyintType.                                                        *)

TinyintCompareFunc == NumericTypes \cup {"VARCHAR"}
TinyintModifyFunc(op, l, r) == ModifyFunc("TINYINT", op, l, r)
TinyintOperateNull(r) ==
    CASE r.type \in {"TINYINT"} -> NullInteger("TINYINT")
      [] r.type \in {"SMALLINT", "INTEGER", "BIGINT"} -> NullInteger(r.type)
      [] r.type = "DECIMAL" -> NullDecimal
      [] OTHER -> TypeError
TinyintArithmetic(op, l, r) == Arithmetic(op, l, r, TinyintModifyFunc, TinyintOperateNull)
TinyintSqrt(v) == Root(v, NullDecimal)
TinyintCompare(op, l, r, rv) == NullOr(l, r, CompareWith(op, l, rv))
TinyintToString(v) == IF v.null THEN NullName ELSE TextOfInt(GetAs(v))
TinyintCastAs == {}

-----------------------------------------------------------------------------
(* SmallintType.                                                       *)

SmallintCompareFunc == NumericTypes \cup {"VARCHAR"}
SmallintModifyFunc(op, l, r) == ModifyFunc("SMALLINT", op, l, r)
SmallintOperateNull(r) ==
    CASE r.type \in {"TINYINT", "SMALLINT"} -> NullInteger("SMALLINT")
      [] r.type \in {"INTEGER", "BIGINT"} -> NullInteger(r.type)
      [] r.type = "DECIMAL" -> NullDecimal
      [] OTHER -> TypeError
SmallintArithmetic(op, l, r) == Arithmetic(op, l, r, SmallintModifyFunc, SmallintOperateNull)
SmallintSqrt(v) == Root(v, NullDecimal)
SmallintCompare(op, l, r, rv) == NullOr(l, r, CompareWith(op, l, rv))
SmallintToString(v) == IF v.null THEN NullName ELSE TextOfInt(GetAs(v))
\* Mutant: the cast to TINYINT is not range-checked.
SmallintCastUnchecked == {}
SmallintCastAs == {"TINYINT"}

-----------------------------------------------------------------------------
(* IntegerType.                                                        *)

IntegerCompareFunc == NumericTypes \cup {"VARCHAR"}
IntegerModifyFunc(op, l, r) == ModifyFunc("INTEGER", op, l, r)
IntegerOperateNull(r) ==
    CASE r.type \in {"TINYINT", "SMALLINT", "INTEGER"} -> NullInteger("INTEGER")
      [] r.type \in {"BIGINT"} -> NullInteger(r.type)
      [] r.type = "DECIMAL" -> NullDecimal
      [] OTHER -> TypeError
IntegerArithmetic(op, l, r) == Arithmetic(op, l, r, IntegerModifyFunc, IntegerOperateNull)
IntegerSqrt(v) == Root(v, IntegerOperateNull(v))
IntegerCompare(op, l, r, rv) == NullOr(l, r, CompareWith(op, l, rv))
IntegerToString(v) == IF v.null THEN NullName ELSE TextOfInt(GetAs(v))
IntegerCastAs == {"TINYINT", "SMALLINT"}

-----------------------------------------------------------------------------
(* BigintType.                                                         *)

BigintCompareFunc == NumericTypes \cup {"VARCHAR"}
BigintModifyFunc(op, l, r) == ModifyFunc("BIGINT", op, l, r)
BigintOperateNull(r) ==
    CASE r.type \in {"TINYINT", "SMALLINT", "INTEGER", "BIGINT"} -> NullInteger("BIGINT")
      [] r.type = "DECIMAL" -> NullDecimal
      [] OTHER -> TypeError
BigintArithmetic(op, l, r) == Arithmetic(op, l, r, BigintModifyFunc, BigintOperateNull)
BigintSqrt(v) == Root(v, NullDecimal)
BigintCompare(op, l, r, rv) == NullOr(l, r, CompareWith(op, l, rv))
BigintToString(v) == IF v.null THEN NullName ELSE TextOfInt(GetAs(v))
BigintCastAs == {"TINYINT", "SMALLINT", "INTEGER"}

-----------------------------------------------------------------------------
(* DecimalType: every operand is converted to a double.                    *)

DecimalCompareFunc == NumericTypes \cup {"VARCHAR"}
DecimalModifyFunc(op, l, r) ==
    LET OnCast(rv) == {IF Failed(rv) THEN rv ELSE ValueDouble("DECIMAL", OnDoubles(op, l.val, rv.val))}
    IN  OnCast(IF r.type = "VARCHAR" THEN VarlenCastAs(r, "DECIMAL") ELSE r)
DecimalOperateNull(r) == NullDecimal
DecimalArithmetic(op, l, r) == Arithmetic(op, l, r, DecimalModifyFunc, DecimalOperateNull)
DecimalSqrt(v) == Root(v, NullDecimal)
DecimalCompare(op, l, r, rv) == NullOr(l, r, CompareWith(op, l, rv))
DecimalToString(v) == IF v.null THEN NullName ELSE TextOfDecimal(v.val)

\* BIGINT's upper limit is refused itself: as a double it is one too large.
DecimalOutOfRange(q, t) ==
    \/ IF t = "BIGINT" THEN ~Less(q, DoubleMax(t)) ELSE Less(DoubleMax(t), q)
    \/ Less(q, DoubleMin(t))
DecimalCastAs(v, t) ==
    CASE t \in IntegerTypes ->
            IF v.null THEN NullInteger(t)
            ELSE IF DecimalOutOfRange(v.val, t) THEN OutOfRange
            ELSE Value(t, t, Truncated(v.val))
      [] t = "DECIMAL" -> v
      [] t = "VARCHAR" -> IF v.null THEN NullText ELSE ValueText(t, DecimalToString(v))
      [] OTHER -> TypeError

-----------------------------------------------------------------------------
(* The types a value can have, and dispatch on them.                       *)

RegisteredTypes == TypeId \ {"TIMESTAMP"}

-----------------------------------------------------------------------------
(* BooleanType and VarlenType.                                             *)

BooleanToString(v) ==
    CASE GetAs(v) = 1 -> <<116, 114, 117, 101>>
      [] GetAs(v) = 0 -> <<102, 97, 108, 115, 101>>
      [] OTHER -> NullName
BooleanCastAs(v, t) ==
    CASE t = "BOOLEAN" -> Value("TINYINT", "BOOLEAN", GetAs(v))
      [] t = "VARCHAR" -> IF v.null THEN NullText ELSE ValueText(t, BooleanToString(v))
      [] OTHER -> TypeError
BooleanCompare(op, l, r, rv) == NullOr(l, r, CompareWith(op, l, rv))

ValueToString(v) ==
    CASE v.type = "TINYINT" -> TinyintToString(v)
      [] v.type = "SMALLINT" -> SmallintToString(v)
      [] v.type = "INTEGER" -> IntegerToString(v)
      [] v.type = "BIGINT" -> BigintToString(v)
      [] v.type = "DECIMAL" -> DecimalToString(v)
      [] v.type = "BOOLEAN" -> BooleanToString(v)
      [] v.type = "VARCHAR" -> VarlenToString(v)

RangeChecked(t) ==
    CASE t = "TINYINT" -> TinyintCastAs
      [] t = "SMALLINT" -> SmallintCastAs
      [] t = "INTEGER" -> IntegerCastAs
      [] t = "BIGINT" -> BigintCastAs
CastAs(v, t) ==
    CASE v.type \in IntegerTypes -> IntegerCast(v, t, RangeChecked(v.type), ValueToString(v))
      [] v.type = "DECIMAL" -> DecimalCastAs(v, t)
      [] v.type = "BOOLEAN" -> BooleanCastAs(v, t)
      [] v.type = "VARCHAR" -> VarlenCastAs(v, t)

\* The right operand is compared as text, whatever its type.
VarlenCompareFunc(op, l, rv) == Holds(op, Whole(CompareStrings(l.val, rv.val)), Whole(0))
VarlenCompare(op, l, r, rv) == NullOr(l, r, GetCmpBool(VarlenCompareFunc(op, l, rv)))

-----------------------------------------------------------------------------
(* Type: functions that a class does not override throw.                   *)

TypeArithmetic == {NotImplemented}
TypeSqrt == NotImplemented
TypeOperateNull == NotImplemented

\* What the COMPARE macro of a class makes of the right operand.
CompareFunc(t) ==
    CASE t = "TINYINT" -> TinyintCompareFunc
      [] t = "SMALLINT" -> SmallintCompareFunc
      [] t = "INTEGER" -> IntegerCompareFunc
      [] t = "BIGINT" -> BigintCompareFunc
      [] t = "DECIMAL" -> DecimalCompareFunc
      [] OTHER -> TypeId
Operand(t, r) ==
    CASE r.type \notin CompareFunc(t) -> TypeError
      [] {r.type, t} \subseteq NumericTypes -> r
      [] OTHER -> CastAs(r, t)
CompareOn(op, l, r, rv) ==
    CASE l.type = "TINYINT" -> TinyintCompare(op, l, r, rv)
      [] l.type = "SMALLINT" -> SmallintCompare(op, l, r, rv)
      [] l.type = "INTEGER" -> IntegerCompare(op, l, r, rv)
      [] l.type = "BIGINT" -> BigintCompare(op, l, r, rv)
      [] l.type = "DECIMAL" -> DecimalCompare(op, l, r, rv)
      [] l.type = "BOOLEAN" -> BooleanCompare(op, l, r, rv)
      [] l.type = "VARCHAR" -> VarlenCompare(op, l, r, rv)
Compare(op, l, r) == CompareOn(op, l, r, Operand(l.type, r))

Compute(op, l, r) ==
    CASE l.type = "TINYINT" -> TinyintArithmetic(op, l, r)
      [] l.type = "SMALLINT" -> SmallintArithmetic(op, l, r)
      [] l.type = "INTEGER" -> IntegerArithmetic(op, l, r)
      [] l.type = "BIGINT" -> BigintArithmetic(op, l, r)
      [] l.type = "DECIMAL" -> DecimalArithmetic(op, l, r)
      [] OTHER -> TypeArithmetic

Sqrt(v) ==
    CASE v.type = "TINYINT" -> TinyintSqrt(v)
      [] v.type = "SMALLINT" -> SmallintSqrt(v)
      [] v.type = "INTEGER" -> IntegerSqrt(v)
      [] v.type = "BIGINT" -> BigintSqrt(v)
      [] v.type = "DECIMAL" -> DecimalSqrt(v)
      [] OTHER -> TypeSqrt

OperateNull(l, r) ==
    CASE l.type = "TINYINT" -> TinyintOperateNull(r)
      [] l.type = "SMALLINT" -> SmallintOperateNull(r)
      [] l.type = "INTEGER" -> IntegerOperateNull(r)
      [] l.type = "BIGINT" -> BigintOperateNull(r)
      [] l.type = "DECIMAL" -> DecimalOperateNull(r)
      [] OTHER -> TypeOperateNull

\* Min and Max return a copy of one operand, with the type it has.
Pick(l, r, cmp) ==
    CASE cmp = "CmpTrue" -> l
      [] cmp = "CmpFalse" -> r
      [] OTHER -> Throw(cmp)
\* The comparison by which each class prefers the left operand.
IntegerMin == "<"
IntegerMax == ">="
DecimalMinimum == "<="
DecimalMaximum == ">="
VarlenMin == "<"
VarlenMax == ">"
Preferring(op, t) ==
    CASE t \in IntegerTypes -> IF op = "min" THEN IntegerMin ELSE IntegerMax
      [] t = "DECIMAL" -> IF op = "min" THEN DecimalMinimum ELSE DecimalMaximum
      [] t = "VARCHAR" -> IF op = "min" THEN VarlenMin ELSE VarlenMax

Extreme(op, l, r) ==
    IF l.type \notin NumericTypes \cup {"VARCHAR"} THEN NotImplemented
    ELSE IF l.null \/ r.null THEN OperateNull(l, r)
    ELSE Pick(l, r, Compare(Preferring(op, l.type), l, r))

\* Can a value of type t be made from one of type u?
IsCoercableFrom(t, u) ==
    CASE t = "INVALID" -> FALSE
      [] t = "BOOLEAN" -> TRUE
      [] t \in NumericTypes -> u \in NumericTypes \cup {"VARCHAR"}
      [] t = "TIMESTAMP" -> u \in {"VARCHAR", "TIMESTAMP"}
      [] t = "VARCHAR" -> u # "INVALID"

GetMinValue(t) ==
    CASE t = "BOOLEAN" -> Value("INTEGER", t, 0)
      [] t \in IntegerTypes -> Value(t, t, MinOf(t))
      [] t = "DECIMAL" -> ValueDouble(t, DecimalMin)
      [] t = "VARCHAR" -> ValueText(t, <<>>)
      [] OTHER -> Throw("MISMATCH_TYPE")
GetMaxValue(t) ==
    CASE t = "BOOLEAN" -> Value("INTEGER", t, 1)
      [] t \in IntegerTypes -> Value(t, t, MaxOf(t))
      [] t = "DECIMAL" -> ValueDouble(t, DecimalMax)
      [] t = "VARCHAR" -> NullText
      [] OTHER -> Throw("MISMATCH_TYPE")

-----------------------------------------------------------------------------
(* SerializeTo and DeserializeFrom: numbers as they are stored in the      *)
(* union, texts after their length, which counts the final NUL.            *)

NullLength == -1     \* BUSTUB_VALUE_NULL, UINT_MAX
VarlenSerializeTo(v) == IF v.null THEN <<NullLength>> ELSE <<Len(v.val) + 1>> \o v.val
VarlenDeserializeFrom(s) ==
    IF s[1] = NullLength THEN NullText ELSE ValueText("VARCHAR", SubSeq(s, 2, s[1]))

SerializeTo(v) == IF v.type = "VARCHAR" THEN VarlenSerializeTo(v) ELSE v.val
DeserializeFrom(s, t) ==
    CASE t = "VARCHAR" -> VarlenDeserializeFrom(s)
      [] t = "DECIMAL" -> ValueDouble(t, s)
      [] t = "BOOLEAN" -> Value("TINYINT", t, s[1])
      [] t \in IntegerTypes -> Value(t, t, s[1])

-----------------------------------------------------------------------------
(* ValueFactory.                                                           *)

GetNullValueByType(t) ==
    CASE t = "BOOLEAN" -> Value("TINYINT", t, NullOf("TINYINT"))
      [] t \in IntegerTypes -> NullInteger(t)
      [] t = "DECIMAL" -> NullDecimal
      [] t = "VARCHAR" -> NullText
      [] OTHER -> Throw("UNKNOWN_TYPE")
GetZeroValueByType(t) ==
    CASE t = "BOOLEAN" -> Value("TINYINT", t, 0)
      [] t \in IntegerTypes -> Value(t, t, 0)
      [] t = "DECIMAL" -> ValueDouble(t, Whole(0))
      [] t = "VARCHAR" -> ValueText(t, <<48>>)
      [] OTHER -> Throw("UNKNOWN_TYPE")

\* The factory turns std::invalid_argument into an Exception.
Reported(v) == IF v = InvalidArgument THEN TypeError ELSE v

\* A double of exactly 2^63 passes the test of CastAsBigInt: the conversion that
\* follows is undefined, and yields the sentinel or the largest long.
FactoryDecimal(q, t) ==
    IF Less(DoubleMax(t), q) \/ Less(q, DoubleMin(t)) THEN {OutOfRange}
    ELSE IF Truncated(q) > MaxOf(t) THEN {NullInteger(t), Value(t, t, MaxOf(t))}
    ELSE {Value(t, t, Truncated(q))}
FactoryInteger(v, t, wider) ==
    IF ~IsCoercableFrom(t, v.type) THEN {TypeError}
    ELSE IF v.null THEN {NullInteger(t)}
    ELSE CASE v.type \in IntegerTypes ->
                IF v.type \in wider /\ GetAs(v) \notin MinOf(t)..MaxOf(t) THEN {OutOfRange}
                ELSE {Value(t, t, GetAs(v))}
           [] v.type = "DECIMAL" -> FactoryDecimal(v.val, t)
           [] v.type = "VARCHAR" -> {Reported(TextToInteger(v.val, t))}

CastAsTinyInt(v) == FactoryInteger(v, "TINYINT", {"SMALLINT", "INTEGER", "BIGINT"})
CastAsSmallInt(v) == FactoryInteger(v, "SMALLINT", {"INTEGER", "BIGINT"})
CastAsInteger(v) == FactoryInteger(v, "INTEGER", {"BIGINT"})
CastAsBigInt(v) == FactoryInteger(v, "BIGINT", {})
CastAsDecimal(v) ==
    IF ~IsCoercableFrom("DECIMAL", v.type) THEN {TypeError}
    ELSE IF v.null THEN {NullDecimal}
    ELSE {IF v.type = "VARCHAR" THEN Reported(TextToDecimal(v.val)) ELSE ValueDouble("DECIMAL", v.val)}
CastAsVarchar(v) == {IF v.null THEN NullText ELSE ValueText("VARCHAR", ValueToString(v))}
CastAsBoolean(v) ==
    CASE v.null -> {GetNullValueByType("BOOLEAN")}
      [] ~v.null /\ v.type = "BOOLEAN" -> {Value("TINYINT", "BOOLEAN", GetAs(v))}
      [] ~v.null /\ v.type = "VARCHAR" -> {TextToBoolean(v.val)}
      [] OTHER -> {TypeError}

FactoryCast(v, t) ==
    CASE t = "TINYINT" -> CastAsTinyInt(v)
      [] t = "SMALLINT" -> CastAsSmallInt(v)
      [] t = "INTEGER" -> CastAsInteger(v)
      [] t = "BIGINT" -> CastAsBigInt(v)
      [] t = "DECIMAL" -> CastAsDecimal(v)
      [] t = "VARCHAR" -> CastAsVarchar(v)
      [] t = "BOOLEAN" -> CastAsBoolean(v)

=============================================================================
