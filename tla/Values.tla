------------------------------- MODULE Values -------------------------------
(***************************************************************************)
(* SQL values: the record a bustub::Value is, its constructors, the limits *)
(* and the NULL sentinels of each type, and the texts that a VARCHAR holds.*)
(*                                                                         *)
(* A value is a record: its type, whether it is NULL, and its contents.  A *)
(* number is a pair <<numerator, denominator>>, an integer <<n, 1>>; a     *)
(* text is the sequence of its character codes, since the order of texts,  *)
(* the room they take in a tuple and the way of a number through its text  *)
(* all go by its characters.  An exception is a record of the same shape   *)
(* whose type is the kind of the exception.                                *)
(*                                                                         *)
(* Integers have the widths Bits gives them.  Doubles are exact here       *)
(* (their rounding is left out), but for the two limits of BIGINT, which   *)
(* no double holds: see DoubleMax and DoubleMin.                           *)
(***************************************************************************)
EXTENDS Integers, Sequences, FiniteSets

LOCAL INSTANCE FiniteSetsExt
LOCAL INSTANCE SequencesExt

CONSTANTS
    Bits,           \* the width of each integer type: 8, 16, 32 and 64 in C++
    DblMax,         \* the largest double
    FltMax,         \* the largest float
    FractionDigits  \* the digits std::to_string writes after the point (6)

IntegerTypes == {"TINYINT", "SMALLINT", "INTEGER", "BIGINT"}
NumericTypes == IntegerTypes \cup {"DECIMAL"}
TypeId == NumericTypes \cup {"INVALID", "BOOLEAN", "VARCHAR", "TIMESTAMP"}

\* The C++ types keep their order, and every product of two SMALLINTs is an int.
ASSUME BitsAssumption ==
    /\ Bits \in [IntegerTypes -> Nat \ {0}]
    /\ 1 < Bits["TINYINT"]
    /\ Bits["TINYINT"] < Bits["SMALLINT"]
    /\ 2 * Bits["SMALLINT"] <= Bits["INTEGER"]
    /\ Bits["INTEGER"] < Bits["BIGINT"]
ASSUME DecimalAssumption ==
    /\ DblMax \in Nat /\ FltMax \in Nat /\ FractionDigits \in Nat \ {0}
    /\ 2^Bits["BIGINT"] < FltMax /\ FltMax < DblMax

-----------------------------------------------------------------------------
(* Numbers: exact fractions in lowest terms, and C++ integer operations.   *)

Abs(n) == IF n < 0 THEN -n ELSE n
Sign(n) == IF n < 0 THEN -1 ELSE 1
Whole(n) == <<n, 1>>
Gcd[a \in Nat, b \in Nat] == IF b = 0 THEN a ELSE Gcd[b, a % b]
Fraction(n, d) ==
    LET g == Gcd[Abs(n), Abs(d)]
    IN  <<(Sign(d) * n) \div g, Abs(d) \div g>>
Plus(p, q) == Fraction(p[1] * q[2] + q[1] * p[2], p[2] * q[2])
Minus(p, q) == Fraction(p[1] * q[2] - q[1] * p[2], p[2] * q[2])
Times(p, q) == Fraction(p[1] * q[1], p[2] * q[2])
Over(p, q) == Fraction(p[1] * q[2], p[2] * q[1])
Less(p, q) == p[1] * q[2] < q[1] * p[2]

\* C++ division and remainder round towards zero.
Quot(a, b) == Sign(a) * Sign(b) * (Abs(a) \div Abs(b))
Rem(a, b) == a - b * Quot(a, b)
Truncated(p) == Quot(p[1], p[2])

\* static_cast to an integer of b bits.
Wrap(n, b) == ((n + 2^(b - 1)) % 2^b) - 2^(b - 1)

-----------------------------------------------------------------------------
(* Limits: the smallest pattern of each integer type is its NULL.          *)

NullOf(t) == -(2^(Bits[t] - 1))
MinOf(t) == NullOf(t) + 1
MaxOf(t) == 2^(Bits[t] - 1) - 1
DecimalNull == Whole(-DblMax)
DecimalMin == Whole(-FltMax)
DecimalMax == Whole(DblMax)
\* static_cast<double> of a limit: 2^63 - 1 and -2^63 + 1 are rounded outwards.
DoubleMax(t) == Whole(IF t = "BIGINT" THEN MaxOf(t) + 1 ELSE MaxOf(t))
DoubleMin(t) == Whole(IF t = "BIGINT" THEN MinOf(t) - 1 ELSE MinOf(t))

-----------------------------------------------------------------------------
(* Exceptions.                                                             *)

Throw(kind) == [type |-> kind, null |-> FALSE, val |-> <<>>]
OutOfRange == Throw("OUT_OF_RANGE")
DivideByZero == Throw("DIVIDE_BY_ZERO")
NotImplemented == Throw("NOT_IMPLEMENTED")
TypeError == Throw("TYPE_ERROR")
NegativeRoot == Throw("NEGATIVE_ROOT")
InvalidArgument == Throw("INVALID_ARGUMENT")   \* std::invalid_argument, not bustub's
Failed(v) == v.type \notin TypeId
Answer(cmp) == Throw(cmp)     \* what a comparison returns, or the exception it throws

-----------------------------------------------------------------------------
(* Constructors.                                                           *)

WidthOf(t) == IF t = "BOOLEAN" THEN Bits["TINYINT"] ELSE Bits[t]

\* The stores of the integer constructors: the member takes the bits that fit,
\* and the value is NULL if they are the sentinel's.
Member(t, bits, w) == [type |-> t, null |-> w = -(2^(bits - 1)), val |-> Whole(w)]
Stored(t, n) == Member(t, WidthOf(t), Wrap(n, WidthOf(t)))

\* The types that each of them has a case for.
Int8Types == IntegerTypes \cup {"BOOLEAN"}
Int16Types == IntegerTypes \cup {"BOOLEAN"}
Int32Types == IntegerTypes \cup {"BOOLEAN"}
Int64Types == IntegerTypes \cup {"BOOLEAN"}
ValueDouble(t, q) ==
    IF t = "DECIMAL" THEN [type |-> t, null |-> q = DecimalNull, val |-> q] ELSE TypeError
ValueText(t, s) ==
    IF t = "VARCHAR" THEN [type |-> t, null |-> FALSE, val |-> s] ELSE TypeError
NullText == [type |-> "VARCHAR", null |-> TRUE, val |-> <<>>]

\* The constructor that overload resolution takes for an integer of C++ type c.
Constructs(c) ==
    CASE c = "TINYINT" -> Int8Types
      [] c = "SMALLINT" -> Int16Types
      [] c = "INTEGER" -> Int32Types
      [] c = "BIGINT" -> Int64Types
Value(c, t, n) == IF t \in Constructs(c) THEN Stored(t, n) ELSE TypeError

GetAs(v) == v.val[1]

CheckInteger(v) == v.type \in IntegerTypes
CheckComparable(l, r) ==
    CASE l.type = "BOOLEAN" -> r.type \in {"BOOLEAN", "VARCHAR"}
      [] l.type \in NumericTypes -> r.type \in NumericTypes \cup {"VARCHAR"}
      [] l.type = "VARCHAR" -> TRUE
      [] OTHER -> FALSE

-----------------------------------------------------------------------------
(* Texts: std::to_string, stoi, stoll and stod.                            *)

MinusSign == 45
Point == 46
IsDigit(c) == c \in 48..57

Digits[n \in Nat] ==
    IF n < 10 THEN <<48 + n>> ELSE Append(Digits[n \div 10], 48 + (n % 10))
Signed(n, s) == IF n < 0 THEN <<MinusSign>> \o s ELSE s
TextOfInt(n) == Signed(n, Digits[Abs(n)])
TextOfDecimal(q) ==
    LET u == 10^FractionDigits
        n == (2 * Abs(q[1]) * u + q[2]) \div (2 * q[2])
    IN  Signed(q[1], Digits[n \div u] \o <<Point>> \o Tail(Digits[u + (n % u)]))

Unsigned(s) == IF s # <<>> /\ s[1] = MinusSign THEN Tail(s) ELSE s
DigitsAt(s, i) ==
    LET n == Max({k \in 0..(Len(s) - i + 1) : \A j \in i..(i + k - 1) : IsDigit(s[j])})
    IN  SubSeq(s, i, i + n - 1)
NumberOf(digits) == FoldLeft(LAMBDA a, c : 10 * a + (c - 48), 0, digits)
SignOf(s) == IF Unsigned(s) = s THEN 1 ELSE -1

\* A text that starts with no digit makes all three throw std::invalid_argument.
IsNumber(s) == DigitsAt(Unsigned(s), 1) # <<>>
Stoi(s) == SignOf(s) * NumberOf(DigitsAt(Unsigned(s), 1))
DigitsAfterPoint(u, i) == IF i <= Len(u) /\ u[i] = Point THEN DigitsAt(u, i + 1) ELSE <<>>
Number(sign, whole, frac) == Fraction(sign * NumberOf(whole \o frac), 10^Len(frac))
Stod(s) ==
    LET u == Unsigned(s)
        whole == DigitsAt(u, 1)
    IN  Number(SignOf(s), whole, DigitsAfterPoint(u, Len(whole) + 1))

\* memcmp of the common prefix, then the difference of the lengths.
CompareStrings(s1, s2) ==
    LET n == Min({Len(s1), Len(s2)})
        differ == {i \in 1..n : s1[i] # s2[i]}
    IN  IF differ = {} THEN Len(s1) - Len(s2) ELSE s1[Min(differ)] - s2[Min(differ)]

-----------------------------------------------------------------------------
(* Columns and schemas: the layout of a tuple that a list of columns gives *)
(* (offsets, the columns whose text is stored out of line, the length of   *)
(* the fixed part), and the lookup of a column by its name.                *)
(*                                                                         *)
(* A column's name is the sequence of its identifiers: "t.x" is            *)
(* <<"t", "x">>.  No identifier holds a point, so two names are the same   *)
(* string exactly if they are the same sequence.  Columns are numbered     *)
(* from 1 here, from 0 in the code.                                        *)

TypeSize(t) ==
    CASE t \in {"BOOLEAN", "TINYINT"} -> 1
      [] t = "SMALLINT" -> 2
      [] t = "INTEGER" -> 4
      [] t \in {"BIGINT", "DECIMAL", "TIMESTAMP"} -> 8
      [] t = "VARCHAR" -> 12

\* Both constructors: a length belongs to a VARCHAR, and to nothing else.
FixedColumn(name, t) == [name |-> name, type |-> t, variable_length |-> 0]
VarlenColumn(name, length) == [name |-> name, type |-> "VARCHAR", variable_length |-> length]
Renamed(name, col) == [col EXCEPT !.name = name]

IsInlined(col) == col.type # "VARCHAR"
GetFixedLength(col) == TypeSize(col.type)

FixedPart(columns) == FoldLeft(LAMBDA n, col : n + GetFixedLength(col), 0, columns)

\* The constructor Schema(columns).
Schema(columns) ==
    [columns |-> [i \in DOMAIN columns |->
                    [name |-> columns[i].name, type |-> columns[i].type,
                     variable_length |-> columns[i].variable_length,
                     offset |-> FixedPart(SubSeq(columns, 1, i - 1))]],
     length |-> FixedPart(columns),
     uninlined |-> SelectSeq([i \in DOMAIN columns |-> i], LAMBDA i : ~IsInlined(columns[i]))]
CopySchema(from, attrs) == Schema([k \in DOMAIN attrs |-> from.columns[attrs[k]]])

\* The first column of a name, or 0 (nullopt).
TryGetColIdx(columns, name) ==
    LET is == {i \in DOMAIN columns : columns[i].name = name}
    IN  IF is = {} THEN 0 ELSE Min(is)

=============================================================================
