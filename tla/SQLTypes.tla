------------------------------ MODULE SQLTypes ------------------------------
(***************************************************************************)
(* The calls of the SQL type system: one call, and what it returned.       *)
(* Clients (expressions, the planner, tuples) call, and take the result    *)
(* before they call again.  TIMESTAMP has no entry in Type::k_types, so no *)
(* call reaches its class.                                                 *)
(***************************************************************************)
EXTENDS TypeSystem

CONSTANT Operands     \* the values clients call with

VARIABLES call, result
typeVars == <<call, result>>

-----------------------------------------------------------------------------
(* The machine: one call, then its result is taken.                        *)

NoCall == [kind |-> "none", op |-> "none", l |-> NullText, r |-> NullText]
TypesInit == call = NoCall /\ result = NullText

Called(kind, op, l, r, results) ==
    /\ call' = [kind |-> kind, op |-> op, l |-> l, r |-> r]
    /\ result' \in results

CastTypes == RegisteredTypes \ {"INVALID"}
CallArithmetic ==
    /\ call = NoCall
    /\ \E op \in ArithmeticOps, l \in Operands, r \in Operands :
          CheckComparable(l, r) /\ Called("arithmetic", op, l, r, Compute(op, l, r))
CallCompare ==
    /\ call = NoCall
    /\ \E op \in ComparisonOps, l \in Operands, r \in Operands :
          CheckComparable(l, r) /\ Called("compare", op, l, r, {Answer(Compare(op, l, r))})
CallExtreme ==
    /\ call = NoCall
    /\ \E op \in {"min", "max"}, l \in Operands, r \in Operands :
          CheckComparable(l, r) /\ Called("extreme", op, l, r, {Extreme(op, l, r)})
CallSqrt == call = NoCall /\ \E v \in Operands : Called("sqrt", "sqrt", v, v, {Sqrt(v)})
CallCastAs ==
    call = NoCall /\ \E v \in Operands, t \in CastTypes : Called("cast", t, v, v, {CastAs(v, t)})
CallFactory ==
    call = NoCall /\ \E v \in Operands, t \in CastTypes : Called("factory", t, v, v, FactoryCast(v, t))
CallStore ==
    /\ call = NoCall
    /\ \E v \in Operands : Called("store", v.type, v, v, {DeserializeFrom(SerializeTo(v), v.type)})
Take == call # NoCall /\ call' = NoCall /\ result' = NullText

TypesNext ==
    CallArithmetic \/ CallCompare \/ CallExtreme \/ CallSqrt \/ CallCastAs \/ CallFactory \/ CallStore \/ Take

-----------------------------------------------------------------------------
(* Properties.                                                             *)

Numeric(v) == v.type \in NumericTypes

\* Every call returns a value of a registered type, with contents that its member
\* of the union can hold, NULL exactly if they are the sentinel, or an exception.
TypeOK ==
    /\ call = NoCall \/ (call.l \in Operands /\ call.r \in Operands)
    /\ result.null \in BOOLEAN
    /\ ~Failed(result) =>
          /\ result.type \in RegisteredTypes
          /\ result.type \in IntegerTypes =>
                /\ GetAs(result) \in NullOf(result.type)..MaxOf(result.type)
                /\ result.null <=> GetAs(result) = NullOf(result.type)

Exact(op, x, y) ==
    CASE op = "+" -> x + y
      [] op = "-" -> x - y
      [] op = "*" -> x * y
      [] op = "/" -> Quot(x, y)
      [] op = "%" -> Rem(x, y)
IntegerCall ==
    /\ call.kind = "arithmetic"
    /\ CheckInteger(call.l) /\ CheckInteger(call.r)
    /\ ~call.l.null /\ ~call.r.null
ByZero == call.op \in {"/", "%"} /\ GetAs(call.r) = 0
\* The exact result can be computed without overflow of the promoted C++ type.
Defined ==
    ~ByZero /\ LET z == Exact(call.op, GetAs(call.l), GetAs(call.r)) IN Wrap(z, Promoted(call.l, call.r)) = z

\* Integer arithmetic of every pair of widths (integer_parent_type.h): a result that the
\* wider of the two types holds is returned in that type, one that only the promoted C++
\* type holds is refused.  Beyond the promoted type, where INTEGER and BIGINT overflow,
\* C++ promises nothing: there the tests of signs and of the quotient refuse the result
\* that wraps around, whichever it is, so that a build whose integers wrap never returns
\* a wrong number; a build that drops the tests returns the wrapped one.  (The pattern of
\* NULL, one below the minimum, counts as held.)
ArithmeticExact ==
    (IntegerCall /\ ~ByZero) =>
        LET t == Wider(call.l, call.r)
            z == Exact(call.op, GetAs(call.l), GetAs(call.r))
        IN  CASE z \in NullOf(t)..MaxOf(t) -> result.type = t /\ GetAs(result) = z
              [] z \notin NullOf(t)..MaxOf(t) /\ Defined -> result = OutOfRange
              [] ~Defined -> /\ OutOfRange \in Compute(call.op, call.l, call.r)
                             /\ result \in {OutOfRange, Stored(t, z)}

\* NULL comes out of arithmetic, Min, Max and comparisons only when NULL went in, when the
\* exact result is the bit pattern of NULL (for doubles, -DBL_MAX), or by an overflow that
\* a build does not test; and what goes in as NULL never comes out as a number.
NullOnlyFromNull ==
    LET nulls == call.l.null \/ call.r.null IN
    /\ call.kind = "compare" => (result.type = "CmpNull" <=> nulls)
    /\ (call.kind \in {"arithmetic", "extreme"} /\ nulls) => (Failed(result) \/ result.null)
    /\ (call.kind \in {"arithmetic", "extreme"} /\ ~nulls /\ Numeric(call.r) /\ result.null) =>
          \/ IntegerCall /\ (Defined => Exact(call.op, GetAs(call.l), GetAs(call.r)) = NullOf(result.type))
          \/ result.type = "DECIMAL" /\ DecimalMax \in {call.l.val, call.r.val}

Mirror(op) == CASE op = "<" -> ">" [] op = ">" -> "<" [] op = "<=" -> ">=" [] op = ">=" -> "<=" [] OTHER -> op
Opposite(op) == CASE op = "=" -> "#" [] op = "#" -> "=" [] op = "<" -> ">=" [] op = ">=" -> "<" [] op = ">" -> "<=" [] op = "<=" -> ">"
\* Comparisons of numbers with numbers, of texts with texts and of booleans with
\* booleans agree with each other over all six operators and both orders of the
\* operands, across the classes that implement them.
ComparisonsAgree ==
    (call.kind = "compare" /\ result.type # "CmpNull" /\
        ((Numeric(call.l) /\ Numeric(call.r)) \/ call.l.type = call.r.type)) =>
      /\ result.type \in {"CmpTrue", "CmpFalse"}
      /\ Compare(Mirror(call.op), call.r, call.l) = result.type
      /\ Compare(Opposite(call.op), call.l, call.r) # result.type
      /\ call.op = "=" => (result.type = "CmpTrue" <=> call.l.val = call.r.val)

\* Min and Max of two numbers give back both of them, the smaller as Min, whichever
\* class the left operand selects and whatever the two types are.
MinMaxSplit ==
    (call.kind = "extreme" /\ Numeric(call.l) /\ Numeric(call.r) /\ ~call.l.null /\ ~call.r.null) =>
      LET other == Extreme(IF call.op = "min" THEN "max" ELSE "min", call.l, call.r)
      IN  /\ {result.val, other.val} = {call.l.val, call.r.val}
          /\ Compare(IF call.op = "min" THEN "<=" ELSE ">=", result, other) = "CmpTrue"

\* A cast between numeric types keeps the value, cutting off a fraction, or is
\* refused because the target cannot hold it; only the double -2^63, which passes
\* the test for BIGINT, becomes NULL.
CastKeepsValue ==
    (call.kind = "cast" /\ Numeric(call.l) /\ ~call.l.null /\ call.op \in NumericTypes) =>
      IF Failed(result)
      THEN Less(call.l.val, Whole(MinOf(call.op))) \/ Less(Whole(MaxOf(call.op)), call.l.val)
      ELSE /\ result.type = call.op
           /\ result.val = IF call.op = "DECIMAL" THEN call.l.val ELSE Whole(Truncated(call.l.val))
           /\ result.null => call.l.val = DoubleMin("BIGINT")

\* What ToString writes the casts from VARCHAR read back: every integer, boolean and
\* decimal with few digits survives the way through its text.
TextRoundTrip ==
    (call.kind = "cast" /\ call.op = "VARCHAR" /\ ~call.l.null) =>
        CastAs(result, call.l.type) = call.l

\* ValueFactory::CastAs... and Type::CastAs, two implementations of the same
\* conversions, agree wherever the latter yields a value; where it throws the
\* factory throws too, but for a NULL text, which only the factory knows, a
\* BOOLEAN made from another NULL, and the double 2^63.
FactoryAgrees ==
    (call.kind = "factory") =>
      LET cast == CastAs(call.l, call.op) IN
      \/ result = Reported(cast)
      \/ Failed(cast) /\ Failed(result)
      \/ Failed(cast) /\ call.l.null /\ result = GetNullValueByType(call.op)
      \/ call.op = "BIGINT" /\ call.l.val = DoubleMax("BIGINT")

\* What a tuple stores of a value is the value again when it is read, NULL included.
StoredAndReadBack == call.kind = "store" => result = call.l

\* Arithmetic, comparisons, Min and Max return what the numbers, texts and NULLs they
\* are called with call for, in every pair of types; at the limits of INTEGER and BIGINT
\* they do so in a build whose integers wrap around.
OperationsExact == TypeOK /\ ArithmeticExact /\ NullOnlyFromNull /\ ComparisonsAgree /\ MinMaxSplit

\* Casts, both implementations of them, texts and storage keep the value they convert,
\* or refuse it.
ConversionsKeepValues == CastKeepsValue /\ TextRoundTrip /\ FactoryAgrees /\ StoredAndReadBack

=============================================================================
