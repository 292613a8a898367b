------------------------------- MODULE Tuples -------------------------------
(***************************************************************************)
(* Tuple objects: how values are laid out in a tuple's bytes and read back *)
(* from them, how keys are made from tuples, and who owns the memory when  *)
(* tuples are copied, assigned, deserialized and destroyed.                *)
(*                                                                         *)
(* A byte is a record: the value it belongs to and which of its bytes it   *)
(* is.  Reading a value finds it only where all its bytes are in place, so *)
(* overlapping or misplaced fields show.  Heap blocks are reused as soon   *)
(* as they are free.                                                       *)
(*                                                                         *)
(* The same client calls the type system (SQLTypes) while it holds no      *)
(* tuple: the two share no state, so their interleavings show nothing new. *)
(***************************************************************************)
EXTENDS SQLTypes

LOCAL INSTANCE FiniteSetsExt
LOCAL INSTANCE SequencesExt

CONSTANTS
    Objs,             \* the tuple objects of the program
    SchemasOf,        \* the schemas tuples are made for
    RowsOf(_),        \* the rows of values that fit a schema
    KeyAttrs(_),      \* the columns an index on that schema takes for its key
    KeySize           \* the size of a GenericKey

VARIABLES tuples, heap, meant
tupleVars == <<tuples, heap, meant>>
vars == <<tuples, heap, meant, call, result>>

-----------------------------------------------------------------------------
(* Bytes.                                                                  *)

Byte(val, k) == [of |-> val, k |-> k]
Zero == Byte(<<0>>, 0)
Garbage == Byte(<<>>, 0)
Bytes(val, n) == [k \in 1..n |-> Byte(val, k)]

\* Value::SerializeTo: the bytes written at the address it is given.
Image(v) ==
    LET s == SerializeTo(v) IN
    IF v.type # "VARCHAR" THEN Bytes(s, TypeSize(v.type))
    ELSE Bytes(<<s[1]>>, 4) \o [i \in 1..(Len(s) - 1) |-> Byte(<<s[i + 1]>>, 0)]
                           \o (IF v.null THEN <<>> ELSE <<Zero>>)
Write(data, offset, image) ==
    [i \in DOMAIN data |-> IF i - offset \in DOMAIN image THEN image[i - offset] ELSE data[i]]

\* The object of n bytes at an offset, if it was written there as a whole.
ReadAt(data, offset, n) ==
    IF offset + n <= Len(data) /\ \A k \in 1..n : data[offset + k] = Byte(data[offset + 1].of, k)
    THEN data[offset + 1].of
    ELSE <<>>
\* Value::DeserializeFrom.
ValueAt(data, offset, t) ==
    LET n == ReadAt(data, offset, IF t = "VARCHAR" THEN 4 ELSE TypeSize(t))
        chars == [i \in 1..n[1] |-> data[offset + 4 + i].of[1]]
    IN  CASE n = <<>> -> Throw("GARBAGE")
          [] n # <<>> /\ t # "VARCHAR" -> DeserializeFrom(n, t)
          [] n # <<>> /\ t = "VARCHAR" -> DeserializeFrom(IF n[1] = NullLength THEN n ELSE n \o chars, t)

-----------------------------------------------------------------------------
(* The bytes of a tuple.                                                   *)

\* Value::GetLength, with 0 for BUSTUB_VALUE_NULL.
LengthOf(v) == IF v.null THEN 0 ELSE SerializeTo(v)[1]
\* Mutant: a NULL text takes no room for its length.
PayloadOfNonNulls(v) == IF v.null THEN 0 ELSE LengthOf(v) + 4
Payload(v) == LengthOf(v) + 4
TupleSize(values, schema) ==
    schema.length + FoldLeft(LAMBDA n, i : n + Payload(values[i]), 0, schema.uninlined)

\* The constructor Tuple(values, schema): `at' is the running offset of the texts.
Filled(values, schema) ==
    LET Put(acc, i) ==
            LET col == schema.columns[i] IN
            IF IsInlined(col)
            THEN [acc EXCEPT !.data = Write(@, col.offset, Image(values[i]))]
            ELSE [data |-> Write(Write(acc.data, col.offset, Bytes(<<acc.at>>, 4)), acc.at, Image(values[i])),
                  at |-> acc.at + Payload(values[i])]
        blank == [data |-> [k \in 1..TupleSize(values, schema) |-> Zero], at |-> schema.length]
    IN  FoldLeft(Put, blank, [i \in DOMAIN schema.columns |-> i]).data

GetDataPtr(data, schema, i) ==
    LET col == schema.columns[i] IN
    IF IsInlined(col) THEN col.offset ELSE ReadAt(data, col.offset, 4)[1]
GetValue(data, schema, i) == ValueAt(data, GetDataPtr(data, schema, i), schema.columns[i].type)
KeyFromTuple(data, schema, attrs) ==
    Filled([k \in DOMAIN attrs |-> GetValue(data, schema, attrs[k])], CopySchema(schema, attrs))

\* GenericKey::SetFromKey, ToValue and GenericComparator.  The keys fit: a longer one would
\* be copied over the end of the array, which SetFromKey does not test.
SetFromKey(key) == Write([k \in 1..KeySize |-> Zero], 0, key)
ToValue(key, schema, i) == GetValue(key, schema, i)
ComparedColumns(schema) == DOMAIN schema.columns
Comparator(l, r, schema) ==
    LET Cmp(op, i) == Compare(op, ToValue(l, schema, i), ToValue(r, schema, i)) = "CmpTrue"
        decides == {i \in ComparedColumns(schema) : Cmp("<", i) \/ Cmp(">", i)}
    IN  IF decides = {} THEN 0 ELSE IF Cmp("<", Min(decides)) THEN -1 ELSE 1

-----------------------------------------------------------------------------
(* Objects and heap blocks.  Block 0 is nullptr.                           *)

Freed == <<Garbage>>     \* no tuple has one byte
NoTuple == [live |-> FALSE, allocated |-> FALSE, size |-> 0, data |-> 0]
NoMeaning == [schema |-> Schema(<<>>), values |-> <<>>]
Blocks == 1..(Cardinality(Objs) + 2)

Init ==
    /\ TypesInit
    /\ tuples = [o \in Objs |-> NoTuple]
    /\ heap = [b \in Blocks |-> Freed]
    /\ meant = [o \in Objs |-> NoMeaning]

Free(h) == {b \in Blocks : h[b] = Freed}
FirstFree(h) == Min(Free(h))
DeleteIf(h, owned, b) == IF owned THEN [h EXCEPT ![b] = Freed] ELSE h
Contents(h, b) == IF b = 0 THEN <<>> ELSE h[b]
\* memcpy of n bytes from a block; what lies beyond its end is anything.
Copied(from, n) == [k \in 1..n |-> IF k \in DOMAIN from THEN from[k] ELSE Garbage]

\* new char[], filled by a memcpy or by the serialization of values.
Owned(o, h, bytes) ==
    LET b == FirstFree(h) IN
    /\ heap' = [h EXCEPT ![b] = bytes]
    /\ tuples' = [tuples EXCEPT ![o] = [live |-> TRUE, allocated |-> TRUE, size |-> Len(bytes), data |-> b]]

Dead(o) == ~tuples[o].live
DefaultConstruct ==
    \E o \in Objs :
        /\ Dead(o)
        /\ tuples' = [tuples EXCEPT ![o] = [NoTuple EXCEPT !.live = TRUE]]
        /\ meant' = [meant EXCEPT ![o] = NoMeaning]
        /\ UNCHANGED heap
Construct ==
    \E o \in Objs, schema \in SchemasOf : \E values \in RowsOf(schema) :
        /\ Dead(o)
        /\ Owned(o, heap, Filled(values, schema))
        /\ meant' = [meant EXCEPT ![o] = [schema |-> schema, values |-> values]]
CopyConstruct ==
    \E o, p \in Objs :
        /\ Dead(o) /\ ~Dead(p)
        /\ IF tuples[p].allocated
           THEN Owned(o, heap, Copied(Contents(heap, tuples[p].data), tuples[p].size))
           ELSE tuples' = [tuples EXCEPT ![o] = tuples[p]] /\ UNCHANGED heap
        /\ meant' = [meant EXCEPT ![o] = meant[p]]
\* Mutant: the old bytes are not deleted.
ReleasedNever(o) == heap
Released(o) == DeleteIf(heap, tuples[o].allocated, tuples[o].data)
\* operator=: the old bytes go first.  No caller assigns a tuple to itself, which would
\* copy its new, uninitialized block onto itself.
Assign ==
    \E o, p \in Objs :
        /\ ~Dead(o) /\ ~Dead(p) /\ o # p
        /\ LET h == Released(o) IN
           IF tuples[p].allocated
           THEN Owned(o, h, Copied(Contents(h, tuples[p].data), tuples[p].size))
           ELSE tuples' = [tuples EXCEPT ![o] = tuples[p]] /\ heap' = h
        /\ meant' = [meant EXCEPT ![o] = meant[p]]
\* SerializeTo into a buffer of the caller, then DeserializeFrom it into another tuple.
SerializeThenDeserialize ==
    \E o, p \in Objs :
        /\ ~Dead(o) /\ tuples[p].allocated
        /\ LET storage == Bytes(<<tuples[p].size>>, 4) \o Copied(Contents(heap, tuples[p].data), tuples[p].size)
               h == Released(o)
           IN  Owned(o, h, SubSeq(storage, 5, 4 + ReadAt(storage, 0, 4)[1]))
        /\ meant' = [meant EXCEPT ![o] = meant[p]]
MakeKey ==
    \E o, p \in Objs :
        /\ Dead(o) /\ tuples[p].allocated /\ meant[p].schema \in SchemasOf
        /\ LET schema == meant[p].schema
               attrs == KeyAttrs(schema)
           IN  /\ Owned(o, heap, KeyFromTuple(Contents(heap, tuples[p].data), schema, attrs))
               /\ meant' = [meant EXCEPT ![o] =
                      [schema |-> CopySchema(schema, attrs),
                       values |-> [k \in DOMAIN attrs |-> meant[p].values[attrs[k]]]]]
Destroy ==
    \E o \in Objs :
        /\ ~Dead(o)
        /\ heap' = Released(o)
        /\ tuples' = [tuples EXCEPT ![o] = NoTuple]
        /\ meant' = [meant EXCEPT ![o] = NoMeaning]

TuplesNext ==
    DefaultConstruct \/ Construct \/ CopyConstruct \/ Assign \/ SerializeThenDeserialize \/ MakeKey \/ Destroy

Next ==
    \/ call = NoCall /\ TuplesNext /\ UNCHANGED typeVars
    \/ (\A o \in Objs : Dead(o)) /\ TypesNext /\ UNCHANGED tupleVars

Spec == Init /\ [][Next]_vars

-----------------------------------------------------------------------------
(* Properties.                                                             *)

\* Every block of the heap belongs to exactly one live tuple, which is as long as
\* the block; no tuple owns a block that was freed.  Nothing is leaked, shared or
\* freed twice by copies, assignments, deserialization and destructors in any order.
OwnedOnce ==
    /\ \A o \in Objs : tuples[o].allocated =>
          tuples[o].data \notin Free(heap) /\ Len(heap[tuples[o].data]) = tuples[o].size
    /\ \A b \in Blocks \ Free(heap) :
          Cardinality({o \in Objs : tuples[o].allocated /\ tuples[o].data = b}) = 1

\* Whatever way a tuple came about (from values, as a copy, from storage, as the
\* key of another tuple), GetValue returns each of the values it stands for, NULLs
\* and texts of every length included: fields neither overlap nor are cut off.
ValuesAreRead ==
    \A o \in Objs : tuples[o].allocated =>
        \A i \in DOMAIN meant[o].values :
            GetValue(heap[tuples[o].data], meant[o].schema, i) = meant[o].values[i]

AllKeySchemas == {CopySchema(s, KeyAttrs(s)) : s \in SchemasOf}
NullFree(o) == \A i \in DOMAIN meant[o].values : ~meant[o].values[i].null
Lexicographic(x, y) ==
    LET differ == {i \in DOMAIN x : Compare("=", x[i], y[i]) # "CmpTrue"} IN
    IF differ = {} THEN 0
    ELSE IF Compare("<", x[Min(differ)], y[Min(differ)]) = "CmpTrue" THEN -1 ELSE 1
\* GenericComparator orders keys without NULLs as their values are ordered, column
\* by column, however the key was copied into its fixed-size array.
ComparatorIsLexicographic ==
    \A o, p \in Objs :
        (/\ tuples[o].allocated /\ tuples[p].allocated
         /\ meant[o].schema = meant[p].schema /\ meant[o].schema \in AllKeySchemas
         /\ NullFree(o) /\ NullFree(p)) =>
        Comparator(SetFromKey(heap[tuples[o].data]), SetFromKey(heap[tuples[p].data]), meant[o].schema) =
            Lexicographic(meant[o].values, meant[p].values)

\* What tuples and keys are made from is what is read from them, and what decides
\* their order.
ReadsBack == ValuesAreRead /\ ComparatorIsLexicographic

=============================================================================
