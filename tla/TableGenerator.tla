---------------------------- MODULE TableGenerator ----------------------------
(***************************************************************************)
(* TableGenerator: the test tables, filled in batches.  Each column draws  *)
(* the values of a batch before any row of it is inserted; the counter of  *)
(* a serial or cyclic column goes on from batch to batch, the generator of *)
(* a uniform one begins again with each.  The tables are in the catalog.   *)
(***************************************************************************)
EXTENDS Catalog
LOCAL INSTANCE FiniteSetsExt

CONSTANTS
    TEST1_SIZE, TEST7_SIZE, \* rows of test_1 and of test_2: 1000 and 100
    batch_size,             \* rows of a batch: 128
    Draw(_, _, _)           \* the k-th number a new generator draws between two others

ASSUME SizesAssumption == TEST1_SIZE \in Nat /\ TEST7_SIZE \in Nat /\ batch_size \in Nat \ {0}

VARIABLES
    filling,        \* the table being filled, by its place in insert_meta; 0 before the first
    serial_counter_,\* column -> its counter
    batch           \* the rows of the batch that are not inserted yet
generator == <<filling, serial_counter_, batch>>

\* The metadata of a column (every one is an INTEGER) and of a table, and the tables.
ColumnInsertMeta(name, dist, min, max) == [name |-> name, dist |-> dist, min |-> min, max |-> max]
TableInsertMeta(name, num_rows, cols) == [name |-> name, num_rows |-> num_rows, cols |-> cols]
insert_meta ==
    << TableInsertMeta("empty_table", 0, << ColumnInsertMeta("colA", "Serial", 0, 0) >>),
       TableInsertMeta("test_simple_seq_1", 10, << ColumnInsertMeta("col1", "Serial", 0, 10) >>),
       TableInsertMeta("test_simple_seq_2", 10,
           << ColumnInsertMeta("col1", "Serial", 0, 10), ColumnInsertMeta("col2", "Serial", 10, 20) >>),
       TableInsertMeta("test_1", TEST1_SIZE,
           << ColumnInsertMeta("colA", "Serial", 0, 0), ColumnInsertMeta("colB", "Uniform", 0, 9),
              ColumnInsertMeta("colC", "Uniform", 0, 9999), ColumnInsertMeta("colD", "Uniform", 0, 99999) >>),
       TableInsertMeta("test_2", TEST7_SIZE,
           << ColumnInsertMeta("colA", "Serial", 0, 99), ColumnInsertMeta("colB", "Uniform", 0, 999),
              ColumnInsertMeta("colC", "Cyclic", 0, 9) >>) >>

Done == filling > Len(insert_meta)
Meta == insert_meta[filling]
Columns == DOMAIN Meta.cols
Inserted == GetTable(Meta.name).rows

GeneratorInit == filling = 0 /\ serial_counter_ = <<>> /\ batch = <<>>

-----------------------------------------------------------------------------
(* GenNumericValues: the k-th value of a batch, and the counter behind it. *)

Cyclic(col, counter, k) == (counter + k - 1) % (col.max + 1)
GenNumericValue(col, counter, k) ==
    CASE col.dist = "Serial" -> counter + k - 1 + col.min
      [] col.dist = "Cyclic" -> Cyclic(col, counter, k)
      [] OTHER -> Draw(k, col.min, col.max)
\* Mutant: the counter is a copy's.
CounterKept(col, counter, count) == counter
CounterAfter(col, counter, count) ==
    CASE col.dist = "Serial" -> counter + count
      [] col.dist = "Cyclic" -> Cyclic(col, counter, count + 1)
      [] OTHER -> counter

-----------------------------------------------------------------------------
(* FillTable and GenerateTestTables.                                       *)

NumValues == Min({batch_size, Meta.num_rows - Len(Inserted)})
MakeBatch ==
    /\ filling # 0 /\ ~Done /\ batch = <<>> /\ Len(Inserted) < Meta.num_rows
    /\ batch' = [k \in 1..NumValues |-> [c \in Columns |-> GenNumericValue(Meta.cols[c], serial_counter_[c], k)]]
    /\ serial_counter_' = [c \in Columns |-> CounterAfter(Meta.cols[c], serial_counter_[c], NumValues)]
    /\ UNCHANGED <<catalog, filling>>
InsertRow ==
    /\ batch # <<>>
    /\ LET row == [c \in Columns |-> Value("INTEGER", "INTEGER", Head(batch)[c])]
       IN  tables' = [tables EXCEPT ![table_names[Meta.name]].rows = Append(@, row)]
    /\ batch' = Tail(batch)
    /\ UNCHANGED <<filling, serial_counter_, table_names, indexes, index_names, next_table_oid, next_index_oid>>
\* The next table is created, unless there is none.
TableSchema(meta) == [c \in DOMAIN meta.cols |-> FixedColumn(<<meta.cols[c].name>>, "INTEGER")]
NextTable ==
    /\ ~Done /\ batch = <<>>
    /\ filling # 0 => Len(Inserted) >= Meta.num_rows
    /\ filling' = filling + 1
    /\ IF filling = Len(insert_meta)
       THEN serial_counter_' = <<>> /\ UNCHANGED catalog
       ELSE LET meta == insert_meta[filling + 1] IN
            /\ CanCreateTable(meta.name)
            /\ CreateTable(meta.name, TableSchema(meta), TRUE, <<>>)
            /\ serial_counter_' = [c \in DOMAIN meta.cols |-> 0]
    /\ UNCHANGED batch
GenerateTestTables == MakeBatch \/ InsertRow \/ NextTable

-----------------------------------------------------------------------------
(* Properties.                                                             *)

\* A table is left with as many rows as its metadata says, never more, and however the
\* rows fall into batches: a serial column numbers the rows from min_, the key the tests
\* join and look up on; a cyclic one runs through 0 .. max_ and begins again; a uniform
\* one stays between min_ and max_.
TablesAsConfigured ==
    \A i \in DOMAIN insert_meta : i <= filling =>
        LET meta == insert_meta[i]
            rows == GetTable(meta.name).rows
        IN  /\ IF i = filling THEN Len(rows) <= meta.num_rows ELSE Len(rows) = meta.num_rows
            /\ \A r \in DOMAIN rows, c \in DOMAIN meta.cols :
                  LET v == GetAs(rows[r][c])
                      col == meta.cols[c]
                  IN  CASE col.dist = "Serial" -> v = col.min + r - 1
                        [] col.dist = "Cyclic" -> v = (r - 1) % (col.max + 1)
                        [] col.dist = "Uniform" -> v \in col.min..col.max

=============================================================================
