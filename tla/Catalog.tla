------------------------------- MODULE Catalog -------------------------------
(***************************************************************************)
(* The catalog: tables and indexes by identifier, and by name.  A table's  *)
(* heap is the sequence of its rows; a table made without a heap (mock     *)
(* tables, binder tests) has in `rows' what a scan of it yields.  An index *)
(* holds the positions of the rows that its tree took when it was made.    *)
(***************************************************************************)
EXTENDS TypeSystem, TLC

LOCAL INSTANCE SequencesExt

VARIABLES
    tables,            \* oid -> TableInfo
    table_names,       \* name -> oid
    indexes,           \* oid -> IndexInfo
    index_names,       \* table name -> index name -> oid
    next_table_oid, next_index_oid
catalog == <<tables, table_names, indexes, index_names, next_table_oid, next_index_oid>>

EmptyMap == [x \in {} |-> x]
CatalogInit ==
    /\ tables = EmptyMap /\ table_names = EmptyMap /\ next_table_oid = 0
    /\ indexes = EmptyMap /\ index_names = EmptyMap /\ next_index_oid = 0

TableInfo(name, schema, heap, rows, oid) ==
    [name |-> name, schema |-> schema, heap |-> heap, rows |-> rows, oid |-> oid]
NullTable == TableInfo("", <<>>, FALSE, <<>>, -1)
IndexInfo(name, table, attrs, entries, oid) ==
    [name |-> name, table |-> table, attrs |-> attrs, entries |-> entries, oid |-> oid]
NullIndex == IndexInfo("", "", <<>>, <<>>, -1)

\* CreateTable: what it returns, and what it leaves in the catalog.
CanCreateTable(name) == name \notin DOMAIN table_names
IndexNamesWith(name) == (name :> EmptyMap) @@ index_names
CreateTable(name, schema, create_table_heap, rows) ==
    IF CanCreateTable(name)
    THEN /\ tables' = (next_table_oid :> TableInfo(name, schema, create_table_heap, rows, next_table_oid)) @@ tables
         /\ table_names' = (name :> next_table_oid) @@ table_names
         /\ index_names' = IndexNamesWith(name)
         /\ next_table_oid' = next_table_oid + 1
         /\ UNCHANGED <<indexes, next_index_oid>>
    ELSE UNCHANGED catalog

GetTable(name) == IF name \in DOMAIN table_names THEN tables[table_names[name]] ELSE NullTable
GetTableByOid(oid) == IF oid \in DOMAIN tables THEN tables[oid] ELSE NullTable
GetTableNames == DOMAIN table_names

\* The key of a row.
KeyOf(row, attrs) == [k \in DOMAIN attrs |-> row[attrs[k]]]
\* InsertEntry for each row of the heap.  The tree takes the first; then it says of every
\* other key that it is there, and leaves the one it has as it is (module BPlusTree): an
\* index leads to the first row of its table only.
InsertEntry(entries, i) == IF entries = <<>> THEN <<i>> ELSE entries
Populated(rows) == FoldLeft(InsertEntry, <<>>, [i \in DOMAIN rows |-> i])

CanCreateIndex(index, table) ==
    table \in DOMAIN table_names /\ index \notin DOMAIN index_names[table]
CreateIndex(index, table, attrs) ==
    IF CanCreateIndex(index, table)
    THEN /\ GetTable(table).heap      \* heap->Begin: the heap exists
         /\ indexes' = (next_index_oid :>
               IndexInfo(index, table, attrs, Populated(GetTable(table).rows), next_index_oid)) @@ indexes
         /\ index_names' = [index_names EXCEPT ![table] = (index :> next_index_oid) @@ @]
         /\ next_index_oid' = next_index_oid + 1
         /\ UNCHANGED <<tables, table_names, next_table_oid>>
    ELSE UNCHANGED catalog

GetIndex(index, table) ==
    IF table \in DOMAIN index_names /\ index \in DOMAIN index_names[table]
    THEN indexes[index_names[table][index]]
    ELSE NullIndex
GetIndexOfTableOid(index, oid) ==
    IF oid \in DOMAIN tables THEN GetIndex(index, tables[oid].name) ELSE NullIndex
GetIndexByOid(oid) == IF oid \in DOMAIN indexes THEN indexes[oid] ELSE NullIndex
\* In the order of an unordered_map, that is, in no particular order.
GetTableIndexes(table) ==
    IF table \in DOMAIN table_names
    THEN {indexes[index_names[table][i]] : i \in DOMAIN index_names[table]}
    ELSE {}

\* The "Broken Invariant" asserts of the catalog: the four maps agree, every table
\* has its map of indexes, and every identifier is below the next one.
MapsAgree ==
    /\ DOMAIN index_names = DOMAIN table_names
    /\ \A n \in DOMAIN table_names : table_names[n] \in DOMAIN tables /\ tables[table_names[n]].name = n
    /\ \A oid \in DOMAIN tables : tables[oid].oid = oid /\ oid < next_table_oid
    /\ \A n \in DOMAIN index_names : \A i \in DOMAIN index_names[n] :
          /\ index_names[n][i] \in DOMAIN indexes
          /\ indexes[index_names[n][i]].name = i /\ indexes[index_names[n][i]].table = n
    /\ \A oid \in DOMAIN indexes : indexes[oid].oid = oid /\ oid < next_index_oid
    /\ \A oid \in DOMAIN indexes : GetIndexOfTableOid(indexes[oid].name, table_names[indexes[oid].table]) = indexes[oid]

=============================================================================
