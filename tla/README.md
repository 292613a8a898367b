# A TLA+ verification of BusTub

BusTub is the teaching database of CMU 15-445; this repository holds one
solution of its fall 2022 projects. This directory models it in TLA+, from the
disk manager up to the SQL session, checks the models with TLC on small
instances and proves the main results about eight of its parts with TLAPS
for every size. Paths below are relative to `src/src/`, lines are those of the source
as it stands.

- [The system](#the-system): its parts and how they interact
- [The modules](#the-modules): what models what, and how state and actions correspond
- [The runs](#the-runs): what TLC checks, with which bounds and which fairness
- [The proofs](#the-proofs): what holds for every value of the constants
- [Where the code and its comments differ](#where-the-code-and-its-comments-differ)
- [What is not modelled](#what-is-not-modelled)

## The system

A text goes through `BustubInstance::ExecuteSql`: it begins a transaction, binds,
plans and optimizes each statement against the catalog, and executes the plan.
Tables are table heaps, chains of slotted pages; indexes are B+ trees. Both live
in pages that they get from the buffer pool manager, which keeps a fixed number
of them in frames, finds them through an extendible hash table, asks the LRU-K
replacer which frame to give up, and reads and writes them through the disk
manager.

```
   sessions ── BustubInstance ── binder / planner / optimizer ── executors
                   │  catalog_lock_                                 │
                Catalog ── TableHeap, TableIterator ── BPlusTree ◄──┘
                   │             │ page latches           │ header page
        TransactionManager       ▼                        ▼
            (write sets)   BufferPoolManager  (latch_, pins, dirty flags)
                            │        │        │
              ExtendibleHashTable  LRUKReplacer  DiskManager
```

| Part | Modules | What is hard about it | Status |
|---|---|---|---|
| Extendible hash table (`container/hash/`) | `KeyValueMap`, `ExtendibleHashTable` | one Insert may double and split several times; a misplaced pair is noticed much later | modelled, proved |
| LRU-K replacer (`buffer/lru_k_replacer.cpp`) | `Replacer`, `LRUKReplacer` | counters and list order kept apart from the facts they stand for; a call that locks its own latch | modelled, proved |
| Buffer pool manager (`buffer/`) | `PageStore`, `BufferPoolManager` | eviction while clients hold and write pages; FlushAllPages reads without the latch; freed frames keep stale metadata | modelled, proved |
| Disk manager (`storage/disk/`) | `DiskManager` | int offsets and sizes, short reads that leave a stream failed, writes that fail silently, restarts | modelled, proved |
| Table page (`storage/page/table_page.cpp`) | `SlottedPage`, `TablePage`, `TupleStore` | every change moves the bytes of other tuples | modelled, proved |
| Table heap, iterator (`storage/table/`), page latches | `TableHeap` | pins, latches and the pool's limit at once; a latch taken twice by a reader; pages used after they were given up | modelled |
| Transactions (`concurrency/transaction_manager.cpp`) | `TransactionManager` | commits and aborts, record by record, among other transactions; roll-back through operations that can fail | modelled |
| Schemas, tuples, keys (`catalog/`, `storage/table/tuple.cpp`) | `Values`, `Tuples` | layout and raw memory: who owns a tuple's bytes | modelled |
| SQL types (`type/`) | `Values`, `TypeSystem`, `SQLTypes` | overflow tests at several widths, NULL as a bit pattern, two sets of casts | modelled |
| Header page (`storage/page/header_page.cpp`) | `RootDirectory`, `HeaderPage` | records moved by memmove | modelled, proved |
| B+ tree (`storage/index/`) | `BPlusTree` | pins on every path; what a wrong duplicate test does to a tree | partly, proved |
| Catalog (`include/catalog/catalog.h`) | `Catalog` | four maps that must agree | modelled |
| Binder, planner, optimizer, executors | `Binder`, `Planner`, `Plans`, `Optimizer`, `Executors`, `SQLReference`, `Session` | does the pipeline return the rows the query asks for? | modelled |
| Instance and sessions (`common/bustub_instance.cpp`) | `BustubInstance`, `Session` | reads of the catalog outside `catalog_lock_`; exceptions that leave locks and transactions behind | partly, proved |
| Table generator (`catalog/table_generator.cpp`) | `TableGenerator` | counters that go on across batches | modelled |
| Trie (`include/primer/p0_trie.h`) | `TypedMap`, `Trie` | Remove gives up the latch between its halves; GetValue reads after releasing it | modelled |

Parts that are stubs in the source, and the rest of what is left out, are under
[What is not modelled](#what-is-not-modelled). The hazards of each part, at the
lines where they bite, are listed in `PROJECT.json` with the properties that cover
them.

## The modules

The parts are composed in three ways. Where one relies on another only for what
it promises, it uses the abstract specification and a refinement shows that the
code behind it is one: the pool's module holds the abstract `Replacer` and a map
as page table, `LRUKReplacer` and `ExtendibleHashTable` implement them. Where the
interaction is the point, the modules extend each other: `TransactionManager`
runs over `TableHeap`, which runs over the pages of `SlottedPage`; the trees of
`BPlusTree` share the page of `HeaderPage` with others; `Tuples` are made of the values
of `SQLTypes`; `TableGenerator` fills the tables of `Catalog`. And the query pipeline
is a chain of operators, `Binder` to `Executors`, that `Session` runs stage by stage.

`MC…` modules hold the values of the constants for TLC where a `.cfg` file cannot
spell them; `…Proofs` modules hold the theorems.

### Storage

**ExtendibleHashTable.** `dir_`, `depth_`, `list_`, `global_depth_` and `num_buckets_`
are the fields of the class. A directory index is a function from bit positions
to {0, 1}, so the mask of `IndexOf` is a restriction. A bucket's list is a function
from keys to a value or `NotFound`: keys are distinct and no caller sees the order.
`Find` and `Remove` are one action each. `Insert` holds the latch through a loop:
`InsertBegin` takes it, `InsertSplit` is an iteration that splits (with the doubling
before it), `InsertIntoBucket` the one that succeeds.

**LRUKReplacer.** `history` and `lru` are the two linked lists without their sentinels.
`RecordAccess` is three actions: the normal one; `RecordAccessThrows` for an id
beyond `replacer_size_`; `RecordAccessWhenFull`, where the code calls `Evict` with
`latch_` held and waits for itself. `SetEvictable` of a frame that is not tracked does
nothing, and the abstract `Replacer` says so as well. `ret` keeps the last result for the refinement.

**BufferPoolManager.** Every operation holds `latch_` from beginning to end and is
one action, with all it does to page table, free list, replacer, frame and disk.
The exception is `FlushAllPgsImp`, which reads the page id of a frame without the
latch (`FlushAllReadId`) and flushes it later (`FlushAllFlush`). A client holds at
most one pin and the frame pointer it got, writes through it without the latch,
and calls `UnpinPage` with `is_dirty` true if it wrote. A page's contents are the
number of the last write to it. Which free frame and which evictable frame is
taken is left open. Clients use pages that were allocated and not deleted, although
nothing in the code refuses others.

**DiskManager.** The file is a sequence of pages, `bad` the failed state of its stream,
`log_state` and `log_position` the state and the cursor of the log's, `INT_MAX` the largest of the ints in which offsets and sizes are
computed. `WritePageFails` and `WriteLogFails` are a device that fails, `Restart` the
end of the process and a new manager on the same files. A write to the log goes to the
end because of the mode the stream is opened in (`LogMode`), wherever a read has left the
cursor; a read that meets the end fails the stream until `ReadLog` clears it, and a
failed stream drops what is written. `written`, `lost` and `log_written` record what was
asked to be stored, for the properties. BufferPoolManager's disk, a
function from pages to contents, is this one while files are small and devices do
not fail (`ReadsBack`).

**SlottedPage, TablePage, TupleStore.** A page is a record of its header fields, its
directory (`offset`, `size`) and its bytes; `SlottedPage` has each function of
`table_page.cpp` as an operator on it, down to the `memcpy` and `memmove` they do. The
deleted flag is the top bit of a size word; the unsigned subtraction of
`GetFreeSpaceRemaining` is modulo the word. `TablePage` calls them in any order and
keeps the answer; `TupleStore` is what its users see, numbered tuples.

**TableHeap, TransactionManager.** A thread that has called an operation is in
`op[t]`; a step is what it does between two points at which others can come in:
the fetch of a page, which pins it, and the work on it under its latch, up to the
unpin. Two operations hold more: `InsertTuple` that links a new page has it and the
full one before it pinned and latched for writing (`"link"`), the iterator keeps its read latch
from step to step and, on its way to the next page, two pins (`"hop"`, `"leave"`). Pins
count against `PoolSize`; where the code does not test for a page that could not be
fetched, or asserts that it was, the program stops (`crashed`). `Commit` and `Abort` work one write record per step. A page latch
lets readers in while a writer waits, as the common implementation of
`std::shared_mutex` does; with one that prefers writers the iterator, which takes a
read latch that it holds already, could wait for a writer that waits for it. Since
the lock manager grants everything, callers keep to what row locks would give them:
they write rows that exist and that no other unfinished transaction has written. And
they do not commit a transaction that is ABORTED, which `Commit` itself does not test.
What the transactions do and with how many frames is a `workload`, chosen in Init.

**HeaderPage, RootDirectory.** The records of a page by their place, with the bytes
behind the last one kept as they are. `InsertRecord` does not test for room; the names
are as many as fit (`NamesAssumption`). **BPlusTree.** Trees, tables and the header
page share one sequence of pages, with the pins of every call; others keep records
on the header page beside those of the trees (`OtherRecords`). `Split`,
`InsertIntoParent` and internal pages are not there because no call can reach
them: `GetValue` takes a comparison's result for a truth value, `Insert` uses it to
look for duplicates, so a tree never gets a second key (`NoLeafFills`, proved).
Page 0 is allocated as the header page beforehand, as the tests do and
`BustubInstance` does not, and no two trees have one name.

### Values, tuples, queries

**Values, TypeSystem.** A value is a record of type, nullness and
contents. Each class of `type/` is the set of operators that carry its name. Integers
have the widths `Bits` gives them, arithmetic wraps or overflows at the width it is
computed in, and where that is undefined the result is a set of outcomes. Doubles
are exact fractions. A text is a sequence of character codes, and the conversions
between numbers and texts parse and format them. `SQLTypes` makes one call at a time.
`Values` also has the layout of columns and schemas.

**Tuples.** A byte of a tuple knows which byte of which value it is, so that
fields that overlap or are misplaced are not read back. Heap blocks are reused at
once, which makes a stale pointer show. No tuple is assigned to itself. `Tuples`
extends `SQLTypes`: one state machine makes the calls of both.

**Binder, Planner, Optimizer, Executors.** Pure functions in the code, and operators
here: parse tree to bound statement, bound statement to plan, plan to plan, plan
to rows. A parse tree is the record of the fields that the binder reads, since the
parser is a library. `Plans!MeaningWith` says what a plan yields, given the rows that an
index leads to: those it has (`IndexedRows`; `Catalog` puts only the first row of a table into
one) or all rows of the table (`AllRows`); `SQLReference` says
what a SELECT means by its names alone, without binder or planner. **Session**
takes texts through the stages, one statement and one stage per step, with the
catalog, the session variables and the exceptions that end a text. Every
optimizer rule is modelled, those that `Optimize` does not call as well.

**BustubInstance.** Sessions as threads: where `catalog_lock_` and the global latch are
taken and given back, which steps read the catalog without the lock, where an
exception leaves. A table is known by its name, an index by its name and its table. A read of a map that is being changed may crash.

**TableGenerator.** The test tables: creating one, drawing a batch, inserting a row. A
session may generate them before its first text (`GenerateTestTable`), which can then
query them.

**Trie, TypedMap.** Nodes in a heap, with addresses that tell an entry from an erased
one some thread still points to. Remove and GetValue take the two steps they take
around the latch, and keep pointers from one to the other. Which thread may call what is
a parameter (`MayCall`).

## The runs

| Run | Instance | States | Shows |
|---|---|---|---|
| `hash_table` | four `int` keys, two values, three hash bits, buckets of one | 24,585 | keys are in the bucket they are looked for in (`KeysAreFound`); the directory is coherent, no bucket is lost or overfull, a split has a bit left (`TableCoherent`); implements `KeyValueMap` (`RefinesMap`); every Insert returns (`InsertReturns`) |
| `lru_k` | ids 0 to 4 for three frames, k = 2, six accesses | 438,017 | lists and counters agree (`ListsAndSizesAgree`); hangs only through an id the pool never uses (`NeverStuckWithinSize`); `EvictionOrder`; implements `Replacer` (`RefinesReplacer`) |
| `buffer_pool` | two frames, three pages, two clients | 195,716 | frames, pins, replacer agree (`PoolAgrees`); clean pages are on disk (`CleanPagesOnDisk`); FlushAllPages misses nothing (`FlushAllComplete`); implements `PageStore` (`RefinesPageStore`) |
| `disk_manager` | two pages with a hole, a failure, restarts, a log of three bytes | 289,086 | pages read back (`ReadsBack`); the log reads back at every offset, after short reads and failures too (`LogReadsBack`) |
| `table_page` | room for three tuples of one to three bytes | 28,764 | no overlap (`WellLaidOut`), no leak (`NothingLeaks`); other tuples keep their bytes (`TuplesStay`); implements `TupleStore` (`IsATupleStore`) |
| `transactions` | two transactions, pages of two tuples, four workloads: concurrent writers; one after the other with rows that grow and shrink; scans among inserts and deletes; two frames, refused tuples and logging | 277,064 | pages and their chain stay well formed (`PagesLaidOut`); no assertion fails and no nullptr is used with two frames per thread (`NeverCrashes`); rows are as committed (`RowsAsCommitted`); scans complete and in order (`ScanComplete`); every call returns, or the program stops for want of a frame (`EveryCallReturns`) |
| `bplustree` | two trees, two keys, a table, one other user of the header page | 82,734 | `PinsReturned`; the header page names the roots (`HeaderAgrees`) and is a `RootDirectory` (`RefinesDirectory`); no entry is lost or changed (`EntriesStay`) |
| `types_and_tuples` | limits, zeros, NULLs and neighbours of every type; two tuple objects, three schemas | 55,921 | arithmetic exact or refused, and beyond the promoted type at least refusable, NULL only from NULL, comparisons consistent (`OperationsExact`); casts, texts, storage keep values (`ConversionsKeepValues`); one owner per block (`OwnedOnce`); tuples and keys read back, the comparator is lexicographic (`ReadsBack`) |
| `session` | seven hundred queries, one text per other statement, the test tables, smaller | 2,752 | plan means query (`PlanMeansQuery`); optimizer rules keep the meaning, up to what indexes leave out and LEFT joins on `true` add (`RulesPreserveMeaning`); executors keep it (`ResultIsMeaning`); catalog maps agree, test tables are filled as configured (`CatalogAgrees`) |
| `instance` | three sessions, a table, an index name on two tables, a checkpoint | 307,084 | a table, and an index of a table, is created once (`CreatedOnce`); every text ends, and the checkpoint completes if no text throws (`SessionsAndCheckpointEnd`) |
| `trie` | four threads, two of them removers | 6,511 | no branch left, no pointer gone bad, loop and recursion remove alike (`TrieIntact`); implements `TypedMap` (`RefinesMap`) |

A twelfth run, `lru_k_distance`, ends in a violation, see
[below](#where-the-code-and-its-comments-differ). Several invariants of a module are
conjoined in one property (`TableCoherent`, `PoolAgrees`, `OperationsExact` …); each
conjunct is a definition of its own with its own comment.

### Bounds, and why they are enough

*Hash table:* keys 0 and 4 agree in two of three bits, so that one Insert splits
three times; 1 and 3 then split a bucket shallower than the directory. *LRU-K:* six accesses let
two frames reach k accesses in either order with a third in the history list;
id 3 is accepted although the pool has no such frame, id 4 is refused.
*Buffer pool:* fewer frames than pages forces evictions; two clients can share a
page; a page is born as zeroes, so one write tells a lost or stale copy from the page (with
two the run passes too). *Disk:* ints up to 15 and pages
of four bytes put the 2^31 limit at the fourth page. *Table page:* three tuples
of different sizes give every case of above, below and equal offset; the sizes
leave room for an update that fits and one that does not. *Transactions:* a page
takes two rows, so that inserts extend the chain; two calls per transaction are
enough for a row to be written twice, and the serial workload has three. *SQL
types:* every pair of types and, at each width, the extreme values, which are the
ones the overflow tests are about. *Session:* all combinations of FROM (tables,
joins, subqueries, CTEs), WHERE and select list, and a text for each remaining
clause; tables of three, two and one rows, with NULLs and ties, and indexes on columns with
and without them. *Instance:* three
sessions, so that one waits behind another with a third holding the lock.
*Trie:* keys that share a first character, so that removing one keeps the other's
branch, while another thread is between the halves of removing that one. `MaxPages`, `MaxWrites`, `MaxTimestamp`, `MaxCalls`, `MaxLog`, `MaxErrors`, `MaxTexts`,
`MaxDepth` and `MaxRows` bound what only grows.

No symmetry is used. Deadlock is checked except where the system really may stop: when
`RecordAccess` locks its latch twice (`lru_k`), when an assertion fails or a nullptr is
used for want of a frame (`transactions`) and when all texts are done (`session`, `instance`).

### Fairness

- `hash_table`: weak fairness of the two actions that continue an Insert. The
  thread holds the latch and waits for nothing; it only needs to be scheduled.
- `transactions`: strong fairness of the steps of each thread inside a call. A thread
  waits only for page latches, and the few threads that hold one give it back;
  that a latch is eventually granted to a thread that finds it free again and
  again is what the implementations of `std::shared_mutex` provide.
- `instance`: weak fairness of the whole. Each session submits one text, so the
  behaviours are finite and it says only that the system does not stop while a
  thread can go on.

Nothing makes a caller call.

### The properties

Every property is stated in words above its definition, with the code it is about.
Every property of a passing run has a mutant in `PROJECT.json`: a plausible slip in
one operator, defined just before the operator it replaces, with which TLC finds
that property violated. The deepest ones:

- `RefinesMap`, `RefinesReplacer`, `RefinesPageStore`, `IsATupleStore`, `RefinesDirectory`:
  the detailed specification implements the abstract one.
- `FlushAllComplete`: when FlushAllPages returns, every page that was in the pool when
  it began is on disk as it was then or newer, wherever it has moved meanwhile.
- `RowsAsCommitted`: a row that no unfinished transaction has written is as the last
  committed one left it. Its conditions are differences listed below: no two writers
  of a row, and updates that keep the size or run alone.
- `ScanComplete`: a row that exists unchanged while a scan runs is returned once and in
  order, whatever happens on its page.
- `PlanMeansQuery`, `RulesPreserveMeaning`, `ResultIsMeaning`: what comes out of each
  stage of the pipeline is what the query says, compared as bags of rows, or as
  sequences where there is an order. `RulesPreserveMeaning` has two exceptions, both
  differences listed below: a plan that uses an index is compared under the
  assumption that the index leads to every row, and with what the index has only
  where that is every row; and where a filter stands above a LEFT join on `true` only
  that no row is lost. The texts leave out the cases in which the code
  is known to differ, which are listed below.
- `OperationsExact`, `ConversionsKeepValues`: the types' operations agree with exact
  arithmetic and with each other across all pairs of types. A result beyond the type
  that C++ promotes to is undefined behaviour: the code's own test may refuse it, or
  be dropped by the compiler; the property asks that refusal is one of the outcomes.
- `LogReadsBack`: the log returns what was written, through any mixture of appends, reads
  that move the cursor, reads that fail the stream at the end, failures and restarts.
- `EveryCallReturns`: threads that hold two latched pages, and readers that take a latch
  twice, never wait for each other in a circle.

## The proofs

TLAPS checks every theorem to the last leaf. The constants are arbitrary, up to
the assumptions named in the modules that declare them.

**ExtendibleHashTableProofs**: `KeysStayFound`, `TableStaysCoherent` (from `TypeCorrect`,
`DirectoryStaysCoherent` and `InsertCanAlwaysSplit`), `TableRefinesMap`. The inductive invariant is the conjunction of
the five invariants. Coherence makes the bit that a split tests separate the
entries of the old bucket, so both halves stay reachable; `KeysAreFound` needs
coherence, because pairs move with the directory entry of their hash.
`CanAlwaysSplit` needs `SpreadAssumption`, that no more than `BucketSize` keys share all
hash bits: `std::hash<int>` is the identity, at most two `int` keys share 31 bits, and
the pool's buckets hold four. Without it Insert would not end.

**BufferPoolManagerProofs**: `PoolStaysAgreed` (from `TypeCorrect`, `FramesStayAgreed`,
`PinsStayAgreed` and `ReplacerStaysAgreed`), `CleanPagesStayOnDisk`,
`FlushAllCompletes`, `PoolRefinesPageStore`. The invariant adds four facts: `FreshPages` (an id not given out
is used nowhere); `StaleFramesHarmless` (what a free frame remembers is a deleted
page, so the write-back its stale metadata causes touches no live page: here the
assumption that clients do not use deleted pages is needed); `CopiesOrdered` (the disk
never has a newer copy than the pool); `FlushProgress` (while FlushAllPages runs, each
page it owes is on disk, in a frame still to be looked at, or about to be flushed).

**LRUKReplacerProofs**: `ListsAndSizesStayAgreed`, `PoolNeverHangs`
(`NeverStuckWithinSize`), `EvictsInOrder` (`EvictionOrder`) and `ImplementsReplacer`
(`RefinesReplacer`), for all frames, every size of the replacer, every k and every bound
on the timestamps. The invariant adds that no list holds a frame twice, that a frame
without a node is as new, that `curr_size_` counts the evictable ones, and that each
list is in the order of the accesses that decide its place, the history list by first
and the LRU list by latest ones: without that order, taking the first evictable frame
from the tail says nothing about accesses. The pool is modelled over the abstract
`Replacer`; with `ImplementsReplacer` the theorems about the pool hold for this one.

**DiskManagerProofs**: `PagesReadBack` (`ReadsBack`) and `LogReadBack` (`LogReadsBack`), for every
page size and every set of pages that ends below `INT_MAX` (`PagesAssumption`); beyond it
the statement is false, see the table below. The invariant says what the file has
where a page belongs, unless a write of it was lost: the last write, or zeros in a hole
(`Kept`). Since the file ends with a page that an int can count (`Counted`), `GetFileSize` is
its size, and the test of `ReadPage` refuses only what was never written. For the log
the invariant is that the stream is never left failed, because every short read
clears it, so that the file is what was written; `LogAssumption` keeps its size an int.

**TablePageProofs**: `TypeCorrect`, `PagesStayLaidOut`, `TuplesAreKept`, for every page size,
header size, directory entry size and set of non-empty tuples, as long as a page is
smaller than the deleted flag. The invariant adds to the layout that every tuple
has at least one byte. It is needed because `ApplyDelete` and `UpdateTuple` decide by
the offset which tuples to move: one without bytes at the offset of the removed
tuple would be neither below it nor above it. The layout gives that
`GetFreeSpaceRemaining` does not wrap, and that each tuple lies wholly on one side of
the one that changes; `ApplyBytes` and `UpdateBytes` then follow single bytes through
`memmove` and `memcpy`.

**TupleStoreProofs**: `NoByteIsLost` (`NothingLeaks`) and `PageIsATupleStore` (`IsATupleStore`),
from the same assumptions. Two facts join the invariant. That free space and sizes add
up to the page, because the store refuses an insert exactly when it does not fit, and a
leaked byte would make the page refuse earlier. And that an empty slot has offset 0:
`ApplyDelete` asserts only that the offset is not below the free space, and a header of
at least one byte makes the assertion fail for every empty slot, so what it lets pass
is a tuple. The sum is a recursive function; that it exists, and that it changes by
what one slot changes, is shown by looking at the smallest number for which it would
not (`PartialSumsExist`, `SumChanges`, `SumGrows`).

**BPlusTreeProofs**: first the header page, `NamesStayDistinct` and `PageIsADirectory`, for
every set of names that the page has room for (`NamesAssumption`; `InsertRecord` makes no
test): while names are distinct, the first record of a name is its only one, so page and
directory determine each other, and distinct names are no more than there are names, so
every record is on the page. Then `PinsAreReturned`, `EntriesAreKept` (`EntriesStay`),
`RootsStayRecorded` (`HeaderAgrees`) and `HeaderIsADirectory` (`RefinesDirectory`), for all trees, keys, names
of other records and leaf sizes from two on. The invariant is that pages are
numbered without gaps, no page is pinned between calls, every leaf has exactly one
entry, and the header page, whose names are distinct, has the root of every tree
that is not empty and no record of one that is: a call whose key differs from the
entry is refused, one whose key equals it changes nothing, and the record of a
tree's name is inserted once, when nobody else can have inserted it. Part of it is the
lemma `NoLeafFills`, the reason why the splitting code is not modelled. It is no merit of
the trees: `InsertTest2` of `test/storage/b_plus_tree_insert_test.cpp` inserts five keys and
looks for all of them, and the second is refused (see the table below).

**BustubInstanceProofs**: `NamesCreatedOnce`, for any sessions, tables and texts, where an
index is one of its table. The invariant is
that the holder of the exclusive `catalog_lock_` is the one session between the
look-up and the entry of a definition, so that what it did not find is still not
there, and that all oids given out are below the next one.

**Only model-checked**: liveness (`InsertReturns`, `EveryCallReturns`,
`SessionsAndCheckpointEnd`), which is out of the prover's reach; the query pipeline and
the trie, whose modules have recursive operators, with which the prover loses its main
backend; the table heap and transactions (`PagesLaidOut`, `NeverCrashes`,
`RowsAsCommitted`, `ScanComplete`); tuples and types (`OperationsExact`,
`ConversionsKeepValues`, `OwnedOnce`, `ReadsBack` of `Tuples`), where texts are parsed and
formatted digit by digit: the order of texts, their length in storage and the round
trip of a number through a text depend on the characters.

## Where the code and its comments differ

Met while modelling. `lru_k_distance` is a run: with k = 2, after the accesses 0, 1, 1, 0
Evict takes frame 1, whose latest access is older, and not frame 0, whose second
access back is older, as the comment wants; the timestamps that would decide it are
kept and never read. The other rows are read off the
definitions of the module named. Where a property would fail on such a case, the
property or the instance leaves it out: no deleted page is fetched, no tuple is
assigned to itself, keys of the comparator have no NULL, transactions keep to row
locks and leave room for what they may have to undo, scans have frames enough, trees
have different names, page 0 for their records and room on it, keys fit their arrays, no key
of the trie begins another, is removed by two threads or while it is read, and the texts
of the session have no OR and no column called by an alias of its CTE.

| Module | The code | What is said |
|---|---|---|
| `LRUKReplacer` | frames with k accesses are evicted by their latest access | "Find the frame with largest backward k-distance" (`include/buffer/lru_k_replacer.h:63`) |
| `LRUKReplacer` | RecordAccess with full lists locks its latch twice; not reachable from the pool | the loop is said to wait for a page (`buffer/lru_k_replacer.cpp:110-111`) |
| `Replacer`, `LRUKReplacer` | SetEvictable ignores an invalid frame id | "If frame id is invalid, throw an exception or abort the process." (`include/buffer/lru_k_replacer.h:101`) |
| `BufferPoolManager` | DeletePage leaves `page_id_` and `is_dirty_` | "reset the page's memory and metadata" (`include/buffer/buffer_pool_manager_instance.h:135`) |
| `BufferPoolManager` | a deleted page that is fetched again can leave the page table while pinned | "false if the page pin count is <= 0 before this call, true otherwise" (`include/buffer/buffer_pool_manager.h:115`) |
| `DiskManager` | int arithmetic: nothing reads back once the file has 2^31 bytes | the test that reads back (`test/storage/disk_manager_test.cpp:51-53`) |
| `DiskManager` | after one failed write all later ones do nothing | "Write the contents of the specified page into disk file" (`storage/disk/disk_manager.cpp:78`) |
| `DiskManager` | WriteLog on a failed stream, and a flush that fails, return as if the log were written | "Only return when sync is done" (`storage/disk/disk_manager.cpp:127`) |
| `TypeSystem` | minimum minus one is the NULL pattern | "We should not be allowed to create a value that is less than" (`test/type/type_test.cpp:80`) |
| `TypeSystem` | sums and products beyond the promoted type are tested after they overflowed, which is undefined | "Numeric value out of range." (`include/type/integer_parent_type.h:91`) |
| `TypeSystem` | a text too large for TINYINT or SMALLINT is cut | "… greater than" (`test/type/type_test.cpp:70`) |
| `TypeSystem` | VARCHAR and INTEGER compare as texts one way, as numbers the other | "CompareEquals(o) = !CompareLessThan(o) && !o.CompareLessThan(this)" (`include/type/type.h:54`) |
| `TransactionManager` | Abort ignores that an undo did not fit | "return false (will delete and insert)" (`include/storage/table/table_heap.h:71`) |
| `TransactionManager` | a delete that was refused is applied at commit | the assertion "Free space appears before tuples." (`storage/page/table_page.cpp:245`) |
| `TableHeap` | MarkDelete returns true for rows that do not exist | "true iff the delete is successful" (`include/storage/table/table_heap.h:66`) |
| `TableHeap` | `++` uses a page that could not be fetched | "assert(cur_page != nullptr)" (`storage/table/table_iterator.cpp:40`) |
| `TableHeap` | with fewer than two frames per thread InsertTuple uses a nullptr, and a commit's ApplyDelete can fail its assertion while another thread's InsertTuple holds two pages | "Couldn't find a page containing that RID." (`storage/table/table_heap.cpp:137`) |
| `TableHeap` | Begin reads the next page id from a frame it has unpinned | "the begin iterator of this table" (`include/storage/table/table_heap.h:102`) |
| `Tuples` | self-assignment frees the bytes first | "assign operator, deep copy" (`include/storage/table/tuple.h:48`) |
| `Tuples` | a NULL key equals every key | "returns true if lhs < rhs, used for trees" (`include/storage/index/generic_key.h:74`) |
| `Tuples` | a key tuple longer than the key overruns its array | "uses an fixed length array to hold data for indexing" (`include/storage/index/generic_key.h:25`) |
| `Binder` | OR is bound as AND | `select null < 2 or 2 < 3` is expected to be true (`test/sql/baby_arithmetic.slt:42`) |
| `Optimizer` | a WHERE above a LEFT JOIN on `true` moves into its condition (`optimizer/merge_filter_nlj.cpp:70`): rows are gained | "cross product … and a filter plan node" (`include/optimizer/optimizer.h:41`) |
| `Optimizer`, `Catalog` | ORDER BY and joins use an index that leads to the first row of its table only: rows are lost | "optimize order by as index scan if there's an index on a table" (`include/optimizer/optimizer.h:84`) |
| `Binder` | a column of an aliased CTE gets a name the planner does not know | "recognized unambiguously by the BusTub planner" (`include/binder/binder.h:86`) |
| `Planner` | all rows of VALUES get the types of the first | "what schema this plan node's tuples will have" (`include/execution/plans/abstract_plan.h:100`) |
| `Executors` | aggregations yield no row | "executes an aggregation operation" (`include/execution/executors/aggregation_executor.h:148`) |
| `Session` | an exception during execution is reported as success | "`false` otherwise" (`include/execution/execution_engine.h:48`) |
| `Catalog` | CREATE INDEX keeps the first row only | "Populate the index with all tuples in table heap" (`include/catalog/catalog.h:231`) |
| `BustubInstance` | a text that throws keeps the global latch for ever | "blocking all other transactions temporarily" (`include/recovery/checkpoint_manager.h:22`) |
| `BPlusTree` | GetValue returns the values of the other keys | "Return the only value that associated with input key" (`storage/index/b_plus_tree.cpp:85`) |
| `BPlusTree` | the second key of a tree is refused (also `InsertTest2`) | "if user try to insert duplicate keys return false, otherwise return true" (`storage/index/b_plus_tree.cpp:137`) |
| `BPlusTree` | two indexes of one name share a header record | "insert a record <index_name, root_page_id> into header page" (`storage/index/b_plus_tree.cpp:385`) |
| `BPlusTree` | in an instance, header records are written over a table's first page | "first page (page_id = 0) as header page" (`include/storage/page/header_page.h:20`) |
| `HeaderPage` | a record for which the page has no room is written behind it | "we will contain information about table/index name" (`include/storage/page/header_page.h:21`), of as many as there are |
| `Trie` | freed nodes are read when a key is removed twice at once, or while it is read (lines 396-412, 480-485) | "Trie is a concurrent key-value store" (`include/primer/p0_trie.h:276`) |
| `Trie` | Remove takes away keys that are beginnings of the one removed | "not terminal node of another key" (`include/primer/p0_trie.h:364`) |
| `Trie` | Remove of a beginning returns true and leaves it | "True if key exists and is removed" (`include/primer/p0_trie.h:368`) |

## What is not modelled

- *Stubs.* The lock manager grants everything and records nothing; logging, recovery
  and checkpoints, the LRU and clock replacers and the disk hash tables have no
  bodies; most executors throw in Init (that much is modelled). A crash of the
  database is therefore not modelled beyond `DiskManager!Restart`: nothing recovers.
- *Unreachable code.* `Split`, `InsertIntoParent` and the internal page of the B+ tree
  (`NoLeafFills`); its Remove and iterator are empty. `TimestampType`: `Type::k_types` has
  no entry for it, and its 64-bit encoding is beyond TLC's integers. The hash table of
  an aggregation has no caller. The index write set that Abort would undo
  (`concurrency/transaction_manager.cpp:79-101`): nothing calls `AppendIndexWriteRecord`.
- *Input and output.* The parser (a library), printing of statements, plans, values
  and results, string and hash utilities, keyword tables.
- *Rounding of doubles*: they are exact fractions, but for the limits of BIGINT.
- *Of the buffer pool*: the grading callbacks, page latches (a client's write is atomic;
  latches are in `TableHeap`), and fetches of ids that were never allocated. The
  in-memory disk manager is the pool's disk as long as ids are in range.
- *Of the B+ tree*: NewPage and FetchPage that return nullptr, which it uses untested; its
  pages are few and its pins are returned.
- *Between parts.* `Session` takes the pages of its tables as intact, although in an
  instance the header page of the indexes is a table's first page; it also takes
  inserts into a heap as not refused. `TableHeap` counts pins and abstracts which page
  the pool gives up, except where Begin reads from a frame that it has unpinned.
