# BusTub: a verification project

BusTub is the teaching database behind this repository's course work: a disk-oriented relational
system in C++ (`src/bustub/src`). Much of it is deliberately left for students to write, and in this
copy some of those parts are written and others are stubs that return a constant. This directory
models the parts that have real behaviour: TLA+ modules translated from the source, TLC
configurations that check them on small instances, and TLAPS proofs of what matters most for every
value of the constants.

Paths below are relative to `src/bustub/src`.

## 1. The system and its parts

| Part | Where | State of the code | Here |
|---|---|---|---|
| Instance and shell | `common/bustub_instance.cpp` | complete | `BustubInstance` (sessions, locks, errors) |
| Catalog | `include/catalog`, `catalog` | complete | `Catalog`; schemas in `Tuples` |
| Binder, planner | `binder`, `planner` | complete | `Binder`, `Planner`, against `QueryMeaning` |
| Optimizer | `optimizer` | complete | `Optimizer`, over `QueryPlans` |
| Expressions | `include/execution/expressions` | complete | `QueryExpressions`; arithmetic in `IntegerTypes` |
| Executors | `execution` | mock scan, filter, projection, values; others stubs | `QueryExecutors`, `MockTables` |
| Types and values | `type`, `include/type` | complete | `IntegerTypes`, `SqlValues` |
| Tuples | `storage/table/tuple` | complete | `Tuples` |
| Table page | `storage/page/table_page` | complete | `TablePage`, refining `PageSpec` |
| Table heap | `storage/table/table_heap` | complete | `TableHeap`, over `SlottedPage` |
| Table iterator | `storage/table/table_iterator` | complete | `TableIterator` |
| Transaction manager | `concurrency/transaction_manager` | complete | `TransactionManager` (table write set) |
| Disk manager | `storage/disk` | complete | `DiskManager` |
| Header page | `storage/page/header_page` | complete | `HeaderPage`, `HeaderFile` |
| Extendible hash table | `container/hash`, `include/container/hash` | complete | `ExtendibleHashTable`, refining `KeyValueMap` |
| LRU-k replacer | `buffer/lru_k_replacer.cpp`, `.h` | complete | `LRUKReplacer` |
| Trie | `include/primer/p0_trie.h` | complete | `Trie`, refining `TypedStore` |
| B+ tree | `storage/index` | stub, but for `UpdateRootPageId` | that one in `HeaderFile` |
| Buffer pool, lock manager, disk hash tables, log and recovery, clock and LRU replacer | various | stubs | not modelled; what callers rely on is external |

How they interact. A session calls `BustubInstance::ExecuteSql`: a transaction begins, the statement is
bound against the catalog, planned, optimised and executed. Executors evaluate expressions on tuples
and call the `TableHeap` with a `Transaction`. The heap finds pages through the buffer pool, latches
them and calls `TablePage`, and appends a record to the transaction's write set.
`TransactionManager::Commit` and `Abort` work through that write set, calling the heap again.
`TableIterator` reads the heap page by page beside all of this. Pages live in a file behind the disk
manager, the first of them being the header page with the roots of the indexes. The buffer pool would use
the hash table as page table and the replacer to choose victims, but its own code is a stub here, so
these two stand alone, and so do the two halves above and below it: SQL over the mock tables and the
heap over its pages. The trie is a stand-alone exercise of the same repository.

Composition follows the calls:

- `TableIterator` EXTENDS `TransactionManager` EXTENDS `TableHeap` EXTENDS `SlottedPage`, and `TablePage`
  (bytes) is shown to implement `PageSpec`, the state machine over the operators of `SlottedPage`. So
  the heap modules stand on a page that the byte layout has been shown to implement.
- `BustubInstance` EXTENDS `QueryExecutors` (over `Optimizer`, `Planner`, `QueryPlans`, `Binder`,
  `Catalog`, `QueryExpressions`, `MockTables`) and `QueryMeaning`, the reference.
- `HeaderFile` EXTENDS `DiskManager` and `HeaderPage`.
- `Tuples` EXTENDS `SqlValues` EXTENDS `IntegerTypes`.

## 2. The modules

### ExtendibleHashTable, KeyValueMap

State: `global_depth_`, `num_buckets_`, `dir_` (slot to bucket name; two slots with one name are two
copies of one `shared_ptr`), `bucket` (depth and list). Actions: `Find`, `Remove`, `Insert`,
`InsertRetry`. The public calls hold `latch_` throughout, so each is atomic towards the others;
`InsertInternal` is recursive, and one activation is one step, so that its termination is a question
the model can ask. `RedistributeBucket` is taken as it is written: the directory doubles when local
and global depth agree, the pairs that no longer belong move (`Spread`, whose turns are `MovePair`), and exactly
one slot, `split_index`, is pointed at the new bucket. When no pair moved, that slot is `index + depth`; if it does not exist,
`dir_.at` throws and the table stays half split (`SplitOrThrow`).

`KeyValueMap` is the abstract dictionary. The refinement maps a key to what `FindInternal` answers.

### LRUKReplacer

State: `frames_` as the vector of `FrameInfo`, `curr_size_` as a `size_t` (modulo `SizeMax + 1`),
the clock, and `NDEBUG`, which is chosen at the start and never changes. `BUSTUB_ASSERT` is
`assert`: with assertions a failing one ends the process (`status = "aborted"`); without, its argument
is not evaluated. `SetEvictableInternal` computes the index of its frame inside such an argument, so
in a build without assertions it works on element 0 (and on an empty vector reads storage that holds
nothing: the model then allows every outcome). `Visit` is one iteration of the victim loop.

### TablePage, SlottedPage, PageSpec

`TablePage` is the page down to its bytes: `free_space_pointer`, the slot array with offset, size and
delete flag, and `data`. A byte is a pair of a tuple and a position in it, so a test of what a slot
reads is a test of every byte. `InsertTuple`, `MarkDelete`, `UpdateTuple`, `ApplyDelete`,
`RollbackDelete`, `GetTuple` keep the early returns of the code, the `memmove` (`Replaced`) and the
loop over offsets (`Shifted`). Free space is computed modulo `Word`, as `uint32_t` is.

`SlottedPage` holds the same operations as functions on a page of slots, without offsets; `PageSpec`
is the state machine made of them.

### TableHeap, TransactionManager, TableIterator

`TableHeap` has the linked list of pages, page latches, and per transaction its state, write set and
the tuple an unfinished `InsertTuple` carries. `InsertTuple` crabs: it latches the first page, then
holds one write latch while it waits for the next one; every latch change is a step. At the end of the
list it asks for a new page, which may fail. The other calls work on one page under its latch and are
one step. The heap records a delete whether or not the page accepted it, and records an update unless
the transaction is `ABORTED` (that is how a rollback avoids recording itself).

`TransactionManager` adds `Begin`, `Commit`, `Abort`, one step per write record while other
transactions run, `ReleaseLocks`, the global transaction latch and `BlockAllTransactions`. Executors
and the lock manager are stubs, so their part is external and stated once: a caller changes only rows
it can read, has them locked exclusively until the end of its transaction, and makes no further
change in a transaction that a failed call has set to `ABORTED`. `Commit` does not look at the state,
and so such a transaction may be committed, as in the code.

`TableIterator` adds one scan: `TableHeap::Begin`, the constructor and `operator++`, one step per
read latch. `Begin` reads `next_page_id` after it has unpinned the page; `FrameReuse` says whether the
frame may by then hold another page.

### Trie, TypedStore

A node is named by its path. `Insert`, `Remove`, `GetValue` run under `latch_` and are one step each;
values have types, since `Insert` and `GetValue` tell nodes apart by `dynamic_cast`. `TypedStore`
states what the comments of the class promise.

### IntegerTypes, SqlValues

A caller holds an integer Value and computes with others: `Add`, `Subtract`, `Multiply`, `Divide`,
`Modulo`, the six comparisons, `Min`, `Max`, `CastAs`, and the `+` and `-` of `ArithmeticExpression`.
`Half[t]` is half the number of bit patterns of a type, so every width is an instance. The smallest
number of a type is its NULL. C++ promotion is modelled (`Promoted`): two operands narrower than
`INTEGER` are computed as `INTEGER`. Overflow of the C++ operation is undefined: an unoptimised build
wraps, and an optimised one may also drop the test that follows. A `VARCHAR` is known by the number its
text reads as. The result of a call becomes the next left operand, so chains of operations are explored.

`SqlValues` adds BOOLEAN, DECIMAL and VARCHAR: comparisons, `Min` and `Max` across types, and the casts,
which the code has twice, in the types (`CastAs`) and in `ValueFactory`. A double is scaled down like the
integers: a number of quarters with a significand of `Mantissa` bits, rounded to nearest even, so that
every INTEGER is a double and not every BIGINT is. A text is an entry of a table in byte order, with
what `stoi`, `stod` and the cast to BOOLEAN read from it. One more double is NaN, which a text can be read as:
every comparison with it is false but `<>`, and what becomes of it as an integer is undefined.

### Tuples

The constructor of `Tuple`, `GetValue`, `KeyFromTuple`, `SerializeTo`, `DeserializeFrom` and the schemas
they use, byte by byte. A byte knows which byte of which value it is, so reading a value back tests every
byte of it.

### Catalog, Binder, Planner, Optimizer, QueryPlans, QueryExpressions

The SQL front end as functions. A parse tree is a record with a tag; what the Postgres parser makes of a
text is where the model begins. `Binder` resolves names through its scopes to full names, `Planner`
turns bound statements into plans (with the numbering of aggregate calls in two phases, and what planning
does to the bound tree itself), `Optimizer` has the rules as functions from plan to plan. A name joined
with dots in the code is a sequence of its pieces here. An exception is a value, `Throw`, that every
constructor passes on; `UNREACHABLE`, a null pointer and a stack used up are kinds of it.
`QueryExpressions` evaluates expressions as `Evaluate` and `EvaluateJoin` do, under three-valued logic.

`QueryPlans` has the plan nodes and `Rows(plan, db)`, the rows a plan promises: a nested loop join is
that loop, an index join finds its rows by key, a sort is stable. For nodes whose executors are stubs
this is the contract in the comments of the plan nodes. An index has unique keys, so that of rows with
equal keys it holds the first, and none whose key is NULL (`IndexedRows`). Groups are found by
`AggregateKey::operator==`, for which two NULLs differ (`SameAggregateKey`). A LIMIT becomes a `size_t`, and
the NULL of an INTEGER a huge one (`AsSize`). Sums in expressions wrap at `IntHalf`.

`QueryMeaning` is the reference, written without looking at how the binder or the planner proceed: names
are looked up in the FROM clause by qualifier and column, common table expressions are lexically
scoped, aggregates are taken over groups. There are no bound names, column numbers or plans in it.

### QueryExecutors, MockTables, BustubInstance

The executors that have a body, one call of `Next` at a time, over the mock tables. `BustubInstance` is the
state machine over all of this: calls of `ExecuteSql` by several threads, `catalog_lock_` with its shared
and exclusive holders, binding that holds no lock and looks up one table after the other (`LookUp`), the insertions of `CREATE TABLE` and `CREATE INDEX` one
by one, planning and each optimizer rule as a step, `\dt` and `\di` that look up table after table
without a lock, and exceptions, which release the scoped lock but skip `Commit`.

### DiskManager, HeaderPage, HeaderFile

`DiskManager` has the file behind one stream and one latch, and the pages in memory behind a mutex and a
latch for each page; which of the two is chosen at the start. A page is `PAGE_SIZE` cells and a transfer
moves one cell per step, so that it can be seen, fail or be cut off half way. `ReadPage` computes
with `int`, `WritePage` with `size_t`, as in the code. The log is a file opened for appending whose position
reads move; with the pages in memory it was never opened, and writing it fails. `Crash` ends the process at
any step and starts it again on the same files. `Start` is the constructor for a name with a dot whose files
open.

`HeaderPage` is the record array on the cells of a page. `HeaderFile` composes the two: one thread
changes the records in its buffer as `BPlusTree::UpdateRootPageId` does and reads and writes the page,
while another reads it and writes other pages. That thread stands for the frame of the buffer pool.

## 3. The runs

| Run | Configuration | Question | Distinct states |
|---|---|---|---|
| `sql_calls` | `SqlCalls.cfg` | Does what is bound, planned, optimised and executed mean the statement, beside sessions that create tables and indexes? | 13 360 |
| `sql_values` | `SqlValues.cfg` | Are operations on Values exact or refused, do casts and comparisons agree across types, does a tuple keep its Values? | 572 738 |
| `header_file` | `HeaderFile.cfg` | Do pages, the log and the header page survive interleavings, I/O errors and crashes? | 589 268 |
| `eht_dictionary` | `TwoTables.cfg` | Is the table a dictionary with a sound directory, does Insert end, and are buckets sound even where it throws half way? | 31 952 |
| `lruk_replacer` | `MCLRUKReplacer.cfg` | Is Size() right, and does Evict prefer frames with fewer than k accesses? | 549 821 |
| `table_page` | `MCTablePage.cfg` | Is the byte layout sound, and is it a slotted page? | 11 610 |
| `txn_atomic` | `TxnAtomic.cfg` | Are commit and abort atomic under interleaving? | 1 624 873 |
| `table_scan` | `TableScan.cfg` | Is a scan complete and ordered, and does everything end? | 165 160 |
| `trie_store` | `TrieStore.cfg` | Is the trie the store its comments describe? | 4 849 |
| `eht_key_lost` | `EHTLost.cfg` | Does an inserted key stay findable? | violated, 8 states |
| `txn_rollback_space` | `TxnRollback.cfg` | Is an aborted update undone? | violated, 19 states |
| `bound_not_planned` | `BoundNotPlanned.cfg` | Can the planner plan what the binder accepts? | violated |

Type invariants: those of the page, the replacer, the trie, the hash table and the integers are theorems
of their own or part of one (section 4); those of the other modules are conjuncts of the invariants that are checked (`AllBucketsSound`,
`HeapLinked`, `ScanComplete`, `PagesIntact`, `CatalogWhole`).

### What the passing runs show, and why their bounds are enough

**sql_calls.** Tables `t(a, b)`, with a NULL and duplicates, and `u(a, c)`, of which both columns are unique, with
an index on `a`, and four of
the mock tables, of which the first three rows are scanned (`MaxMockRows`). The statements are 37 chosen
queries (joins of every type, self joins, three-way joins, subqueries, common table expressions,
aggregates with and without groups and HAVING, DISTINCT, ORDER BY, LIMIT, also of NULL, VALUES), all 972 combinations
of nine FROMs, six WHEREs, six select lists and three ORDER BYs (those that do not bind end in the
exception the code throws), the data changing statements, EXPLAIN, and pairs of sessions whose statements meet:
two that create the same table with different columns or the same index on different columns, one that creates two
tables while the other looks them up one by one, one that creates an index (on a column with unique values and on
one without) while the other plans a join it serves, one
that creates and one that lists tables. `CreatedIsFound` says that what a session created is what everyone finds
from then on, with the columns that session asked for. `PlanMeansStatement` compares the plan with `QueryMeaning`;
`OptimizerKeepsRows` compares after every rule, so the rule that would lose a row is the one that is
named. It compares with the rows the indexes of the plan hold: the index on `t.a`, which has duplicates
and a NULL, does lose rows (section 5). A plan that reads one table twice, and through an index that lacks rows,
is not compared. `ExecutedRows` compares row by row what `Next` returns. Two calls are enough for the interleavings:
catalog entries are only ever added, and a third session could only add more of them. An INTEGER wraps
at `IntHalf = 2^20`, since TLC's own numbers have 32 bits; no sum of the run comes near it. The calls end
(done or thrown), hence no deadlock check; that each ends is `CallsEnd`.

**sql_values.** The integer types scaled down to 2, 3, 6 and 7 bits, doubles to 5. The scaling keeps what
the code depends on (`HalfAssumption`): the widths increase, and a product of two numbers narrower than
`INTEGER` fits an `INTEGER`; every INTEGER is a double and not every BIGINT is. Operands are the ends of
each type, their neighbours, halves and small numbers; doubles lie on, beside and beyond the bounds of
every type, NaN among them; texts are all that the Values used show plus some that read as nothing. Tuples are all rows of
up to three columns over ten Values of all types, with NULL and empty texts, and keys of one or two
columns in any order. The exceptions that `SumsExact`, `ProductsExact`, `CastsKeepValue` and `FactoryAgrees` make are
in the properties and happen in the run: a sum or product one below the smallest number of its type is NULL,
-2^63 and 2^63 as a BIGINT, NaN as an integer. `OrderAcrossTypes` says what NaN compares as instead of
leaving it out. The three callers share no state, so they are not interleaved.

**header_file.** Two threads and the log's; pages 0, 1 and 3 of three cells, so that a file has a hole
and a header page has room for two records; one fault (`MaxFaults`), an I/O error or a crash, at any step;
an int of four bits (`IntHalf = 8`), so that page 3 lies beyond what an int can address. Roots are a page or
`INVALID_PAGE_ID`, which an empty tree writes with `UpdateRecord`. The log and the pages share
nothing, and the records of the header page matter to its owner only, so a behaviour uses one of the
three (`Bounded`).

**eht_dictionary.** Two tables that share nothing. In the first, six keys 0 to 5 in buckets of two,
identity hash. These keys force two directory doublings, splits without
doubling (at depth 2, of a bucket that two slots share, after its neighbour has doubled the directory),
splits that separate nothing (of 0 and 2, when 4 is inserted at depth 0) and the retry after them; the global
depth reaches 2, so that the bound of 3 cuts nothing off. One key, `Overwritten`, is inserted with a
second value too; that all keys are would only multiply the states. `DirectoryIntegrity` is the textbook shape
of the directory; `ImplementsMap` says that no split changes what any caller can find; `InsertTerminates`
says that the recursion ends. The keys are chosen so that one slot serves every split, and the choice matters: at
depth 3 a bucket of depth 1 has four slots, and a split redirects one (`eht_key_lost`). In the
second, keys 1, 2, 3, 6 in buckets of one, on which splits move nothing, the slot `index + depth` is
outside the directory or belongs to someone else, and Insert throws. Whatever happens, in both
(`AllBucketsSound`): `IsFull` tests with `==`, so one pair too many would let a bucket grow for ever. The
global depth is bounded (`MaxGlobalDepth`): a split beyond it is not taken.

**lruk_replacer.** Three frames, room for two, k = 2, seven ticks of the clock, both builds. Room for
two is the smallest in which a victim is chosen, three frames make the limit bind, and seven accesses
let both frames have more than k of them. `SizeMax` is 15: what matters is that 0 - 1 is far from any
real size. The frames are interchangeable, which the run uses as symmetry (the property names no
frame). `SizeIsEvictable` speaks of a build with assertions; `EvictTakesInfiniteFirst` of both.
A process that an assertion has ended takes no further step, hence no deadlock check.

**table_page.** Tuples of sizes 1, 2, 2 on a page of 53 bytes with at most three slots (`MaxSlots`):
24 bytes of header, three slots of 8, five bytes of tuples, so that the page is full to the byte in some
states, short of one byte in others, and slots are reused. `ImplementsPage` decodes every slot's bytes
and compares every answer with the abstract page.

**txn_atomic.** Three transactions with up to two write records each (`MaxWrites`) on at most two
pages of two rows (`MaxPages`). Two records are the least that make the order of an undo matter, two
pages make inserters race for the end of the list, and the third transaction changes and reuses what the
other two leave. `RowsCommitted` compares the heap with a history variable that holds what the commits
left. The tuples are of one size: with different sizes the property fails (`txn_rollback_space`).

**table_scan.** Two writing transactions beside one scan, one tuple that fits and one that is too
large for any page. `ScanComplete` uses a history variable, the rows readable ever since the scan began.
`NewPageAccepts` says that a tuple which passed the size test is never refused by an empty page: otherwise
`InsertTuple` would add pages for ever.

**trie_store.** Keys that are prefixes of each other, siblings and the empty key; one value type.

### Fairness

Weak fairness is assumed only of a thread that is inside a call and not waiting for the outside: of
`InsertRetry` (a recursion with nothing to wait for), of `Busy(t)` (a thread in `InsertTuple`, `Commit`
or `Abort` of the heap), of the scan, of a call of `ExecuteSql` and of a call of a disk manager.
Page latches (`ReaderWriterLatch`, a `std::shared_mutex`) promise no fairness, and none is assumed beyond this: weak fairness suffices because transactions are
finitely many and write finitely much (`MaxWrites`). With an unbounded stream of inserters a scan need
not end: the property is about boundedly many. No caller is assumed to make another call, to commit or
to abort. `catalog_lock_` is a `std::shared_mutex` too; the calls are finitely many and each holds it
finitely often, so again weak fairness suffices. The latch of a disk manager is taken by calls that may
come for ever, so `CallsReturn` says that of threads that are all in calls one returns (they never wait for
each other), and that a call returns unless the other threads keep the latch busy for ever.

For `Spec` of `BustubInstance`, fairness is on `Moves(c)`, which says when a call can go on without
evaluating what its step computes. It is equivalent to fairness of `Call(c)`: a call that has not ended and
does not wait for the lock always has a step.

## 4. The proofs

| Theorem | States | Rests on |
|---|---|---|
| `TablePageProofs!PageTypeCorrect` | `Spec => []TypeOK` | `Inv` |
| `TablePageProofs!PageLayoutCorrect` | `Spec => []LayoutSound` | `Inv == TypeOK /\ LayoutSound` |
| `TablePageProofs!PageOthersIntact` | `Spec => OthersIntact` | `Inv`, and per action what the shifted bytes are |
| `TablePageProofs!PageImplementsSpec` | `Spec => ImplementsPage` | `PageInv`, one lemma per operation |
| `ExtendibleHashTableProofs!BucketsCorrect` | `Spec => [](TypeOK /\ BucketsSound)` | `TableInv` |
| `ExtendibleHashTableProofs!DirectoryCorrect` | `Spec /\ [][OneSlotServes]_vars => []DirectoryIntegrity` | `TableInv`, `DirInv` |
| `ExtendibleHashTableProofs!TableImplementsMap` | `Spec /\ [][OneSlotServes]_vars => ImplementsMap` | `TableInv`, `DirInv`, `SplitSeen` |
| `ExtendibleHashTableProofs!KeysKept` | `Spec /\ [][OneSlotServes]_vars => NoKeyLost` | the same |
| `ExtendibleHashTableProofs!OneSlotExact` | `Spec => ([]DirectoryIntegrity <=> [][OneSlotServes]_vars)` | `ServesNeeded` |
| `LRUKReplacerProofs!ReplacerTypeCorrect` | `Spec => []TypeOK` | `EntriesTyped` |
| `LRUKReplacerProofs!SizeCorrect` | `Spec => []SizeIsEvictable` | `CountKept`, the entry lemmas |
| `LRUKReplacerProofs!EvictCorrect` | `Spec => EvictTakesInfiniteFirst` | `Dated`, `VictimIs` |
| `TrieProofs!TrieTypeCorrect`, `TrieConnected` | `Spec => []TypeOK`, `Spec => []Connected` | `Inv` |
| `TrieProofs!TrieImplementsStore` | `OneType => (Spec => ImplementsStore)` | `Inv`, one lemma per operation |
| `SqlValuesProofs!ValuesTyped` | `Spec => []TypeOK` | `AnswerTyped` |
| `SqlValuesProofs!SumsCorrect` | `Spec => []SumsExact` | `SumExact`, `RawSum` |
| `SqlValuesProofs!ProductsCorrect` | `Spec => []ProductsExact` | the product is divided back; quotients fit |
| `SqlValuesProofs!ExpressionsAgree` | `Spec => []ExpressionAgrees` | `CallMeans`, `SumOutcome` |
| `SqlValuesProofs!CastsCorrect` | `Spec => []CastsFaithful` | `CastFaithful` |
| `SqlValuesProofs!OrderIsOne` | `Spec => []OneOrder` | `CallMeans`, `Holding` |
| `SqlValuesProofs!FactoryCorrect` | `ValueSpec => []FactoryAgrees` | `Steps`, the cast lemmas |
| `SqlValuesProofs!ValueCastsCorrect` | `ValueSpec => []CastsKeepValue` | `Steps`, the cast lemmas |
| `SqlValuesProofs!ValueOrderCorrect` | `ValueSpec => []OrderAcrossTypes` | `Steps`, the comparison lemmas |
| `TransactionManagerProofs!TransactionsInductive` | `Spec => []IInv` | one lemma per action |
| `TransactionManagerProofs!PagesListed` | `Spec => []HeapLinked` | `IInv` |
| `TransactionManagerProofs!EndingNeverFails` | `Spec => []AssertionsHold` | `IInv` (`Owned`) |
| `TransactionManagerProofs!NewPageTakesTuple` | `Spec => []NewPageAccepts` | `IInv` (`Roomy`) |
| `TransactionManagerProofs!EndingIsAtomic` | `EqualSizes => (Spec => []RowsCommitted)` | `IInv`, `KInv` |
| `TransactionManagerProofs!BlockingIsQuiescent` | `EqualSizes => (Spec => []BlockedIsQuiescent)` | `IInv`, `KInv` |
| `TableIteratorProofs!ScansComplete` | `FrameReuse = FALSE => (ScanSpec => []ScanComplete)` | `IInv`, `SInv` |
| `HeaderFileProofs!FileInductive` | `FileSpec => []IInv` | one lemma per action |
| `HeaderFileProofs!PagesSurvive` | `FileSpec => []PagesIntact` | `IInv` (`Intact`) |
| `HeaderFileProofs!ReadsAreWhole` | `FileSpec => []ReadsLastWrite` | `IInv` (`FileCall`, `MemoryCall`) |
| `HeaderFileProofs!HeaderKeepsRoots` | `FileSpec => []HeaderIsMap` | `IInv` (`HeaderInv`) |
| `HeaderFileProofs!LogAppends` | `FileSpec => []LogGrowsAtEnd` | `IInv` (`LogInv`) |

*The page.* For every page size from the header up to the word size, every set of tuples and every
slot count. Assumptions: tuples have a positive size (`TupleAssumption`; the code stops on an empty
one) and the page is smaller than `2^32` (`PageAssumption`). `LayoutSound` is inductive together with
`TypeOK`: live tuples are pairwise apart, lie between the free space pointer and the end of the page,
the slot array ends before them, and an empty slot has offset 0 and is not marked (a marked empty slot
would be restored by a rollback). The proof has one lemma per operation; update and delete share
`ResizeLayout`, since deleting is resizing to nothing. `PageOthersIntact` then shows that the bytes
moved by `memmove` and the offsets moved by the loop are the same ones.

`PageImplementsSpec` is the refinement: read through its slots, a page of bytes makes the steps of
`PageSpec`. The heap modules use the operators of `PageSpec`, so this is what lets them forget offsets.
The layout alone does not give it. The mapping decodes the bytes of a slot, and it decodes them to
a tuple only if they are those of one tuple (`Contents`); and the guards of `InsertTuple` and
`UpdateTuple` compare sizes with the free space, which the code takes from the free space pointer and
`PageSpec` from the sum of the tuple sizes. The two agree only if no operation leaves a gap between
tuples (`SpaceExact`), which a sound layout does not say. `PageInv` is the layout with both, and was checked by
TLC on the instance of `table_page` before it was proved. The sum is `MapThenSumSet`; that it changes
by the size of the one tuple that changes (`TotalRemove`, `SpaceSet`, `SpaceInserted`) is shown from its
definition. `SameGuards` and `SameSlot` then say that both pages refuse the same calls and choose the same
slot, `SetView` that a changed slot is seen as that slot changed and no other, and there is one lemma per
operation (`InsertImplements`, `UpdateImplements`, ...).

*The hash table.* For every hash function, set of keys and values, and bucket size; the assumptions are that hashes
are naturals, that a bucket has room for a pair and that `NoValue` is no value. `BucketsCorrect` has no further
hypothesis: it covers the histories in which `dir_.at` throws and the table is used half split. Its invariant,
`TableInv`, is the property with "no key twice" said of positions (`Distinct`). The step that is not obvious is
the split: `SpreadHeld` shows, turn by turn of the loop of `RedistributeBucket`, that every pair ends in the one
of the two buckets its index calls for, that the new bucket is never full when a pair is moved to it
(so that the answer of `Insert`, which the loop ignores, is true), and that `split_index` is the index of a pair
that moved.

For the directory a hypothesis is needed, since the code redirects one slot per split and `eht_key_lost` shows
where that is not enough. `OneSlotServes` says of a step that splits a bucket: the depth the bucket now has is
the global depth, so that there are two slots for its pairs, and the slot redirected was one of the bucket's. In the histories whose
splits are all of this kind, `DirInv` is inductive: two slots name one bucket exactly if they agree on as
many low bits as its depth, every bucket has a slot, and every pair is in the bucket of the slot `IndexOf`
computes. Doubling the directory keeps it because low bits of low bits are low bits (`LowBits`), and a split because
the two slots of the bucket are `index` and `split_index` (`TwoSlots`). From it, a caller of `Find` sees
nothing of a split (`SplitSeen`), which makes the table a dictionary, and `NoKeyLost` follows.
`OneSlotExact` says that the hypothesis is no stronger than it has to be: if the directory is
sound before and after a split, the split was of this kind. So the run `eht_dictionary`, in which TLC finds
`DirectoryIntegrity` true of every state, has only such splits, and a history that loses a key has another one. For
which keys every split is of this kind depends on the order of the calls, and is not characterised here.

*The replacer.* For every k, capacity and set of frames. `SizeIsEvictable` is inductive with `TypeOK`:
the count changes with the flag because each frame has one entry (`Distinct`), which `FindInternal`
ensures. The entry lemmas say what appending, erasing and toggling an entry does to the set of
evictable frames. The decrement does not wrap because the entry removed is evictable.
`EvictTakesInfiniteFirst` needs more: the accesses of an entry are in the order of the clock, and the
entries of `frames_` in the order of their first accesses (`Dated`), which appending keeps because the
clock only grows and erasing keeps anyway. The victim is computed by a recursive function, one call of
`Visit` per entry. `Loop` says what such a function satisfies; that there is one, and that from any entry on
it ends at the right candidate (`FoundFrom`), is shown by taking the last entry for which it fails. The clock
does not wrap within the bound of the model (`ClockAssumption`): a `size_t` that counts accesses does not.

*The trie.* `Inv` adds to `TypeOK` and `Connected` that nodes are named by sequences of characters.
`TrieImplementsStore` shows initial states and each of the three operations of the trie to be those
of `TypedStore`; it assumes one value type, since with two the trie does not implement it (below).

*Integer Values.* For every four widths that satisfy `HalfAssumption`. The argument of `SumsCorrect`: a sum
of two numbers, neither of which is the smallest of its type, lies strictly between -2h and 2h for the
wider type's h, so the wrapped sum differs from the exact one by 2h at most and then has the other
sign (`CastAbove`, `CastBelow`, `RawSum`); the sign test therefore sees it. One sum passes all tests and is
not given: the one equal to -h has the bits of the NULL, and the theorem says so (`ExactOutcome`), as it does for
products. For types narrower than
`INTEGER` the promoted sum is exact and the comparison with its two narrowed forms decides.
For products, a wrapped product that divides back to its operand is the exact one unless it left the type,
and no quotient of two numbers above the NULL of the wider type leaves it. `ExpressionAgrees` and
`OneOrder` speak of the call that was made, so they need to know that what is kept of it is what it
computed (`CallMeans`).

*Values of the other types.* For every table of texts, width of a significand and set of doubles that satisfy
three assumptions, each of which the real types meet: the double that stands for NULL is below every other
one, and NaN is no number (`DecimalAssumption`); the ends of the types up to INTEGER are doubles, and those of BIGINT are rounded
to no more than the power of two behind them (`RoundingAssumption`); an integer or a truth value has a text, and the
text reads as it (`TextAssumption`). `Steps` lists what a call can be. The three properties then
follow from what each of the casts answers, type by type: the ranges that `CastAs` and `ValueFactory` test
are the same but at 2^63, a DECIMAL strictly within range is cut off towards zero by both, -2^63 is the NULL by
both, and the comparisons of a DECIMAL compare the doubles of its operands, which puts every two in one order
unless one is NaN. What a cast makes of a NaN is any integer or an exception, and no property speaks of it.

*The heap and the transactions.* For every set of transactions, pages, tuples, sizes and number of write
records. None of the five invariants is inductive. What makes them so, `IInv`, is: whoever holds a page latch is
inserting and holds one only (`Latched`); the phases of transactions fit the global latch (`TxnShape`);
every row in a write set is locked by that transaction and by no other (`WriteShape`, `Apart`); a slot
that a write record names is in the state the record's last operation left it in (`Owned`), which is what the
assertions test; and no page has less than no free space (`Roomy`). For atomicity, `KInv` adds that the oldest
record of a row has the tuple that was committed last (`OldImages`), so that undoing the records from the
last to the first ends there. `KInv` is kept by an abort only if the update that undoes an update
succeeds, and that is certain only when tuples have equal sizes: hence the hypothesis `EqualSizes`, which
`txn_atomic` has in its configuration, and without which `txn_rollback_space` is a counterexample. Free space
contains a sum over the slots of a page (`MapThenSumSet`); what the proof needs of the sum (`Bytes`) is shown
by taking a smallest set of slots that contradicts it.

*The scan.* `SInv`: the position of the scan splits the stable rows, those readable since `Begin`, into the
ones returned and the ones ahead (`Ahead`, `Behind`), and what was returned is in order. Writers cannot move
a row across the position, as pages and slots are only added (`Grows`). The hypothesis is that `Begin` reads
`next_page_id` from the page it unpinned, not from whatever has come into the frame; without it the property
is false (section 5).

*The disk managers, the log and the header page.* For every set of threads, pages and names, every page
size, width of an int and number of faults. `IInv` says of a transfer under way that the cells done so far
agree with the buffer, and that the stream stands where the next one belongs (`FileCall`), as nobody
else moves it while the latch is held (`FileMode`); in memory, that a writer holds the latch of a page
alone and readers hold it together (`MemoryMode`). A page nobody writes is stored as it was written last
(`Intact`). For the header page: on disk there is at any time a page without two records of one name
(`IsHeader`), so that a restarted process finds one, and while the owner reads it, its buffer is a part of
that page and zeros (`OwnerReads`). The conditions on ints are in the properties: a page whose offset an
int cannot hold is not read correctly (`Addressable`, `Fits`).

*Induction over data.* The induction theorems of the library take an operator as a parameter, which the
provers cannot instantiate, but its theorem that a well-founded relation has minimal elements takes a set.
The proofs above that need induction (the sum over slots, the next readable slot of a page, the victim
loop, the loop that splits a bucket, the powers of two) assume a counterexample, take a least one, and contradict it.

*Leaves.* A proof step that needs no arithmetic names `Zenon`, so that the SMT solver is not tried on it first;
this makes the proofs several times faster.

Only model-checked:

- every liveness property (`InsertTerminates`, `WritersReturn`, `ScanEnds`, `CallsEnd`, `CallsReturn`): the
  prover does not reason about fairness;
- that every split of the keys of `eht_dictionary` is one that a single slot serves (by `OneSlotExact`, this is
  `DirectoryIntegrity` there);
- `TupleKeepsValues`: the bytes of a tuple are put together by folds over its columns;
- the SQL front end (`CatalogWhole`, `CreatedIsFound`, `PlannedOnOneCatalog`, `PlanMeansStatement`,
  `OptimizerKeepsRows`, `ExecutedRows`): its functions are `RECURSIVE` operators over trees, which the prover
  does not support in a module or in any that uses it.

## 5. Where the code and its documentation disagree

With a run (see `findings` in PROJECT.json):

- *A key is lost on a split* (`extendible_hash_table.h:218`). One slot is redirected where all slots that
  share the new prefix should be. Shortest history: 8 states.
- *An aborted update stays* (`transaction_manager.cpp:81`). The update that undoes it may find the space
  taken, and its answer is ignored.
- *A bound statement cannot be planned* (`bind_select.cpp:621`). In `WITH c AS (...) SELECT x.a FROM c AS x`
  the binder qualifies the columns by `c`, the planner by `x`, and the planner ends in `UNREACHABLE`. So it
  does when a nested WITH refers to an outer common table expression, which the planner looks up by name
  in the list it has at that moment (`plan_table_ref.cpp:122`), and on ORDER BY a column that is not in
  the select list. The statements of the run include all three.

Met while modelling, without a run of their own.

Storage and transactions:

- *The victim is not the one of LRU-k* (`lru_k_replacer.h:220`). The distance remembered belongs to the k-th
  oldest access, the one compared with to the k-th latest; the class comment (`:29`) asks for the frame
  whose backward k-distance is the largest.
- *A scan may stop early* (`table_heap.cpp:194`). `Begin` reads `next_page_id` of a page it no longer has
  pinned; with `FrameReuse = TRUE` in `TableScan.cfg`, `ScanComplete` is violated.
- `Insert` of the hash table can throw `std::out_of_range` and leave the table half split (the second table
  of `eht_dictionary` covers the states that follow).
- Without assertions `SetEvictable` always works on the first frame (`lru_k_replacer.h:184`), and `Remove`
  of a pinned frame decrements the size.
- A row that `MarkDelete` refused is still recorded as deleted (`table_heap.cpp:105`); applying the record
  to an empty slot fails an assertion. The modelled callers change only rows they can read.
- `Commit` turns an `ABORTED` transaction into a `COMMITTED` one, and `txn_map` keeps pointers to
  transactions that their owner deletes.
- `Trie::Insert` replaces a value of another type, although "you should never overwrite value of an
  existing key" (`p0_trie.h:303`): the `dynamic_cast` to the new type fails and the node is taken for a
  plain one. `Trie::Remove` leaves nodes behind that its comment (`p0_trie.h:362`) asks to remove.
- `ReadPage` keeps its offset in an `int` and `GetFileSize` returns one: from page 524288 (2 GiB) on the
  two wrap, and a page that `WritePage`, which uses `size_t`, has written reads as zeros or not at all. Once
  the file is that long, pages in front of the limit are not read either: the wrapped size looks smaller than
  their offset.
- The constructor of the disk manager opens no file when the name has no dot, and only a debug line says so. When
  the log cannot be opened for appending it is opened again, emptied and without `app`: a log opened that way would be
  written where a read has left the stream. `GetFileSize` answers -1 when `stat` fails.
- The disk manager with pages in memory never opens its log, so that `WriteLog` fails and `ReadLog` reads nothing.
- An I/O error sets the stream's badbit, which nothing clears; `WritePage` and `ReadPage` then return
  without a word, and `WriteLog` leaves `flush_log_` set.
- `HeaderPage::InsertRecord` does not test whether the page is full; 113 records fit.
- Assigning a `Tuple` to itself frees its bytes before it copies them (`tuple.cpp:77`), and the constructor
  does not compare the types of the Values with those of the columns.

Queries and sessions:

- A statement that throws leaves `ExecuteSql` without `Commit` or `Abort` (`bustub_instance.cpp:177`): the
  transaction and the shared hold on the global transaction latch are never given back.
- Binding, `\dt` and `\di` read the catalog without `catalog_lock_`. Tables are entered into three maps one
  after the other; the order is safe for binding and `\dt` (`CatalogWhole`), but `\di` beside a `CREATE TABLE`
  can fail the assertion "Broken Invariant" (`catalog.h:323`). The maps themselves are unsynchronised
  `std::unordered_map`s, and so is `session_variables_`; the model takes each lookup and insertion as one step.
- The functions that generate the test and the mock tables create tables under a shared hold of `catalog_lock_`
  (`bustub_instance.cpp:363`). They are called before sessions start; the model begins after them.
- An index has unique keys, and nothing else is known of it by the optimizer: of rows with equal keys all but one,
  and all rows whose key is NULL, are missing from the index scan or join that replaces a scan
  (`nlj_as_index_join.cpp`, `order_by_index_scan.cpp`).
- Two NULLs are not equal in `AggregateKey::operator==` (`aggregation_plan.h`), so that GROUP BY and DISTINCT make a group
  of every row with a NULL key, and `InsertCombine` enters such a key again when it looks it up. SQL asks for one group.
- LIMIT NULL is not "no limit" but the NULL's bits as a `size_t`, which no table reaches; a negative limit likewise.
- A common table expression that aggregates and is referenced twice is refused the second time, since
  planning has replaced its aggregates (`plan_expression.cpp:110`).
- `SELECT s.a FROM (SELECT a FROM s) s` is refused although it is not ambiguous.
- A join `ON 1` below a WHERE makes the optimizer throw: the constant is cast to BOOLEAN.
- The rows of a VALUES list need not agree in their types.

Values:

- A sum or product equal to the smallest number of its type silently becomes NULL;
  `ArithmeticExpression` wraps where `Value::Add` refuses; a text beyond the range of `TINYINT` or
  `SMALLINT` is accepted as another number; a cast of the NULL text to a number throws
  `invalid_argument`; dividing by a text is not implemented.
- The DECIMAL -2^63 cast to BIGINT becomes NULL (`decimal_type.cpp:301`), and `ValueFactory` lets 2^63 in, where
  it tests with `>` (`value_factory.h:147`) and `CastAs` with `>=`; the conversion is then undefined.
- The text "nan" is read as the DECIMAL NaN, which passes every range test; its conversion to an integer
  is undefined, and `Min` and `Max` with it answer their right operand.
- `ValueFactory` keeps NULLs that `CastAs` refuses: of a VARCHAR, and of a number cast to BOOLEAN.
- A BIGINT is rounded when it is compared with a DECIMAL, so that two different BIGINTs may equal one DECIMAL.
- A VARCHAR compared with an integer is compared as text or as a number, depending on which is on the left.
- `BUSTUB_DECIMAL_MIN` is the lowest float, not the lowest double: a text below it is refused as a DECIMAL,
  although such DECIMALs exist.
- TIMESTAMP has no entry in `Type::k_types`, so every operation on one reads past the end of that array.

## 6. Not modelled, and why

- *Buffer pool, lock manager, B+ tree (but for `UpdateRootPageId`), disk hash tables, log manager, recovery,
  checkpoints, clock and LRU replacer.* Their functions are stubs that return a constant: there is no
  behaviour to translate. `enable_logging` is never set, so no module writes a log record.
- *Index write sets, and filling a new index.* `Abort` and `CreateIndex` do it through index code that is a
  stub.
- *FetchPage failing.* The buffer pool is a stub; the heap's reaction (state `ABORTED`, return false) is
  the one modelled for `NewPage`.
- *Executors of scans, joins, aggregation, sort, limit and of changes.* Stubs. What their plans promise is
  modelled, so that binder, planner and optimizer can be checked.
- *Arithmetic on DECIMAL.* A double of five bits rounds, but not as a double of 53 bits does; what could be
  stated of sums and products would be about the scaling. Comparisons and casts depend only on which
  integers are doubles.
- *TIMESTAMP.* No operation on it is defined (above).
- *DiskManagerMemory*, a plain array with no latch, and the counters and futures that tests use.
- *Copying and assigning tuples.* Ownership of memory.
- *The optimizer rules of `merge_filter_scan.cpp` and `eliminate_true_filter.cpp`.* Nothing calls them.
- *The SQL parser* (third-party code), the formatting of output, the generation of test tables, string
  utilities.

## 7. What could be added

With the code as it is, what is left is either a stub or the layout of text. When the stubs are filled in,
the contracts that are external here become modules: the buffer pool over `ExtendibleHashTable`,
`LRUKReplacer` and `DiskManager`, under `TableHeap`; the lock manager under `TransactionManager`; the
executors of joins, aggregation and sort against `Rows`.

## 8. Running it

    tlc -workers 2 -config TxnAtomic.cfg MCTransactionManager
    tlapm TablePageProofs.tla

Each configuration names the constants of its run; the modules and properties of each run are listed in
PROJECT.json, along with the map from definitions to source lines and, for every property, a mutation of the
code that it catches.
