--------------------------- MODULE BustubInstance ---------------------------
(***************************************************************************)
(* Calls of ExecuteSql on one instance (common/bustub_instance.cpp), by    *)
(* several threads: a call begins a transaction, parses its statements     *)
(* under a shared catalog_lock_, then binds and runs them one by one.      *)
(* Binding looks up one table after the other without the lock; a table or *)
(* an index is created under it in several insertions; planning and the    *)
(* optimizer's rules run under a shared lock; execution is a call of Next  *)
(* per row.                                                                *)
(*                                                                         *)
(* An exception that leaves a call releases catalog_lock_ (the locks are   *)
(* scoped), but not the transaction: Commit is not reached.                *)
(*                                                                         *)
(* A call is a thread's whole work here, and Scripts are the texts the     *)
(* calls may be given.  db holds the rows of the tables, and those of a    *)
(* mock table are what its executor makes.                                 *)
(***************************************************************************)
EXTENDS QueryMeaning, QueryExecutors

CONSTANTS Calls,           \* the calls of ExecuteSql
          Scripts,         \* the statements they may be given: a sequence, for each call a sequence
          BaseCatalog,     \* the tables that exist at the start
          Stored           \* the rows of the tables that are not mock tables

VARIABLES catalog,         \* catalog_
          lock,            \* catalog_lock_: its readers and its writers
          latch,           \* how often global_txn_latch_ is read-locked
          variables,       \* session_variables_
          pc,              \* where a call is, and which step of it
          work             \* its statements and what it holds of them

vars == <<catalog, lock, latch, variables, pc, work>>

Tables == DOMAIN catalog.table_names
db == [t \in Tables |-> IF t \in mock_table_list THEN MockRows(t)
                        ELSE IF t \in DOMAIN Stored THEN Stored[t] ELSE <<>>]

At(c) == pc[c].at
Step(c) == pc[c].n
Stmt(c) == Head(work[c].todo)
Goto(c, at, n) == pc' = [pc EXCEPT ![c] = [at |-> at, n |-> n]]

Init ==
  \E i \in DOMAIN Scripts : LET script == Scripts[i] IN
    /\ catalog = BaseCatalog
    /\ lock = [readers |-> {}, writers |-> {}]
    /\ latch = 0
    /\ variables = <<>>
    /\ pc = [c \in Calls |-> [at |-> IF script[c] = <<>> THEN "done" ELSE "begin", n |-> 0]]
    /\ work = [c \in Calls |-> [todo |-> script[c], bound |-> Null, plan |-> Null, first |-> Null,
                                order |-> <<>>, cursor |-> 0, rows |-> <<>>, names |-> {}, thrown |-> "",
                                found |-> <<>>, made |-> {}]]

-----------------------------------------------------------------------------
(* catalog_lock_ *)
Unlocked(c) == [readers |-> lock.readers \ {c}, writers |-> lock.writers \ {c}]

LockShared(c) ==
  /\ lock.writers = {}
  /\ lock' = [lock EXCEPT !.readers = @ \cup {c}]

(* Mutant: the writer does not wait for the readers *)
LockExclusiveAmongReaders(c) ==
  /\ lock.writers = {}
  /\ lock' = [lock EXCEPT !.writers = {c}]

LockExclusive(c) ==
  /\ lock.writers = {} /\ lock.readers = {}
  /\ lock' = [lock EXCEPT !.writers = {c}]

(* Mutant: the exception goes past an unlock that is not scoped *)
FailLocked(c, node) ==
  /\ Goto(c, "thrown", 0)
  /\ work' = [work EXCEPT ![c].thrown = node.kind]
  /\ UNCHANGED <<catalog, lock, latch, variables>>

(* An exception leaves the call *)
Fail(c, node) ==
  /\ Goto(c, "thrown", 0)
  /\ lock' = Unlocked(c)
  /\ work' = [work EXCEPT ![c].thrown = node.kind]
  /\ UNCHANGED <<catalog, latch, variables>>

(* The statement is done.  (made, which the code does not keep: what the   *)
(* call has created.)                                                      *)
Finish(c) ==
  /\ work' = [work EXCEPT ![c].todo = Tail(@), ![c].bound = Null,
                          ![c].made = @ \cup {m \in {work[c].bound} : m.op \in {"CREATE", "INDEX"}}]
  /\ Goto(c, IF Len(work[c].todo) = 1 THEN "commit" ELSE "bind", 0)

-----------------------------------------------------------------------------

ExecuteSql(c) ==
  /\ At(c) = "begin"
  /\ latch' = latch + 1
  /\ Goto(c, IF Stmt(c).tag = "Meta" THEN Stmt(c).name ELSE "parse", 0)
  /\ UNCHANGED <<catalog, lock, variables, work>>

(* The lock is taken and given back around ParseAndSave *)
ParseAndSave(c) ==
  /\ At(c) = "parse"
  /\ lock.writers = {}
  /\ Goto(c, "bind", 0)
  /\ UNCHANGED <<catalog, lock, latch, variables, work>>

(* What ExecuteSqlTxn does with a bound statement *)
Handler == [op \in {"CREATE", "INDEX", "VARIABLE_SHOW", "VARIABLE_SET"} |->
              CASE op = "CREATE" -> "create" [] op = "INDEX" -> "index"
                [] op = "VARIABLE_SHOW" -> "show" [] op = "VARIABLE_SET" -> "set"]

Dispatch(c, bound) ==
  IF IsThrow(bound) THEN Fail(c, bound)
  ELSE /\ work' = [work EXCEPT ![c].bound = bound, ![c].found = <<>>]
       /\ Goto(c, IF bound.op \in DOMAIN Handler THEN Handler[bound.op] ELSE "plan", 0)
       /\ UNCHANGED <<catalog, lock, latch, variables>>

(* Each table of the statement is looked up in the catalog of that moment; *)
(* what is found does not change any more.                                 *)
LookUp(c) ==
  LET names == TableNames(Stmt(c))
  IN /\ At(c) = "bind" /\ Step(c) < Len(names)
     /\ LET name == names[Step(c) + 1]
        IN work' = [work EXCEPT ![c].found = @ @@ (name :> GetTable(catalog, name))]
     /\ Goto(c, "bind", Step(c) + 1)
     /\ UNCHANGED <<catalog, lock, latch, variables>>

Bind(c) ==
  /\ At(c) = "bind" /\ Step(c) = Len(TableNames(Stmt(c)))
  /\ Dispatch(c, BindStatement(Stmt(c), BinderOver(work[c].found)))

-----------------------------------------------------------------------------
(* CREATE TABLE and CREATE INDEX.  The columns of an index are checked     *)
(* before the lock is taken.                                               *)
IndexColumns(bound) ==
  [i \in DOMAIN bound.cols |-> TryGetColIdx(bound.table.schema, Last(bound.cols[i].x)) - 1]
IndexRefused(bound) ==
  \/ Len(bound.cols) # 1
  \/ \E i \in DOMAIN bound.cols : bound.table.schema[IndexColumns(bound)[i] + 1].type # "INTEGER"

LockForCreate(c) ==
  /\ At(c) \in {"create", "index"} /\ Step(c) = 0
  /\ IF At(c) = "index" /\ IndexRefused(work[c].bound) THEN Fail(c, Exception)
     ELSE /\ LockExclusive(c)
          /\ Goto(c, At(c), 1)
          /\ UNCHANGED <<catalog, latch, variables, work>>

(* After the last insertion the lock is given back *)
Insert(c, steps, cat) ==
  /\ catalog' = cat
  /\ IF Step(c) = steps THEN lock' = Unlocked(c) /\ Finish(c)
     ELSE Goto(c, At(c), Step(c) + 1) /\ UNCHANGED <<lock, work>>
  /\ UNCHANGED <<latch, variables>>

(* Mutant: the name is not looked up again once the lock is held *)
InsertTableUnchecked(c) ==
  LET bound == work[c].bound
  IN /\ At(c) = "create" /\ Step(c) > 0
     /\ Insert(c, CreateTableSteps, CreateTable(catalog, Step(c), bound.table, bound.columns))

InsertTable(c) ==
  LET bound == work[c].bound
  IN /\ At(c) = "create" /\ Step(c) > 0
     /\ IF Step(c) = 1 /\ HasTable(catalog, bound.table) THEN Fail(c, Exception)
        ELSE Insert(c, CreateTableSteps, CreateTable(catalog, Step(c), bound.table, bound.columns))

InsertIndex(c) ==
  LET bound == work[c].bound
      attrs == IndexColumns(bound)
  IN /\ At(c) = "index" /\ Step(c) > 0
     /\ IF Step(c) = 1 /\ HasIndex(catalog, bound.index, bound.table.table) THEN Fail(c, Exception)
        ELSE Insert(c, CreateIndexSteps,
                    CreateIndex(catalog, Step(c), bound.index, bound.table.table,
                                CopySchema(bound.table.schema, attrs), attrs))

-----------------------------------------------------------------------------
(* SHOW and SET *)
Show(c) ==
  /\ At(c) = "show"
  /\ Finish(c)
  /\ UNCHANGED <<catalog, lock, latch, variables>>

Set(c) ==
  /\ At(c) = "set"
  /\ variables' = (work[c].bound.variable :> work[c].bound.value) @@ variables
  /\ Finish(c)
  /\ UNCHANGED <<catalog, lock, latch>>

-----------------------------------------------------------------------------
(* Planning and optimizing *)
Query(c) == IF work[c].bound.op = "EXPLAIN" THEN work[c].bound.statement ELSE work[c].bound

LockForPlan(c) ==
  /\ At(c) = "plan" /\ Step(c) = 0
  /\ LockShared(c)
  /\ Goto(c, "plan", 1)
  /\ UNCHANGED <<catalog, latch, variables, work>>

KeepPlan(c, plan) ==
  IF IsThrow(plan) THEN Fail(c, plan)
  ELSE /\ work' = [work EXCEPT ![c].plan = plan, ![c].first = plan]
       /\ Goto(c, "optimize", 1)
       /\ UNCHANGED <<catalog, lock, latch, variables>>

PlanStatement(c) ==
  /\ At(c) = "plan" /\ Step(c) = 1
  /\ KeepPlan(c, PlanQuery(Query(c), catalog))

Optimize(c) ==
  LET plan == OptimizeStep(Step(c), work[c].plan, catalog)
  IN /\ At(c) = "optimize" /\ Step(c) <= OptimizerRules
     /\ IF IsThrow(plan) THEN Fail(c, plan)
        ELSE /\ work' = [work EXCEPT ![c].plan = plan]
             /\ Goto(c, "optimize", Step(c) + 1)
             /\ UNCHANGED <<catalog, lock, latch, variables>>

(* EXPLAIN ends here *)
Optimized(c) ==
  /\ At(c) = "optimize" /\ Step(c) = OptimizerRules + 1
  /\ lock' = Unlocked(c)
  /\ IF work[c].bound.op = "EXPLAIN" THEN Finish(c)
     ELSE Goto(c, "execute", 0) /\ UNCHANGED work
  /\ UNCHANGED <<catalog, latch, variables>>

-----------------------------------------------------------------------------
(* Execution.  The exceptions of the constructors and of Init are no       *)
(* ExecutionExceptions: Execute lets them through.                         *)
Execute(c) ==
  LET plan == work[c].plan
  IN /\ At(c) = "execute"
     /\ IF CreateExecutorThrows(plan) \/ InitThrows(plan) THEN Fail(c, Exception)
        ELSE /\ \E order \in ScanOrders(LeafTable(plan)) :
                  work' = [work EXCEPT ![c].order = order, ![c].cursor = 0, ![c].rows = <<>>]
             /\ Goto(c, "poll", 0)
             /\ UNCHANGED <<catalog, lock, latch, variables>>

PollExecutor(c) ==
  LET next == NextRow(work[c].plan, work[c].order, work[c].cursor)
  IN /\ At(c) = "poll"
     /\ IF next.active
        THEN /\ work' = [work EXCEPT ![c].cursor = next.cursor, ![c].rows = Append(@, next.row)]
             /\ Goto(c, "poll", Step(c) + 1)
        ELSE Goto(c, "output", 0) /\ UNCHANGED work
     /\ UNCHANGED <<catalog, lock, latch, variables>>

(* The rows are written by the schema of the plan before it was optimized *)
Output(c) ==
  /\ At(c) = "output"
  /\ Finish(c)
  /\ UNCHANGED <<catalog, lock, latch, variables>>

Commit(c) ==
  /\ At(c) = "commit"
  /\ latch' = latch - 1
  /\ Goto(c, "done", 0)
  /\ UNCHANGED <<catalog, lock, variables, work>>

-----------------------------------------------------------------------------
(* \dt and \di: the names of the tables, then a lookup for each of them,   *)
(* all without catalog_lock_                                               *)
DisplayNames(c) ==
  /\ At(c) \in {"dt", "di"} /\ Step(c) = 0
  /\ work' = [work EXCEPT ![c].names = GetTableNames(catalog)]
  /\ Goto(c, At(c), 1)
  /\ UNCHANGED <<catalog, lock, latch, variables>>

DisplayOne(c) ==
  /\ At(c) \in {"dt", "di"} /\ Step(c) > 0 /\ work[c].names # {}
  /\ \E name \in work[c].names :
       IF IF At(c) = "dt" THEN TableWhole(catalog, name) ELSE IndexesWhole(catalog, name)
       THEN /\ work' = [work EXCEPT ![c].names = @ \ {name}]
            /\ Goto(c, At(c), Step(c) + 1)
            /\ UNCHANGED <<catalog, lock, latch, variables>>
       ELSE Fail(c, Throw("assertion"))

DisplayEnd(c) ==
  /\ At(c) \in {"dt", "di"} /\ Step(c) > 0 /\ work[c].names = {}
  /\ Finish(c)
  /\ UNCHANGED <<catalog, lock, latch, variables>>

-----------------------------------------------------------------------------
Call(c) ==
  \/ ExecuteSql(c) \/ ParseAndSave(c) \/ LookUp(c) \/ Bind(c)
  \/ LockForCreate(c) \/ InsertTable(c) \/ InsertIndex(c) \/ Show(c) \/ Set(c)
  \/ LockForPlan(c) \/ PlanStatement(c) \/ Optimize(c) \/ Optimized(c)
  \/ Execute(c) \/ PollExecutor(c) \/ Output(c) \/ Commit(c)
  \/ DisplayNames(c) \/ DisplayOne(c) \/ DisplayEnd(c)

Next == \E c \in Calls : Call(c)

Ended(c) == At(c) \in {"done", "thrown"}

(* A call that has not ended can go on unless it waits for catalog_lock_ *)
Waits(c) ==
  \/ At(c) = "parse" /\ lock.writers # {}
  \/ At(c) = "plan" /\ Step(c) = 0 /\ lock.writers # {}
  \/ /\ At(c) \in {"create", "index"} /\ Step(c) = 0
     /\ ~(At(c) = "index" /\ IndexRefused(work[c].bound))
     /\ lock.writers # {} \/ lock.readers # {}

Places == {"parse", "bind", "create", "index", "show", "set", "plan", "optimize", "execute",
           "poll", "output", "commit", "dt", "di", "done", "thrown"}
Moves(c) ==
  /\ ~Ended(c) /\ ~Waits(c)
  /\ \E at \in Places, n \in {0, 1, Step(c) + 1} : Goto(c, at, n)

(* Every thread runs on until its call returns: whenever a call can go on, *)
(* it does.                                                                *)
Spec == Init /\ [][Next]_vars /\ \A c \in Calls : WF_pc(Moves(c))

-----------------------------------------------------------------------------
TypeOK ==
  /\ lock.readers \subseteq Calls /\ lock.writers \subseteq Calls
  /\ latch \in 0 .. Cardinality(Calls)
  /\ \A c \in Calls : /\ Step(c) \in Nat
                      /\ work[c].cursor \in Nat
                      /\ work[c].names \subseteq DOMAIN catalog.table_names
  /\ DOMAIN catalog.tables \subseteq 0 .. catalog.next_table_oid - 1
  /\ DOMAIN catalog.indexes \subseteq 0 .. catalog.next_index_oid - 1

(* What a call has created is there for every other: a table is found      *)
(* under its name with the columns the call asked for, and an index under  *)
(* its name with the key the call asked for, whatever the other calls      *)
(* create under the same names.  Binding, before the lock is taken, tells  *)
(* neither of two such calls of the other.                                 *)
CreatedIsFound ==
  \A c \in Calls : \A m \in work[c].made :
    IF m.op = "CREATE" THEN LET info == GetTable(catalog, m.table)
                            IN info.op = "table" /\ info.schema = m.columns
    ELSE \E info \in GetTableIndexes(catalog, m.table.table) :
           info.name = m.index /\ info.key_attrs = IndexColumns(m)

(* The catalog's maps agree.  A name leads to its table at every moment,   *)
(* as the lookups that hold no lock need; and while no call holds          *)
(* catalog_lock_ for writing every table has its name and its map of       *)
(* indexes, and every index is listed under its table with a key that is   *)
(* made of the table's columns.  (With the types.)                         *)
CatalogWhole ==
  /\ TypeOK
  /\ \A t \in Tables : TableWhole(catalog, t) /\ GetTable(catalog, t).name = t
  /\ lock.writers = {} =>
       /\ \A oid \in DOMAIN catalog.tables : catalog.table_names[catalog.tables[oid].name] = oid
       /\ \A t \in Tables : IndexesWhole(catalog, t)
       /\ \A oid \in DOMAIN catalog.indexes :
            LET info == catalog.indexes[oid]
            IN /\ catalog.index_names[info.table][info.name] = oid
               /\ info.key_schema = CopySchema(GetTable(catalog, info.table).schema, info.key_attrs)

(* While a call plans and optimizes, the catalog it reads stays as it is. *)
PlannedOnOneCatalog == [][lock.readers # {} => catalog' = catalog]_catalog

(* The parse tree of the query a call is at *)
QueryOf(c) == IF Stmt(c).tag = "ExplainStmt" THEN Stmt(c).query ELSE Stmt(c)

(* What the binder lets through and the planner plans means what the       *)
(* statement means: every name in it denotes one column, and the plan      *)
(* promises the statement's rows (for an UPDATE, a DELETE or an INSERT,    *)
(* the rows it leaves, removes or adds), in their order.                   *)
PlanMeansStatement ==
  \A c \in Calls : At(c) = "optimize" /\ Step(c) = 1 =>
    LET meaning == Meaning(QueryOf(c), catalog, db)
    IN meaning.ok /\ Plain(Rows(work[c].first, db)) = Plain(meaning.rows)

(* The tables a plan reads: one of its leaves for each time, with the      *)
(* column of the index it is read through, or -1                           *)
RECURSIVE Readings(_)
Readings(plan) ==
  (CASE plan.op \in {"SeqScan", "MockScan"} -> <<[table |-> plan.x, by |-> -1]>>
     [] plan.op \in {"IndexScan", "NestedIndexJoin"} -> <<[table |-> plan.x.table, by |-> plan.x.key_attr]>>
     [] OTHER -> <<>>) \o FlattenSeq([i \in DOMAIN plan.kids |-> Readings(plan.kids[i])])

(* What a plan that reads each table once gets to see of the tables *)
Through(plan) == {r \in ToSet(Readings(plan)) : r.by # -1}
Seen(plan) ==
  [t \in Tables |-> IF \E r \in Through(plan) : r.table = t
                    THEN IndexedRows(db[t], (CHOOSE r \in Through(plan) : r.table = t).by) ELSE db[t]]
ReadsOnce(plan) == IsInjective([i \in DOMAIN Readings(plan) |-> Readings(plan)[i].table])
IndexesHoldAll(plan) == \A r \in Through(plan) : IndexedRows(db[r.table], r.by) = db[r.table]

(* Each rule of the optimizer leaves the rows of the plan and the types of *)
(* its columns alone; so would the hash join rule, which is not called.    *)
(* An index holds unique keys, so that a plan that reads one has the rows  *)
(* it would have of the table without those its index refused: all of them *)
(* if the column has no two equal values and no NULL.  (Nothing is said of *)
(* a plan that reads a table twice and one of its indexes lacks a row.)    *)
SameRows(plan, first) ==
  /\ IndexesHoldAll(plan) \/ ReadsOnce(plan) => Plain(Rows(plan, db)) = Plain(Rows(first, Seen(plan)))
  /\ Types(plan.schema) = Types(first.schema)

OptimizerKeepsRows ==
  \A c \in Calls : At(c) = "optimize" =>
    /\ SameRows(work[c].plan, work[c].first)
    /\ SameRows(OptimizeNLJAsHashJoin(work[c].plan), work[c].first)

(* The rows that the executors return, one call of Next at a time, are the *)
(* rows the plan promised before it was optimized, in the order the scan   *)
(* takes them, and they fit the schema of that plan, by which they are     *)
(* written out.  (The executor of an aggregation returns nothing yet.)     *)
Promised(c) ==
  LET table == LeafTable(work[c].plan)
  IN Rows(work[c].first, IF table = "" THEN db
                         ELSE [db EXCEPT ![table] = [i \in DOMAIN @ |-> @[work[c].order[i]]]])

ExecutedRows ==
  \A c \in Calls : At(c) \in {"poll", "output"} /\ "Aggregation" \notin PlanNodes(work[c].plan) =>
    /\ Plain(work[c].rows) = Plain(SubSeq(Promised(c), 1, Len(work[c].rows)))
    /\ At(c) = "output" => Len(work[c].rows) = Len(Promised(c))
    /\ \A i \in DOMAIN work[c].rows :
         [k \in DOMAIN work[c].rows[i] |-> work[c].rows[i][k].type] = Types(work[c].first.schema)

(* Every call of ExecuteSql returns or throws: no call waits for           *)
(* catalog_lock_ for good, even after others have ended in an exception.   *)
CallsEnd == <>(\A c \in Calls : Ended(c))

(* A statement the binder accepts is one the planner knows what to do      *)
(* with: it plans it or refuses it with a bustub::Exception, and does not  *)
(* reach an UNREACHABLE, a null pointer or the end of its stack.           *)
BoundIsPlanned == \A c \in Calls : work[c].thrown \in {"", "Exception"}
=============================================================================
