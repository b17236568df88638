--------------------------- MODULE QueryExecutors ---------------------------
(***************************************************************************)
(* The executors (execution/): what CreateExecutor and Init throw, and the *)
(* row a call of Next gives.                                               *)
(*                                                                         *)
(* The executors that run (mock scan, values, filter, projection, and the  *)
(* aggregation that returns nothing yet) have at most one child, so that   *)
(* a tree of them has one leaf, and its state is the leaf's: cursor_ and,  *)
(* for a shuffled mock table, shuffled_idx_.                               *)
(***************************************************************************)
EXTENDS Optimizer, MockTables

(* The constructors of the joins look at their type *)
RECURSIVE CreateExecutorThrows(_)
CreateExecutorThrows(plan) ==
  \/ \E i \in DOMAIN plan.kids : CreateExecutorThrows(plan.kids[i])
  \/ plan.op \in {"NestedLoopJoin", "HashJoin"} /\ plan.x \notin {"LEFT", "INNER"}
  \/ plan.op = "NestedIndexJoin" /\ plan.x.join_type \notin {"LEFT", "INNER"}

RECURSIVE InitThrows(_)
InitThrows(plan) ==
  IF plan.op \in {"Filter", "Projection"} THEN InitThrows(plan.kids[1])
  ELSE plan.op \notin {"Values", "MockScan", "Aggregation"}

(* The mock table at the leaf, if there is one *)
RECURSIVE LeafTable(_)
LeafTable(plan) ==
  IF plan.op \in {"Filter", "Projection"} THEN LeafTable(plan.kids[1])
  ELSE IF plan.op = "MockScan" THEN plan.x ELSE ""

(* The orders a scan may take the rows of a table in *)
ScanOrders(table) ==
  IF table = "" THEN {<<>>}
  ELSE IF ~GetShuffled(table) THEN {[i \in 1 .. ScannedRows(table) |-> i]}
  ELSE {f \in [1 .. ScannedRows(table) -> 1 .. ScannedRows(table)] :
          \A i, j \in 1 .. ScannedRows(table) : f[i] = f[j] => i = j}

-----------------------------------------------------------------------------
(* Next, with cursor_ as it is: whether there is a row, the row, and       *)
(* cursor_ as the call leaves it                                           *)
Active(row, cursor) == [active |-> TRUE, row |-> row, cursor |-> cursor]
Exhausted(cursor) == [active |-> FALSE, row |-> <<>>, cursor |-> cursor]

MockScanExecutor(plan, order, cursor) ==
  IF cursor = ScannedRows(plan.x) THEN Exhausted(cursor)
  ELSE Active(GetFunctionOf(plan.x, order[cursor + 1] - 1), cursor + 1)

ValuesExecutor(plan, cursor) ==
  IF cursor >= plan.x.rows THEN Exhausted(cursor)
  ELSE Active(Eager([c \in 1 .. plan.x.width |-> Evaluate(plan.exprs[cursor * plan.x.width + c], <<>>)]), cursor + 1)

RECURSIVE NextRow(_, _, _)
RECURSIVE FilterExecutor(_, _, _)
(* Mutant: a row whose predicate is NULL is let through *)
FilterKeepsNull(plan, order, cursor) ==
  LET next == NextRow(plan.kids[1], order, cursor)
      value == Evaluate(plan.exprs[1], next.row)
  IN IF ~next.active \/ value.null \/ IsTrue(value) THEN next
     ELSE FilterExecutor(plan, order, next.cursor)

FilterExecutor(plan, order, cursor) ==
  LET next == NextRow(plan.kids[1], order, cursor)
  IN IF ~next.active \/ IsTrue(Evaluate(plan.exprs[1], next.row)) THEN next
     ELSE FilterExecutor(plan, order, next.cursor)

ProjectionExecutor(plan, order, cursor) ==
  LET next == NextRow(plan.kids[1], order, cursor)
  IN IF ~next.active THEN next ELSE Active(EvaluateAll(plan.exprs, next.row), next.cursor)

NextRow(plan, order, cursor) ==
  CASE plan.op = "MockScan" -> MockScanExecutor(plan, order, cursor)
    [] plan.op = "Values" -> ValuesExecutor(plan, cursor)
    [] plan.op = "Filter" -> FilterExecutor(plan, order, cursor)
    [] plan.op = "Projection" -> ProjectionExecutor(plan, order, cursor)
    [] plan.op = "Aggregation" -> Exhausted(cursor)
=============================================================================
