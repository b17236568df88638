----------------------------- MODULE QueryPlans -----------------------------
(***************************************************************************)
(* The plan nodes (execution/plans), the schemas inferred for them, and    *)
(* the rows a plan promises: Rows, the meaning of a plan over the contents *)
(* db of the tables, in the order of a row-at-a-time execution.  The       *)
(* executors of most nodes are still to be written, so Rows is what their  *)
(* plan classes say; for the executors that exist it is checked.           *)
(*                                                                         *)
(* A plan has an op, an output schema, expressions, children and what is   *)
(* particular to the node (x).  A column of a schema is named by the       *)
(* sequence of identifiers that the code joins with dots.                  *)
(***************************************************************************)
EXTENDS Binder, FiniteSets

Plan(op, schema, exprs, kids, x) ==
  Built(kids \o exprs, [op |-> op, schema |-> Eager(schema), exprs |-> Eager(exprs), kids |-> Eager(kids), x |-> x])

UnnamedColumn == <<"<unnamed>">>

InferScanSchema(ref) ==
  Eager([i \in DOMAIN ref.schema |-> Column(<<ref.bound, ref.schema[i].name>>, ref.schema[i].type)])
InferJoinSchema(left, right) == left.schema \o right.schema
InferProjectionSchema(exprs) == Eager([i \in DOMAIN exprs |-> Column(UnnamedColumn, exprs[i].type)])
RenameSchema(schema, names) == Eager([i \in DOMAIN schema |-> Column(names[i], schema[i].type)])
InferAggSchema(group_bys, aggregates) ==
  InferProjectionSchema(group_bys) \o Eager([i \in DOMAIN aggregates |-> Column(UnnamedColumn, "INTEGER")])

SeqScanPlanNode(schema, table) == Plan("SeqScan", schema, <<>>, <<>>, table)
MockScanPlanNode(schema, table) == Plan("MockScan", schema, <<>>, <<>>, table)
(* x: the width of the rows, which exprs holds one after the other *)
ValuesPlanNode(schema, rows) ==
  Plan("Values", schema, FlattenSeq(rows), <<>>, [rows |-> Len(rows), width |-> Len(schema)])
FilterPlanNode(schema, predicate, child) == Plan("Filter", schema, <<predicate>>, <<child>>, "")
ProjectionPlanNode(schema, exprs, child) == Plan("Projection", schema, exprs, <<child>>, "")
NestedLoopJoinPlanNode(schema, left, right, predicate, join_type) ==
  Plan("NestedLoopJoin", schema, <<predicate>>, <<left, right>>, join_type)
NestedIndexJoinPlanNode(schema, child, key, table, key_attr, inner, join_type) ==
  Plan("NestedIndexJoin", schema, <<key>>, <<child>>,
       [table |-> table, key_attr |-> key_attr, inner |-> inner, join_type |-> join_type])
HashJoinPlanNode(schema, left, right, left_key, right_key, join_type) ==
  Plan("HashJoin", schema, <<left_key, right_key>>, <<left, right>>, join_type)
(* The group-bys, then the aggregates *)
AggregationPlanNode(schema, child, group_bys, aggregates, agg_types) ==
  Plan("Aggregation", schema, group_bys \o aggregates, <<child>>, agg_types)
SortPlanNode(schema, child, exprs, types) == Plan("Sort", schema, exprs, <<child>>, types)
LimitPlanNode(schema, child, limit) == Plan("Limit", schema, <<>>, <<child>>, limit)
IndexScanPlanNode(schema, table, key_attr) ==
  Plan("IndexScan", schema, <<>>, <<>>, [table |-> table, key_attr |-> key_attr])
InsertPlanNode(schema, child, oid) == Plan("Insert", schema, <<>>, <<child>>, oid)
DeletePlanNode(schema, child, oid) == Plan("Delete", schema, <<>>, <<child>>, oid)
UpdatePlanNode(schema, child, oid, exprs) == Plan("Update", schema, exprs, <<child>>, oid)

ClonePlanWithChildren(plan, kids) == Built(kids, IF IsThrow(plan) THEN plan ELSE [plan EXCEPT !.kids = kids])

RECURSIVE PlanNodes(_)
PlanNodes(plan) == {plan.op} \cup UNION {PlanNodes(plan.kids[i]) : i \in DOMAIN plan.kids}

-----------------------------------------------------------------------------
(* What a plan promises *)
NullRow(schema) == [i \in DOMAIN schema |-> NullOf(schema[i].type)]

(* The pairs of rows that match, left by left; LEFT and OUTER keep a left  *)
(* row that matches none, RIGHT and OUTER a right one, at the end.  at     *)
(* says which pairs match.                                                 *)
JoinRows(left, right, at, join_type, left_schema, right_schema) ==
  LET Of(i) == LET found == SelectSeq([j \in DOMAIN right |-> j], LAMBDA j : at[i, j])
               IN IF found = <<>> /\ join_type \in {"LEFT", "OUTER"}
                  THEN <<left[i] \o NullRow(right_schema)>>
                  ELSE [n \in DOMAIN found |-> left[i] \o right[found[n]]]
      alone == IF join_type \notin {"RIGHT", "OUTER"} THEN <<>>
               ELSE SelectSeq([j \in DOMAIN right |-> j], LAMBDA j : \A i \in DOMAIN left : ~at[i, j])
  IN FlattenSeq(Eager([i \in DOMAIN left |-> Of(i)]))
       \o [n \in DOMAIN alone |-> NullRow(left_schema) \o right[alone[n]]]

(* An aggregate over the values of a group: NULLs are skipped *)
Aggregate(type, vals) ==
  LET known == SelectSeq(vals, LAMBDA v : ~v.null)
      ns == {known[i].v : i \in DOMAIN known}
      Add(a, b) == a + b.v
  IN IF type = "CountStarAggregate" THEN GetIntegerValue(Len(vals))
     ELSE IF known = <<>> THEN NullOf("INTEGER")
     ELSE CASE type = "CountAggregate" -> GetIntegerValue(Len(known))
       [] type = "SumAggregate" -> GetIntegerValue(FoldLeft(Add, 0, known))
       [] type = "MinAggregate" -> GetIntegerValue(CHOOSE n \in ns : \A m \in ns : n <= m)
       [] type = "MaxAggregate" -> GetIntegerValue(CHOOSE n \in ns : \A m \in ns : n >= m)

(* Groups in the order of their first rows.  same: of the keys of two rows *)
GroupsBy(rows, keys, same(_, _)) ==
  LET places == [i \in DOMAIN rows |-> i]
      Begins(i) == \A j \in 1 .. i - 1 : ~same(keys[j], keys[i])
      first == SelectSeq(places, Begins)
  IN Eager([g \in DOMAIN first |-> SelectSeq(places, LAMBDA i : i = first[g] \/ same(keys[first[g]], keys[i]))])

(* AggregateKeys are equal if all their values compare equal, which a NULL *)
(* does with nothing: each row with one is a group of its own.             *)
SameAggregateKey(xs, ys) == \A k \in DOMAIN xs : ~xs[k].null /\ ~ys[k].null /\ xs[k].v = ys[k].v

GroupRows(rows, keys) == GroupsBy(rows, keys, SameAggregateKey)

(* The rows of a table that an index on a column holds.  Its keys are      *)
(* unique: an entry is refused if its key compares neither below nor above *)
(* one that is there, and a NULL compares so with every key.               *)
SameIndexKey(x, y) == x.null \/ y.null \/ x.v = y.v

IndexedRows(rows, key_attr) ==
  LET Key(row) == row[key_attr + 1]
      InsertEntry(held, row) ==
        IF \E i \in DOMAIN held : SameIndexKey(Key(held[i]), Key(row)) THEN held ELSE Append(held, row)
  IN FoldLeft(InsertEntry, <<>>, rows)

(* NULL is below every value.  before: of two sequences of values *)
RECURSIVE SortsBefore(_, _, _)
SortsBefore(types, xs, ys) ==
  IF types = <<>> THEN FALSE
  ELSE LET x == Head(xs)
           y == Head(ys)
           below == IF x.null \/ y.null THEN x.null /\ ~y.null ELSE x.v < y.v
           above == IF x.null \/ y.null THEN ~x.null /\ y.null ELSE x.v > y.v
       IN IF below \/ above THEN IF Head(types) = "DESC" THEN above ELSE below
          ELSE SortsBefore(Tail(types), Tail(xs), Tail(ys))

(* A stable sort of the rows by their keys *)
SortRows(rows, keys, types) ==
  LET Ahead(j, i) == \/ SortsBefore(types, keys[j], keys[i])
                     \/ j < i /\ ~SortsBefore(types, keys[i], keys[j])
      Rank(i) == Cardinality({j \in DOMAIN rows : Ahead(j, i)})
  IN [n \in DOMAIN rows |-> rows[CHOOSE i \in DOMAIN rows : Rank(i) = n - 1]]

EvaluateAll(exprs, row) == Eager([i \in DOMAIN exprs |-> Evaluate(exprs[i], row)])

RECURSIVE Rows(_, _)
Rows(p, db) ==
  LET child == Rows(p.kids[1], db)
      right == Rows(p.kids[2], db)
      Joined(rows, at, type, schema) == JoinRows(child, rows, at, type, p.kids[1].schema, schema)
      Matches(a, b) == IsTrue(GetBooleanValue(PerformComparison("Equal", a, b)))
  IN CASE p.op \in {"SeqScan", "MockScan"} -> db[p.x]
       [] p.op = "Values" ->
            Eager([r \in 1 .. p.x.rows |-> Eager([c \in 1 .. p.x.width |->
                Evaluate(p.exprs[(r - 1) * p.x.width + c], <<>>)])])
       [] p.op = "Filter" -> SelectSeq(child, LAMBDA row : IsTrue(Evaluate(p.exprs[1], row)))
       [] p.op \in {"Projection", "Update"} -> Eager([i \in DOMAIN child |-> EvaluateAll(p.exprs, child[i])])
       [] p.op = "NestedLoopJoin" ->
            Joined(right, [i \in DOMAIN child, j \in DOMAIN right |->
                             IsTrue(EvaluateJoin(p.exprs[1], child[i], right[j]))], p.x, p.kids[2].schema)
       [] p.op = "HashJoin" ->
            Joined(right, [i \in DOMAIN child, j \in DOMAIN right |->
                             Matches(Evaluate(p.exprs[1], child[i]), Evaluate(p.exprs[2], right[j]))],
                   p.x, p.kids[2].schema)
       [] p.op = "NestedIndexJoin" ->
            LET inner == IndexedRows(db[p.x.table], p.x.key_attr)
            IN Joined(inner, [i \in DOMAIN child, j \in DOMAIN inner |->
                                Matches(Evaluate(p.exprs[1], child[i]), inner[j][p.x.key_attr + 1])],
                      p.x.join_type, p.x.inner)
       [] p.op = "Aggregation" ->
            LET n == Len(p.exprs) - Len(p.x)
                group_bys == SubSeq(p.exprs, 1, n)
                keys == Eager([i \in DOMAIN child |-> EvaluateAll(group_bys, child[i])])
                groups == IF n = 0 THEN <<[i \in DOMAIN child |-> i]>> ELSE GroupRows(child, keys)
                Agg(g, k) == Aggregate(p.x[k], Eager([i \in DOMAIN g |-> Evaluate(p.exprs[n + k], child[g[i]])]))
            IN Eager([g \in DOMAIN groups |-> (IF n = 0 THEN <<>> ELSE keys[groups[g][1]])
                                          \o Eager([k \in DOMAIN p.x |-> Agg(groups[g], k)])])
       [] p.op = "Sort" -> SortRows(child, Eager([i \in DOMAIN child |-> EvaluateAll(p.exprs, child[i])]), p.x)
       [] p.op = "Limit" -> SubSeq(child, 1, IF p.x < Len(child) THEN p.x ELSE Len(child))
       [] p.op = "IndexScan" ->
            LET rows == IndexedRows(db[p.x.table], p.x.key_attr)
            IN SortRows(rows, [i \in DOMAIN rows |-> <<rows[i][p.x.key_attr + 1]>>], <<"ASC">>)
       [] p.op \in {"Insert", "Delete"} -> child
=============================================================================
