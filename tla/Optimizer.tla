----------------------------- MODULE Optimizer ------------------------------
(***************************************************************************)
(* The optimizer (optimizer/): each rule walks the plan from the leaves    *)
(* up.  The rules run one after the other, the starter rules and the       *)
(* custom rules in the same order.  The catalog gives the indexes; which   *)
(* of two matching indexes is met first is left to the map's order, and    *)
(* makes no difference to the plan but for the index's name.               *)
(***************************************************************************)
EXTENDS Planner

IsIdentityProjection(plan) ==
  /\ plan.op = "Projection"
  /\ Types(plan.schema) = Types(plan.kids[1].schema)
  /\ \A i \in DOMAIN plan.exprs : /\ IsColumn(plan.exprs[i])
                                  /\ GetTupleIdx(plan.exprs[i]) = 0
                                  /\ GetColIdx(plan.exprs[i]) = i - 1

RECURSIVE OptimizeMergeProjection(_)
OptimizeMergeProjection(plan) ==
  LET kids == Eager([i \in DOMAIN plan.kids |-> OptimizeMergeProjection(plan.kids[i])])
      p == ClonePlanWithChildren(plan, kids)
  IN IF ~IsThrow(p) /\ IsIdentityProjection(p)
     THEN [p.kids[1] EXCEPT !.schema = p.schema] ELSE p

-----------------------------------------------------------------------------
(* Mutant: the columns of the right side are counted from the first of the left *)
ColumnOfJoinUnshifted(e, left_column_cnt, right_column_cnt) ==
  ColumnValueExpression(IF GetColIdx(e) < left_column_cnt THEN 0 ELSE 1,
                        GetColIdx(e) % right_column_cnt, e.type)

(* A column of the joined row, as a column of the left or of the right row *)
ColumnOfJoin(e, left_column_cnt, right_column_cnt) ==
  IF GetTupleIdx(e) # 0 THEN Unreachable
  ELSE IF GetColIdx(e) < left_column_cnt THEN ColumnValueExpression(0, GetColIdx(e), e.type)
  ELSE IF GetColIdx(e) < left_column_cnt + right_column_cnt
  THEN ColumnValueExpression(1, GetColIdx(e) - left_column_cnt, e.type)
  ELSE Exception

RECURSIVE RewriteExpressionForJoin(_, _, _)
RewriteExpressionForJoin(e, left_column_cnt, right_column_cnt) ==
  LET children == Eager([i \in DOMAIN e.args |->
                     RewriteExpressionForJoin(e.args[i], left_column_cnt, right_column_cnt)])
  IN Built(children, IF IsColumn(e) THEN ColumnOfJoin(e, left_column_cnt, right_column_cnt)
                     ELSE CloneWithChildren(e, children))

(* A constant is cast to BOOLEAN, which no INTEGER can be (a VARCHAR by   *)
(* what it spells: no join condition is one here)                         *)
PredicateThrows(e) == e.op = "Constant" /\ e.x.type = "INTEGER"
IsPredicateTrue(e) == e.op = "Constant" /\ e.x.type = "BOOLEAN" /\ IsTrue(e.x)

RECURSIVE OptimizeMergeFilterNLJ(_)
OptimizeMergeFilterNLJ(plan) ==
  LET kids == Eager([i \in DOMAIN plan.kids |-> OptimizeMergeFilterNLJ(plan.kids[i])])
      p == ClonePlanWithChildren(plan, kids)
      nlj == p.kids[1]
  IN IF IsThrow(p) \/ p.op # "Filter" \/ nlj.op # "NestedLoopJoin" THEN p
     ELSE IF PredicateThrows(nlj.exprs[1]) THEN Exception
     ELSE IF ~IsPredicateTrue(nlj.exprs[1]) THEN p
     ELSE NestedLoopJoinPlanNode(p.schema, nlj.kids[1], nlj.kids[2],
            RewriteExpressionForJoin(p.exprs[1], Len(nlj.kids[1].schema), Len(nlj.kids[2].schema)),
            nlj.x)

-----------------------------------------------------------------------------
(* An equality of a column of the left side and one of the right side, as  *)
(* the pair of them, or none                                               *)
EqualColumns(e) ==
  IF e.op = "Comparison" /\ e.x = "Equal" /\ IsColumn(e.args[1]) /\ IsColumn(e.args[2])
  THEN LET on == <<GetTupleIdx(e.args[1]), GetTupleIdx(e.args[2])>>
       IN CASE on = <<0, 1>> -> <<e.args[1], e.args[2]>>
            [] on = <<1, 0>> -> <<e.args[2], e.args[1]>>
            [] OTHER -> <<>>
  ELSE <<>>

ToTuple0(e) == ColumnValueExpression(0, GetColIdx(e), e.type)

(* Whether some index of the table has the column as its only key *)
MatchIndex(cat, table_name, index_key_idx) ==
  \E info \in GetTableIndexes(cat, table_name) : info.key_attrs = <<index_key_idx>>

RECURSIVE OptimizeNLJAsIndexJoin(_, _)
OptimizeNLJAsIndexJoin(plan, cat) ==
  LET kids == Eager([i \in DOMAIN plan.kids |-> OptimizeNLJAsIndexJoin(plan.kids[i], cat)])
      p == ClonePlanWithChildren(plan, kids)
      cols == EqualColumns(p.exprs[1])
      right == p.kids[2]
  IN IF \/ IsThrow(p) \/ p.op # "NestedLoopJoin" \/ cols = <<>> \/ right.op # "SeqScan"
        \/ ~MatchIndex(cat, right.x, GetColIdx(cols[2])) THEN p
     ELSE NestedIndexJoinPlanNode(p.schema, p.kids[1], ToTuple0(cols[1]), right.x,
                                  GetColIdx(cols[2]), right.schema, p.x)

(* Written, and not called by Optimize yet *)
RECURSIVE OptimizeNLJAsHashJoin(_)
OptimizeNLJAsHashJoin(plan) ==
  LET kids == Eager([i \in DOMAIN plan.kids |-> OptimizeNLJAsHashJoin(plan.kids[i])])
      p == ClonePlanWithChildren(plan, kids)
      cols == EqualColumns(p.exprs[1])
  IN IF IsThrow(p) \/ p.op # "NestedLoopJoin" \/ cols = <<>> THEN p
     ELSE HashJoinPlanNode(p.schema, p.kids[1], p.kids[2], ToTuple0(cols[1]), ToTuple0(cols[2]), p.x)

-----------------------------------------------------------------------------
(* The index's key schema and the table's schema are compared by name *)
IndexOrders(cat, table, col_idx) ==
  \E info \in GetTableIndexes(cat, table) :
    /\ Len(info.key_schema) = 1
    /\ info.key_schema[1].name = GetTable(cat, table).schema[col_idx + 1].name

SortIsAscending(p) == Len(p.exprs) = 1 /\ p.x[1] \in {"ASC", "DEFAULT"}

RECURSIVE OptimizeOrderByAsIndexScan(_, _)
OptimizeOrderByAsIndexScan(plan, cat) ==
  LET kids == Eager([i \in DOMAIN plan.kids |-> OptimizeOrderByAsIndexScan(plan.kids[i], cat)])
      p == ClonePlanWithChildren(plan, kids)
      scan == p.kids[1]
  IN IF \/ IsThrow(p) \/ p.op # "Sort" \/ ~SortIsAscending(p) \/ ~IsColumn(p.exprs[1])
        \/ scan.op # "SeqScan" \/ ~IndexOrders(cat, scan.x, GetColIdx(p.exprs[1])) THEN p
     ELSE IndexScanPlanNode(p.schema, scan.x, GetColIdx(p.exprs[1]))

OptimizeSortLimitAsTopN(plan) == plan

-----------------------------------------------------------------------------
(* The rules, in the order of Optimize and of OptimizeCustom *)
OptimizerRules == 5

OptimizeStep(n, plan, cat) ==
  CASE n = 1 -> OptimizeMergeProjection(plan)
    [] n = 2 -> OptimizeMergeFilterNLJ(plan)
    [] n = 3 -> OptimizeNLJAsIndexJoin(plan, cat)
    [] n = 4 -> OptimizeOrderByAsIndexScan(plan, cat)
    [] n = 5 -> OptimizeSortLimitAsTopN(plan)
=============================================================================
