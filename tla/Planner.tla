------------------------------ MODULE Planner -------------------------------
(***************************************************************************)
(* The planner (planner/): from a bound statement to a plan.               *)
(*                                                                         *)
(* ctx is what the planner keeps while it walks the statement: the catalog,*)
(* ctx_.cte_list_, and `done`, the SELECTs whose aggregation calls it has  *)
(* already taken out of the bound tree.  AddAggCallToContext replaces such *)
(* a call by a pseudo call in the tree itself, so that a SELECT planned a  *)
(* second time (a common table expression used twice) has pseudo calls     *)
(* where it had calls.  A function that plans a SELECT therefore returns   *)
(* the plan p and the SELECTs done.  depth bounds the recursion.           *)
(***************************************************************************)
EXTENDS QueryPlans

CONSTANTS MockTables,     \* the table names that start with "__mock"
          MaxCTEDepth     \* nested references to CTEs before the stack is used up

Planned(p, done) == [p |-> p, done |-> done]

-----------------------------------------------------------------------------
(* Expressions.  A planned expression comes with the name of its column.   *)
Named(name, expr) == [name |-> name, expr |-> expr]

OccurrencesOf(schema, name) == {i \in DOMAIN schema : schema[i].name = name}

PlanColumnRef(e, children) ==
  LET idx == [c \in DOMAIN children |-> TryGetColIdx(children[c].schema, e.x)]
      Ref(c) == ColumnValueExpression(c - 1, idx[c] - 1, children[c].schema[idx[c]].type)
  IN CASE Len(children) = 0 -> Exception
       [] Len(children) = 1 ->
            IF Cardinality(OccurrencesOf(children[1].schema, e.x)) > 1 THEN Exception
            ELSE IF idx[1] = 0 THEN Unreachable ELSE Ref(1)
       [] Len(children) = 2 ->
            IF idx[1] # 0 /\ idx[2] # 0 THEN Exception
            ELSE IF idx[1] # 0 THEN Ref(1)
            ELSE IF idx[2] # 0 THEN Ref(2) ELSE Exception

ComparisonOf ==
  [o \in {"=", "==", "!=", "<>", "<", "<=", ">", ">="} |->
     CASE o \in {"=", "=="} -> "Equal" [] o \in {"!=", "<>"} -> "NotEqual"
       [] o = "<" -> "LessThan" [] o = "<=" -> "LessThanOrEqual"
       [] o = ">" -> "GreaterThan" [] o = ">=" -> "GreaterThanOrEqual"]

GetBinaryExpressionFromFactory(op_name, left, right) ==
  CASE op_name \in DOMAIN ComparisonOf -> ComparisonExpression(left, right, ComparisonOf[op_name])
    [] op_name = "+" -> ArithmeticExpression(left, right, "Plus")
    [] op_name = "-" -> ArithmeticExpression(left, right, "Minus")
    [] op_name = "and" -> LogicExpression(left, right, "And")
    [] op_name = "or" -> LogicExpression(left, right, "Or")
    [] OTHER -> Built(<<left, right>>, Exception)

(* The aggregation calls of an expression, from left to right: the order   *)
(* in which AddAggCallToContext moves them to ctx_.aggregations_, and in   *)
(* which PlanExpression takes the columns of ctx_.expr_in_agg_             *)
RECURSIVE AggCalls(_)
AggCalls(e) ==
  IF e.op = "AGG_CALL" THEN <<e>> ELSE FlattenSeq(Eager([i \in DOMAIN e.args |-> AggCalls(e.args[i])]))

(* Whether AddAggCallToContext knows every node it walks over *)
RECURSIVE AggCallsAddable(_)
AggCallsAddable(e) ==
  \/ e.op \in {"AGG_CALL", "COLUMN_REF", "CONSTANT"}
  \/ e.op \in {"BINARY_OP", "ALIAS"} /\ \A i \in DOMAIN e.args : AggCallsAddable(e.args[i])

(* aggs: the columns for the aggregation calls, next: the first of them    *)
(* that is not used yet (ctx_.next_aggregation_)                           *)
RECURSIVE PlanExpression(_, _, _, _)
PlanBinaryOp(e, children, aggs, next) ==
  GetBinaryExpressionFromFactory(e.x,
    PlanExpression(e.args[1], children, aggs, next).expr,
    PlanExpression(e.args[2], children, aggs, next + Len(AggCalls(e.args[1]))).expr)

PlanExpression(e, children, aggs, next) ==
  CASE e.op = "AGG_CALL" -> Named(UnnamedColumn, IF next > Len(aggs) THEN Exception ELSE aggs[next])
    [] e.op = "COLUMN_REF" -> Named(e.x, PlanColumnRef(e, children))
    [] e.op = "BINARY_OP" -> Named(UnnamedColumn, PlanBinaryOp(e, children, aggs, next))
    [] e.op = "CONSTANT" -> Named(UnnamedColumn, ConstantValueExpression(e.x))
    [] e.op = "ALIAS" -> Named(<<e.x>>, PlanExpression(e.args[1], children, aggs, next).expr)
    [] OTHER -> Named(UnnamedColumn, Exception)

Exprs(list) == [i \in DOMAIN list |-> list[i].expr]

(* A projection to a list of planned expressions *)
ProjectionOf(list, child) ==
  ProjectionPlanNode(RenameSchema(InferProjectionSchema(Exprs(list)), [i \in DOMAIN list |-> list[i].name]),
                     Exprs(list), child)

(* Outside an aggregation no call is allowed *)
PlanPlain(e, children) == PlanExpression(e, children, <<>>, 1)

-----------------------------------------------------------------------------
(* Aggregation *)
AggTypeOf == [f \in {"count_star", "count", "sum", "min", "max"} |->
                CASE f = "count_star" -> "CountStarAggregate" [] f = "count" -> "CountAggregate"
                  [] f = "sum" -> "SumAggregate" [] f = "min" -> "MinAggregate"
                  [] f = "max" -> "MaxAggregate"]

(* Whether GetAggCallFromFactory knows a function of so many arguments *)
GetAggCallFromFactory(func_name, args) ==
  IF func_name \in DOMAIN AggTypeOf /\ Len(args) = (IF func_name = "count_star" THEN 0 ELSE 1)
  THEN AggTypeOf[func_name] ELSE "unsupported"

(* The input of an aggregation call; count_star counts ones *)
PlanAggCall(call, child) ==
  LET args == Eager([i \in DOMAIN call.args |-> PlanPlain(call.args[i], <<child>>).expr])
  IN IF call.x[2] THEN Exception
     ELSE Built(args, IF GetAggCallFromFactory(call.x[1], args) = "unsupported" THEN Exception
                      ELSE IF args = <<>> THEN ConstantValueExpression(GetIntegerValue(1))
                      ELSE args[1])

(* What a first planning leaves in the tree for a call *)
PseudoCall(call) == [call EXCEPT !.x[1] = "__pseudo_agg", !.args = <<>>]

(* Mutant: the columns are counted by expressions and not by calls *)
CallsBeforeByItem(walked, i) == i - 1

(* How many of the calls the expressions walked before the i-th have used; *)
(* HAVING, if there is one, is walked first                                *)
CallsBefore(walked, i) == Len(FlattenSeq(Eager([j \in 1 .. i - 1 |-> AggCalls(walked[j])])))

HavingOf(s) == IF IsInvalid(s.having) THEN <<>> ELSE <<s.having>>
Walked(s) == HavingOf(s) \o s.select_list

(* The node, named by the groups and numbers *)
PlanAggregation(child, group, calls) ==
  LET inputs == Eager([i \in DOMAIN calls |-> PlanAggCall(calls[i], child)])
      types == [i \in DOMAIN calls |-> GetAggCallFromFactory(calls[i].x[1], calls[i].args)]
      names == [i \in DOMAIN group |-> group[i].name]
                 \o [i \in DOMAIN calls |-> <<NumberedName("agg#", i - 1)>>]
  IN AggregationPlanNode(RenameSchema(InferAggSchema(Exprs(group), inputs), names),
                         child, Exprs(group), inputs, types)

PlanHaving(s, plan, aggs) ==
  IF IsInvalid(s.having) THEN plan
  ELSE FilterPlanNode(plan.schema, PlanExpression(s.having, <<plan>>, aggs, 1).expr, plan)

(* The select list over the groups *)
PlanAggList(s, kept, aggs) ==
  ProjectionOf(Eager([i \in DOMAIN s.select_list |->
                 PlanExpression(s.select_list[i], <<kept>>, aggs,
                                1 + CallsBefore(Walked(s), Len(HavingOf(s)) + i))]), kept)

PlanOverGroups(s, plan, kept, aggs) == Built(<<plan, kept>>, PlanAggList(s, kept, aggs))

PlanGroups(s, plan, aggs) == PlanOverGroups(s, plan, PlanHaving(s, plan, aggs), aggs)

PlanAggOf(s, child, group, calls) ==
  LET aggs == Eager([i \in DOMAIN calls |-> ColumnValueExpression(0, Len(group) + i - 1, "INTEGER")])
  IN Built(<<child>> \o Exprs(group)
             \o Eager([i \in DOMAIN Walked(s) |->
                         IF AggCallsAddable(Walked(s)[i]) THEN Walked(s)[i] ELSE Exception]),
           PlanGroups(s, PlanAggregation(child, group, calls), aggs))

PlanSelectAgg(s, child, done) ==
  LET found == FlattenSeq(Eager([i \in DOMAIN Walked(s) |-> AggCalls(Walked(s)[i])]))
      calls == [i \in DOMAIN found |-> IF s.id \in done THEN PseudoCall(found[i]) ELSE found[i]]
  IN PlanAggOf(s, child, Eager([i \in DOMAIN s.group_by |-> PlanPlain(s.group_by[i], <<child>>)]),
               Eager(calls))

-----------------------------------------------------------------------------
(* Table references *)
PlanBaseTableRef(ref, ctx) ==
  IF ~HasTable(ctx.cat, ref.table) THEN Throw("assertion")
  ELSE IF ref.table \in MockTables THEN MockScanPlanNode(InferScanSchema(ref), ref.table)
  ELSE IF ref.table \in InternalTables THEN Exception
  ELSE SeqScanPlanNode(InferScanSchema(ref), ref.table)

PlanExpressionListRef(ref) ==
  LET rows == Eager([r \in DOMAIN ref.values |->
                 Eager([c \in DOMAIN ref.values[r] |-> PlanPlain(ref.values[r][c], <<>>).expr])])
  IN ValuesPlanNode(Eager([c \in DOMAIN rows[1] |->
                       Column(<<ref.identifier, ToString(c - 1)>>, rows[1][c].type)]), rows)

RECURSIVE PlanSelect(_, _)
PlanRenamed(plan, alias, names) ==
  ProjectionOf(Eager([i \in DOMAIN plan.schema |->
                 Named(<<alias>> \o names[i], ColumnValueExpression(0, i - 1, plan.schema[i].type))]), plan)

SubqueryOf(ref, alias, select) == Planned(PlanRenamed(select.p, alias, ref.select_list_name), select.done)

PlanSubquery(ref, alias, ctx) == SubqueryOf(ref, alias, PlanSelect(ref.subquery, ctx))

PlanCTERef(ref, ctx) ==
  LET cte == CTENamed(ctx.ctes, ref.cte_name)
  IN IF IsThrow(cte) THEN Planned(cte, ctx.done)
     ELSE IF ctx.depth = MaxCTEDepth THEN Planned(Throw("stack overflow"), ctx.done)
     ELSE PlanSubquery(cte, ref.alias, [ctx EXCEPT !.depth = @ + 1])

JoinOf(ref, left, right, join_type) ==
  LET condition == IF ref.op = "CROSS_PRODUCT"
                   THEN ConstantValueExpression(GetBooleanValue("CmpTrue"))
                   ELSE PlanPlain(ref.condition, <<left.p, right.p>>).expr
  IN Planned(NestedLoopJoinPlanNode(InferJoinSchema(left.p, right.p), left.p, right.p, condition, join_type),
             right.done)

(* The right side is planned after the left one *)
RECURSIVE PlanTableRef(_, _)
PlanRight(ref, left, ctx, join_type) ==
  JoinOf(ref, left, PlanTableRef(ref.right, [ctx EXCEPT !.done = left.done]), join_type)
PlanJoined(ref, ctx, join_type) == PlanRight(ref, PlanTableRef(ref.left, ctx), ctx, join_type)

PlanTableRef(ref, ctx) ==
  CASE ref.op = "BASE_TABLE" -> Planned(PlanBaseTableRef(ref, ctx), ctx.done)
    [] ref.op = "CROSS_PRODUCT" -> PlanJoined(ref, ctx, "INNER")
    [] ref.op = "JOIN" -> PlanJoined(ref, ctx, ref.join_type)
    [] ref.op = "EXPRESSION_LIST" -> Planned(PlanExpressionListRef(ref), ctx.done)
    [] ref.op = "SUBQUERY" -> PlanSubquery(ref, ref.alias, ctx)
    [] ref.op = "CTE" -> PlanCTERef(ref, ctx)
    [] ref.op = "EMPTY" -> Planned(ValuesPlanNode(<<>>, <<<<>>>>), ctx.done)

-----------------------------------------------------------------------------
(* SELECT *)
PlanNormalSelect(s, child) ==
  LET Item(i) == PlanPlain(s.select_list[i], <<child>>)
      Numbered(item, i) == IF item.name = UnnamedColumn
                           THEN Named(<<NumberedName("__unnamed#", Append(s.id, i))>>, item.expr) ELSE item
  IN ProjectionOf(Eager([i \in DOMAIN s.select_list |-> Numbered(Item(i), i)]), child)

PlanDistinct(s, child) ==
  IF ~s.is_distinct THEN child
  ELSE AggregationPlanNode(child.schema, child,
         Eager([i \in DOMAIN child.schema |-> ColumnValueExpression(0, i - 1, child.schema[i].type)]), <<>>, <<>>)

PlanOrderBy(s, child) ==
  IF s.sort = <<>> THEN child
  ELSE SortPlanNode(child.schema, child, Eager([i \in DOMAIN s.sort |-> PlanPlain(s.sort[i].expr, <<child>>).expr]),
                    [i \in DOMAIN s.sort |-> s.sort[i].type])

IsIntegerConstant(e) == e.op = "CONSTANT" /\ e.x.type = "INTEGER"

(* The size_t that the NULL, or a number below zero, becomes: more than any table has *)
HugeLimit == 2147483647
AsSize(val) == IF val.null \/ val.v < 0 THEN HugeLimit ELSE val.v

PlanLimit(s, child) ==
  IF IsInvalid(s.limit_count) /\ IsInvalid(s.limit_offset) THEN child
  ELSE IF ~IsInvalid(s.limit_offset) \/ ~IsIntegerConstant(s.limit_count) THEN Built(<<child>>, Exception)
  ELSE LimitPlanNode(child.schema, child, AsSize(s.limit_count.x))

HasAgg(s) ==
  \/ ~IsInvalid(s.having)
  \/ s.group_by # <<>>
  \/ \E i \in DOMAIN s.select_list : HasAggregation(s.select_list[i])

PlanWhere(s, child) ==
  IF IsInvalid(s.where) THEN child
  ELSE FilterPlanNode(child.schema, PlanPlain(s.where, <<child>>).expr, child)

PlanList(s, child, done) ==
  IF IsThrow(child) THEN child
  ELSE IF HasAgg(s) THEN PlanSelectAgg(s, child, done) ELSE PlanNormalSelect(s, child)

PlanRest(s, child) ==
  IF IsThrow(child) THEN child ELSE PlanLimit(s, PlanOrderBy(s, PlanDistinct(s, child)))

SelectOf(s, table) ==
  Planned(PlanRest(s, PlanList(s, PlanWhere(s, table.p), table.done)),
          IF HasAgg(s) THEN table.done \cup {s.id} ELSE table.done)

PlanSelect(s, ctx) ==
  SelectOf(s, PlanTableRef(s.table, [ctx EXCEPT !.ctes = IF s.ctes = <<>> THEN @ ELSE s.ctes]))

-----------------------------------------------------------------------------
(* The statements that change a table *)
RowsSchema == <<Column(<<"__bustub_internal", "rows">>, "INTEGER")>>

PlanInsert(st, select) ==
  Built(<<select>>, IF Types(select.schema) # Types(st.table.schema) THEN Exception
                    ELSE InsertPlanNode(RowsSchema, select, st.table.oid))

PlanDelete(st, table) ==
  Built(<<table>>,
        DeletePlanNode(RowsSchema,
          FilterPlanNode(table.schema, PlanPlain(st.expr, <<table>>).expr, table), st.table.oid))

(* A column set twice takes the last value.  A target that was bound to no *)
(* column is dereferenced here.                                            *)
PlanTargets(st, filter) ==
  LET exprs == Eager([i \in DOMAIN st.exprs |-> PlanPlain(st.exprs[i], <<filter>>).expr])
      cols == Eager([i \in DOMAIN st.cols |-> IF IsNull(st.cols[i]) THEN Throw("null column")
                                        ELSE PlanColumnRef(st.cols[i], <<filter>>)])
      For(c) == LET of == {i \in DOMAIN cols : GetColIdx(cols[i]) = c - 1}
                IN IF of = {} THEN ColumnValueExpression(0, c - 1, filter.schema[c].type)
                   ELSE exprs[CHOOSE i \in of : \A j \in of : j <= i]
  IN Built(FlattenSeq([i \in DOMAIN cols |-> <<exprs[i], cols[i]>>]),
       UpdatePlanNode(RowsSchema, filter, st.table.oid, Eager([c \in DOMAIN filter.schema |-> For(c)])))

PlanUpdate(st, table) ==
  LET filter == FilterPlanNode(table.schema, PlanPlain(st.filter_expr, <<table>>).expr, table)
  IN Built(<<table, filter>>, PlanTargets(st, filter))

PlanQuery(st, cat) ==
  LET ctx == [cat |-> cat, ctes |-> <<>>, done |-> {}, depth |-> 0]
  IN CASE st.op = "SELECT" -> PlanSelect(st, ctx).p
       [] st.op = "INSERT" -> PlanInsert(st, PlanSelect(st.select, ctx).p)
       [] st.op = "DELETE" -> PlanDelete(st, PlanTableRef(st.table, ctx).p)
       [] st.op = "UPDATE" -> PlanUpdate(st, PlanTableRef(st.table, ctx).p)
       [] OTHER -> Exception
=============================================================================
