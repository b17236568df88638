------------------------------- MODULE Binder -------------------------------
(***************************************************************************)
(* The binder (binder/): from the parse tree of a statement and the        *)
(* catalog to a bound statement, in which every column is named by its     *)
(* full name.                                                              *)
(*                                                                         *)
(* A parse tree is what the Postgres parser makes of a statement.  A bound *)
(* expression has an op, what the node says of itself (x) and arguments.   *)
(* A result is a node, Null for a null pointer, or a Throw.                *)
(*                                                                         *)
(* env is the state of the binder: what the catalog answered when the name *)
(* of each table was looked up, cte_scope_ and scope_, and the place `at`  *)
(* of the statement's part being bound, from which the names that the code *)
(* numbers with universal_id_ are made: no two parts share a place, as no  *)
(* two draw the same number.                                               *)
(***************************************************************************)
EXTENDS QueryExpressions, Catalog

CONSTANTS LowerCase,        \* the identifiers Lower changes, with what it makes of them
          InternalTables    \* the table names that start with "__"

Lower(s) == IF s \in DOMAIN LowerCase THEN LowerCase[s] ELSE s

Null == [op |-> "nullptr"]
IsNull(e) == e.op = "nullptr"
NumberedName(kind, at) == kind \o ToString(at)

-----------------------------------------------------------------------------
(* Bound expressions *)
BoundExpr(op, x, args) == [op |-> op, x |-> x, args |-> args]
InvalidExpr == BoundExpr("INVALID", 0, <<>>)
IsInvalid(e) == e.op = "INVALID"
BoundColumnRef(names) == BoundExpr("COLUMN_REF", names, <<>>)
Prepend(ref, prefix) == IF ref.op = "COLUMN_REF" THEN BoundColumnRef(<<prefix>> \o ref.x) ELSE ref
BoundConstant(val) == BoundExpr("CONSTANT", val, <<>>)
BoundStar == BoundExpr("STAR", 0, <<>>)
BoundAlias(alias, child) == Built(<<child>>, BoundExpr("ALIAS", alias, <<child>>))
BoundBinaryOp(name, l, r) == Built(<<l, r>>, BoundExpr("BINARY_OP", name, <<l, r>>))
BoundUnaryOp(name, arg) == Built(<<arg>>, BoundExpr("UNARY_OP", name, <<arg>>))
BoundAggCall(func_name, is_distinct, args) ==
  Built(args, BoundExpr("AGG_CALL", <<func_name, is_distinct>>, args))

RECURSIVE HasAggregation(_)
HasAggregation(e) ==
  \/ e.op = "AGG_CALL"
  \/ e.op \in {"BINARY_OP", "UNARY_OP", "ALIAS"} /\ \E i \in DOMAIN e.args : HasAggregation(e.args[i])

(* Bound table references *)
EmptyTableRef == [op |-> "EMPTY"]
BoundBaseTableRef(table, oid, alias, schema) ==
  [op |-> "BASE_TABLE", table |-> table, oid |-> oid, schema |-> schema,
   bound |-> IF alias = "" THEN table ELSE alias]
BoundCrossProductRef(l, r) == Built(<<l, r>>, [op |-> "CROSS_PRODUCT", left |-> l, right |-> r])
BoundJoinRef(type, l, r, cond) ==
  Built(<<l, r, cond>>, [op |-> "JOIN", join_type |-> type, left |-> l, right |-> r, condition |-> cond])
BoundSubqueryRef(select, names, alias) ==
  Built(<<select>>, [op |-> "SUBQUERY", subquery |-> select, select_list_name |-> names, alias |-> alias])
BoundCTERef(cte_name, alias) == [op |-> "CTE", cte_name |-> cte_name, alias |-> alias]
BoundExpressionListRef(values, identifier) ==
  Built(FlattenSeq(values), [op |-> "EXPRESSION_LIST", values |-> values, identifier |-> identifier])

SelectStatement(id, table, list, where, group, having, limit, offset, sort, ctes, distinct) ==
  Built(ctes \o <<table>> \o list \o <<where>> \o group \o <<having, limit, offset>>
          \o [i \in DOMAIN sort |-> sort[i].expr],
        [op |-> "SELECT", id |-> id, table |-> table, select_list |-> list, where |-> where,
         group_by |-> group, having |-> having, limit_count |-> limit, limit_offset |-> offset,
         sort |-> sort, ctes |-> ctes, is_distinct |-> distinct])

-----------------------------------------------------------------------------
(* Resolving a column: the reference it stands for, Null when there is     *)
(* none, a Throw when there are two.                                       *)
OneOf(refs) == IF refs = <<>> THEN Null ELSE IF Len(refs) > 1 THEN Exception ELSE refs[1]

(* The first of two answers that is thrown; both, and the name is          *)
(* ambiguous; else the one there is                                        *)
EitherRef(first, second) ==
  Built(<<first, second>>,
        IF ~IsNull(first) /\ ~IsNull(second) THEN Exception
        ELSE IF ~IsNull(first) THEN first ELSE second)

ResolveColumnRefFromSchema(schema, col_name) ==
  IF Len(col_name) # 1 THEN Null
  ELSE LET Matches(col) == Lower(col.name) = col_name[1]
           found == SelectSeq(schema, Matches)
       IN OneOf(Eager([i \in DOMAIN found |-> BoundColumnRef(<<found[i].name>>)]))

ResolveColumnRefFromBaseTableRef(ref, col_name) ==
  EitherRef(Prepend(ResolveColumnRefFromSchema(ref.schema, col_name), ref.bound),
            IF Len(col_name) > 1 /\ col_name[1] = ref.bound
            THEN Prepend(ResolveColumnRefFromSchema(ref.schema, Tail(col_name)), ref.bound)
            ELSE Null)

MatchSuffix(suffix, full_name) ==
  IsSuffix(suffix, [i \in DOMAIN full_name |-> Lower(full_name[i])])

ResolveColumnRefFromSelectList(select_list, col_name) ==
  LET Matches(full_name) == MatchSuffix(col_name, full_name)
      found == SelectSeq(select_list, Matches)
  IN OneOf(Eager([i \in DOMAIN found |-> BoundColumnRef(found[i])]))

ResolveColumnRefFromSubqueryRef(ref, alias, col_name) ==
  EitherRef(Prepend(ResolveColumnRefFromSelectList(ref.select_list_name, col_name), ref.alias),
            IF Len(col_name) > 1 /\ col_name[1] = alias
            THEN Prepend(ResolveColumnRefFromSelectList(ref.select_list_name, Tail(col_name)), ref.alias)
            ELSE Null)

(* The common table expression of a name, the first in scope *)
CTENamed(ctes, name) ==
  LET Named(cte) == cte.alias = name
      found == SelectSeq(ctes, Named)
  IN IF found = <<>> THEN Unreachable ELSE found[1]

RECURSIVE ResolveColumnInternal(_, _, _)
ResolveColumnInternal(ref, ctes, col_name) ==
  CASE ref.op = "BASE_TABLE" -> ResolveColumnRefFromBaseTableRef(ref, col_name)
    [] ref.op \in {"CROSS_PRODUCT", "JOIN"} ->
         EitherRef(ResolveColumnInternal(ref.left, ctes, col_name),
                   ResolveColumnInternal(ref.right, ctes, col_name))
    [] ref.op = "SUBQUERY" -> ResolveColumnRefFromSubqueryRef(ref, ref.alias, col_name)
    [] ref.op = "CTE" ->
         LET cte == CTENamed(ctes, ref.cte_name)
         IN Built(<<cte>>, ResolveColumnRefFromSubqueryRef(cte, ref.alias, col_name))
    [] OTHER -> Exception

(* A VALUES list has no scope_ to look in *)
ResolveColumn(env, col_name) ==
  IF IsNull(env.scope) THEN Throw("null scope")
  ELSE LET expr == ResolveColumnInternal(env.scope, env.ctes, col_name)
       IN IF IsNull(expr) THEN Exception ELSE expr

RECURSIVE GetAllColumns(_, _)
GetAllColumns(ref, ctes) ==
  CASE ref.op = "BASE_TABLE" ->
         Eager([i \in DOMAIN ref.schema |-> BoundColumnRef(<<ref.bound, ref.schema[i].name>>)])
    [] ref.op \in {"CROSS_PRODUCT", "JOIN"} ->
         GetAllColumns(ref.left, ctes) \o GetAllColumns(ref.right, ctes)
    [] ref.op = "SUBQUERY" ->
         Eager([i \in DOMAIN ref.select_list_name |->
            Prepend(BoundColumnRef(ref.select_list_name[i]), ref.alias)])
    [] ref.op = "CTE" ->
         LET cte == CTENamed(ctes, ref.cte_name)
         IN IF IsThrow(cte) THEN <<cte>>
            ELSE LET columns == GetAllColumns(cte, ctes)
                 IN Eager([i \in DOMAIN columns |-> BoundColumnRef([columns[i].x EXCEPT ![1] = ref.alias])])
    [] OTHER -> <<Exception>>

-----------------------------------------------------------------------------
(* Expressions *)
BindConstant(node) == IF node.x.type \in {"INTEGER", "VARCHAR"} THEN BoundConstant(node.x) ELSE Exception

AggFunctions == {"min", "max", "first", "last", "sum", "count"}

RECURSIVE BindExpression(_, _)
RECURSIVE BindExpressionList(_, _)
BindExpressionList(list, env) ==
  Eager([i \in DOMAIN list |-> LET expr == BindExpression(list[i], env)
                         IN IF expr.op = "STAR" THEN Exception ELSE expr])

BindFuncCall(node, env) ==
  LET children == Eager([i \in DOMAIN node.args |-> BindExpression(node.args[i], env)])
      name == Lower(node.x[1])
  IN Built(children,
           IF name \notin AggFunctions THEN Exception
           ELSE BoundAggCall(IF name = "count" /\ children = <<>> THEN "count_star" ELSE name,
                             node.x[2], children))

BindAExpr(node, env) ==
  LET args == Eager([i \in DOMAIN node.args |-> BindExpression(node.args[i], env)])
  IN IF Len(args) = 2 THEN BoundBinaryOp(node.x, args[1], args[2]) ELSE BoundUnaryOp(node.x, args[1])

BindBoolExpr(node, env) ==
  LET exprs == BindExpressionList(node.args, env)
      Joined(l, r) == BoundBinaryOp(node.x, l, r)
  IN IF node.x = "not"
     THEN Built(exprs, IF Len(exprs) # 1 THEN Exception ELSE BoundUnaryOp("not", exprs[1]))
     ELSE Built(exprs, IF Len(exprs) <= 1 THEN Exception
                       ELSE FoldLeft(Joined, exprs[1], Tail(exprs)))

BindResTarget(node, env) ==
  LET expr == BindExpression(node.args[1], env)
  IN IF node.x = "" THEN expr ELSE BoundAlias(node.x, expr)

BindExpression(node, env) ==
  CASE node.tag = "ColumnRef" -> ResolveColumn(env, node.x)
    [] node.tag = "AStar" -> BoundStar
    [] node.tag = "AConst" -> BindConstant(node)
    [] node.tag = "ResTarget" -> BindResTarget(node, env)
    [] node.tag = "FuncCall" -> BindFuncCall(node, env)
    [] node.tag = "AExpr" -> BindAExpr(node, env)
    [] node.tag = "BoolExpr" -> BindBoolExpr(node, env)
    [] OTHER -> Exception

BindOptional(nodes, env) == IF nodes = <<>> THEN InvalidExpr ELSE BindExpression(nodes[1], env)

(* `select *` stands alone in its list *)
BindSelectList(list, env) ==
  LET exprs == Eager([i \in DOMAIN list |-> BindExpression(list[i], env)])
      IsStar(e) == e.op = "STAR"
  IN IF \E i \in DOMAIN exprs : IsThrow(exprs[i]) THEN exprs
     ELSE IF \A i \in DOMAIN exprs : ~IsStar(exprs[i]) THEN exprs
     ELSE IF Len(exprs) = 1 THEN GetAllColumns(env.scope, env.ctes) ELSE <<Exception>>

BindSort(list, env) ==
  Eager([i \in DOMAIN list |-> [type |-> list[i].dir, expr |-> BindExpression(list[i].node, env)]])

-----------------------------------------------------------------------------
(* Table references and SELECT *)
BindBaseTableRef(env, table, alias) ==
  LET info == env.found[table]
  IN Built(<<info>>, IF info.op = "null" THEN Exception
                     ELSE BoundBaseTableRef(table, info.oid, alias, info.schema))

BindRangeVar(node, env) ==
  IF \E i \in DOMAIN env.ctes : env.ctes[i].alias = node.relname
  THEN BoundCTERef(node.relname, IF node.alias = "" THEN node.relname ELSE node.alias)
  ELSE BindBaseTableRef(env, node.relname, node.alias)

(* A subquery with the names of its columns *)
SubqueryNamed(subquery, alias, at) ==
  LET Name(col, i) == CASE col.op = "COLUMN_REF" -> col.x
                        [] col.op = "ALIAS" -> <<col.x>>
                        [] OTHER -> <<NumberedName("__item#", Append(at, i))>>
      list == subquery.select_list
  IN Built(<<subquery>>, BoundSubqueryRef(subquery, Eager([i \in DOMAIN list |-> Name(list[i], i)]), alias))

RECURSIVE BindSelect(_, _)
BindSubquery(node, alias, env) == SubqueryNamed(BindSelect(node, env), alias, env.at)

(* The condition is bound in the scope of a join that has none yet *)
BindQuals(node, left, right, env) ==
  LET join == BoundJoinRef(node.jointype, left, right, Null)
  IN Built(<<join>>, BoundJoinRef(node.jointype, left, right,
                                  BindExpression(node.quals, [env EXCEPT !.scope = join])))

RECURSIVE BindTableRef(_, _)
BindJoin(node, env) ==
  IF node.jointype \notin {"INNER", "LEFT", "RIGHT", "OUTER"} THEN Exception
  ELSE BindQuals(node, BindTableRef(node.larg, [env EXCEPT !.at = Append(@, 1)]),
                 BindTableRef(node.rarg, [env EXCEPT !.at = Append(@, 2)]), env)

BindTableRef(node, env) ==
  CASE node.tag = "RangeVar" -> BindRangeVar(node, env)
    [] node.tag = "JoinExpr" -> BindJoin(node, env)
    [] node.tag = "RangeSubselect" ->
         BindSubquery(node.subquery,
                      IF node.alias = "" THEN NumberedName("__subquery#", env.at) ELSE node.alias, env)
    [] OTHER -> Exception

BindFrom(list, env) ==
  LET refs == Eager([i \in DOMAIN list |-> BindTableRef(list[i], [env EXCEPT !.at = Append(@, i)])])
  IN IF list = <<>> THEN EmptyTableRef ELSE FoldLeft(BoundCrossProductRef, refs[1], Tail(refs))

(* Each is bound before cte_scope_ is set: it sees its parents, not its siblings *)
BindCTE(ctes, env) ==
  Eager([i \in DOMAIN ctes |-> BindSubquery(ctes[i].query, ctes[i].name, [env EXCEPT !.at = Append(@, -i)])])

BindValues(node, env) ==
  LET values == Eager([i \in DOMAIN node.values |-> BindExpressionList(node.values[i], env)])
      name == NumberedName("__values#", env.at)
      exprs == Eager([i \in DOMAIN values[1] |-> BoundColumnRef(<<name, ToString(i - 1)>>)])
  IN IF \E i \in DOMAIN values : Len(values[i]) # Len(values[1])
     THEN Built(FlattenSeq(values), Exception)
     ELSE SelectStatement(env.at, BoundExpressionListRef(values, name), exprs, InvalidExpr, <<>>,
                          InvalidExpr, InvalidExpr, InvalidExpr, <<>>, <<>>, FALSE)

(* The clauses, in the scope of the FROM *)
BindClauses(node, ctes, scoped) ==
  Built(Append(ctes, scoped.scope),
        IF node.targets = <<>> THEN Exception
        ELSE SelectStatement(scoped.at, scoped.scope, BindSelectList(node.targets, scoped),
               BindOptional(node.where, scoped), BindExpressionList(node.group, scoped),
               BindOptional(node.having, scoped), BindOptional(node.limit, scoped),
               BindOptional(node.offset, scoped), BindSort(node.sort, scoped), ctes,
               node.distinct))

BindFromAndClauses(node, ctes, inner) ==
  BindClauses(node, ctes, [inner EXCEPT !.scope = BindFrom(node.from, inner)])

BindWithCTEs(node, ctes, env) ==
  BindFromAndClauses(node, ctes, [env EXCEPT !.ctes = IF ctes = <<>> THEN @ ELSE ctes])

BindSelect(node, env) ==
  LET fresh == [env EXCEPT !.scope = Null]
  IN IF node.values # <<>> THEN BindValues(node, fresh)
     ELSE BindWithCTEs(node, BindCTE(node.ctes, fresh), fresh)

-----------------------------------------------------------------------------
(* The other statements *)
BindColumnDefinition(col) ==
  CASE col.type = "int4" -> [op |-> "Column", name |-> col.name, type |-> "INTEGER"]
    [] col.type = "varchar" -> IF Len(col.mods) # 1 THEN Exception
                               ELSE [op |-> "Column", name |-> col.name, type |-> "VARCHAR"]
    [] OTHER -> Exception

BindCreate(node) ==
  LET columns == Eager([i \in DOMAIN node.cols |-> IF node.cols[i].constrained
                                             THEN Built(<<BindColumnDefinition(node.cols[i])>>, Exception)
                                             ELSE BindColumnDefinition(node.cols[i])])
  IN Built(columns, IF columns = <<>> THEN Exception
                    ELSE [op |-> "CREATE", table |-> node.table,
                          columns |-> Eager([i \in DOMAIN columns |-> Column(columns[i].name, columns[i].type)])])

BindIndex(node, env) ==
  LET table == BindBaseTableRef(env, node.table, "")
      cols == Eager([i \in DOMAIN node.cols |->
                 IF node.cols[i] = "" THEN Exception
                 ELSE ResolveColumn([env EXCEPT !.scope = table], <<node.cols[i]>>)])
  IN Built(<<table>> \o cols, [op |-> "INDEX", index |-> node.index, table |-> table, cols |-> cols])

InsertStatement(table, select) == Built(<<select>>, [op |-> "INSERT", table |-> table, select |-> select])

BindInsert(node, env) ==
  LET table == BindBaseTableRef(env, node.table, "")
  IN IF node.cols # <<>> THEN Exception
     ELSE Built(<<table>>, IF table.table \in InternalTables THEN Exception
                           ELSE InsertStatement(table, BindSelect(node.select, env)))

BindCondition(where, env) ==
  IF where = <<>> THEN BoundConstant(GetBooleanValue("CmpTrue")) ELSE BindExpression(where[1], env)

BindDelete(node, env) ==
  LET table == BindBaseTableRef(env, node.table, "")
      expr == BindCondition(node.where, [env EXCEPT !.scope = table])
  IN Built(<<table, expr>>, [op |-> "DELETE", table |-> table, expr |-> expr])

(* A target that is no column of the table is a null reference, which the planner is left with *)
BindUpdate(node, env) ==
  LET table == BindBaseTableRef(env, node.table, "")
      scoped == [env EXCEPT !.scope = table]
      filter == BindCondition(node.where, scoped)
      cols == Eager([i \in DOMAIN node.targets |->
                 ResolveColumnRefFromBaseTableRef(table, <<node.targets[i].name>>)])
      exprs == Eager([i \in DOMAIN node.targets |-> BindExpression(node.targets[i].val, scoped)])
  IN Built(<<table>>, Built(<<filter>> \o FlattenSeq([i \in DOMAIN cols |-> <<cols[i], exprs[i]>>]),
                            [op |-> "UPDATE", table |-> table, filter_expr |-> filter,
                             cols |-> cols, exprs |-> exprs]))

BindVariableSet(node, env) ==
  LET expr == BindExpressionList(node.args, env)
  IN Built(expr, IF Len(expr) # 1 \/ expr[1].op # "CONSTANT" THEN Exception
                 ELSE [op |-> "VARIABLE_SET", variable |-> node.name, value |-> expr[1].x])

ExplainOptions == {"planner", "optimizer", "binder", "schema"}

(* Without options, all of them *)
ExplainStatement(statement, options) ==
  Built(<<statement>>,
        [op |-> "EXPLAIN", statement |-> statement,
         options |-> IF options = <<>> THEN ExplainOptions ELSE ToSet(options) \cap ExplainOptions])

RECURSIVE BindStatement(_, _)
BindExplain(node, env) == ExplainStatement(BindStatement(node.query, env), node.options)

BindStatement(node, env) ==
  CASE node.tag = "CreateStmt" -> BindCreate(node)
    [] node.tag = "InsertStmt" -> BindInsert(node, env)
    [] node.tag = "SelectStmt" -> BindSelect(node, env)
    [] node.tag = "ExplainStmt" -> BindExplain(node, env)
    [] node.tag = "DeleteStmt" -> BindDelete(node, env)
    [] node.tag = "UpdateStmt" -> BindUpdate(node, env)
    [] node.tag = "IndexStmt" -> BindIndex(node, env)
    [] node.tag = "VariableSetStmt" -> BindVariableSet(node, env)
    [] node.tag = "VariableShowStmt" -> [op |-> "VARIABLE_SHOW", variable |-> node.name]
    [] OTHER -> Exception

BinderOver(found) == [found |-> found, ctes |-> <<>>, scope |-> Null, at |-> <<>>]

(* The names of tables in a statement, in the order the binder comes to    *)
(* them.  (A name that a CTE has is looked up in vain.)                    *)
RECURSIVE TableNames(_)
TableNames(node) ==
  LET Of(nodes) == FlattenSeq([i \in DOMAIN nodes |-> TableNames(nodes[i])])
  IN CASE node.tag = "RangeVar" -> <<node.relname>>
       [] node.tag = "JoinExpr" -> Of(<<node.larg, node.rarg>>)
       [] node.tag = "RangeSubselect" -> TableNames(node.subquery)
       [] node.tag = "SelectStmt" -> Of([i \in DOMAIN node.ctes |-> node.ctes[i].query] \o node.from)
       [] node.tag = "InsertStmt" -> <<node.table>> \o TableNames(node.select)
       [] node.tag \in {"DeleteStmt", "UpdateStmt", "IndexStmt"} -> <<node.table>>
       [] node.tag = "ExplainStmt" -> TableNames(node.query)
       [] OTHER -> <<>>
=============================================================================
