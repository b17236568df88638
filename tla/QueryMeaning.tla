---------------------------- MODULE QueryMeaning ----------------------------
(***************************************************************************)
(* What a statement means, told from its parse tree alone: the reference   *)
(* the binder, the planner and the optimizer are checked against.  Names   *)
(* are looked up in the FROM clause by qualifier and column, common table  *)
(* expressions are lexically scoped, aggregates are taken over groups of   *)
(* rows; there are no bound names, no column numbers and no plan.          *)
(*                                                                         *)
(* A relation has columns, each with the alias q it is qualified by and    *)
(* its name c, and rows.  ok says that every name in the statement denotes *)
(* exactly one thing.                                                      *)
(***************************************************************************)
EXTENDS QueryPlans

Relation(ok, cols, rows) == [ok |-> ok, cols |-> cols, rows |-> rows]
Undefined == Relation(FALSE, <<>>, <<>>)

Denoted(names, cols) ==
  {i \in DOMAIN cols : /\ Lower(cols[i].c) = names[Len(names)]
                       /\ Len(names) = 2 => cols[i].q = names[1]
                       /\ Len(names) <= 2}

(* Every column of an expression denotes exactly one of the columns *)
RECURSIVE Clear(_, _)
Clear(node, cols) ==
  IF node.tag = "ColumnRef" THEN Cardinality(Denoted(node.x, cols)) = 1
  ELSE \A i \in DOMAIN node.args : Clear(node.args[i], cols)

OperatorOf == [o \in {"=", "<>", "<", "<=", ">", ">=", "!=", "=="} |->
  CASE o \in {"=", "=="} -> "Equal" [] o \in {"<>", "!="} -> "NotEqual" [] o = "<" -> "LessThan"
    [] o = "<=" -> "LessThanOrEqual" [] o = ">" -> "GreaterThan" [] o = ">=" -> "GreaterThanOrEqual"]
FunctionOf == [f \in {"count", "sum", "min", "max"} |->
  CASE f = "count" -> "CountAggregate" [] f = "sum" -> "SumAggregate"
    [] f = "min" -> "MinAggregate" [] f = "max" -> "MaxAggregate"]

(* The value of an expression on a row, of aggregates on its group *)
RECURSIVE Value(_, _, _, _)
Value(node, cols, row, group) ==
  LET V(i) == Value(node.args[i], cols, row, group)
  IN CASE node.tag = "AConst" -> node.x
       [] node.tag = "ColumnRef" -> row[CHOOSE i \in Denoted(node.x, cols) : TRUE]
       [] node.tag = "ResTarget" -> V(1)
       [] node.tag = "AExpr" /\ node.x \in {"+", "-"} ->
            PerformArithmetic(IF node.x = "+" THEN "Plus" ELSE "Minus", V(1), V(2))
       [] node.tag = "AExpr" /\ node.x \notin {"+", "-"} ->
            GetBooleanValue(PerformComparison(OperatorOf[node.x], V(1), V(2)))
       [] node.tag = "BoolExpr" ->
            GetBooleanValue(PerformLogic(IF node.x = "and" THEN "And" ELSE "Or", V(1), V(2)))
       [] node.tag = "FuncCall" ->
            IF node.args = <<>> THEN GetIntegerValue(Len(group))
            ELSE Aggregate(FunctionOf[node.x[1]],
                           Eager([g \in DOMAIN group |-> Value(node.args[1], cols, group[g], <<>>)]))

RECURSIVE Aggregates(_)
Aggregates(node) == node.tag = "FuncCall" \/ \E i \in DOMAIN node.args : Aggregates(node.args[i])

Nulls(cols) == Eager([i \in DOMAIN cols |-> Column("", "INTEGER")])

-----------------------------------------------------------------------------
(* FROM.  env: the catalog, the tables' contents, and the relations of the *)
(* common table expressions in scope                                       *)
Renamed(rel, alias) == [rel EXCEPT !.cols = [i \in DOMAIN rel.cols |-> [q |-> alias, c |-> rel.cols[i].c]]]

TableNamed(node, env) ==
  LET alias == IF node.alias = "" THEN node.relname ELSE node.alias
      schema == GetTable(env.cat, node.relname).schema
      of == SelectSeq(env.ctes, LAMBDA cte : cte.name = node.relname)
  IN IF of # <<>> THEN Renamed(of[1].rel, alias)
     ELSE IF ~HasTable(env.cat, node.relname) THEN Undefined
     ELSE Relation(TRUE, [i \in DOMAIN schema |-> [q |-> alias, c |-> schema[i].name]], env.db[node.relname])

Join(left, right, type, quals) ==
  LET cols == left.cols \o right.cols
      at == [i \in DOMAIN left.rows, j \in DOMAIN right.rows |->
               \A k \in DOMAIN quals : IsTrue(Value(quals[k], cols, left.rows[i] \o right.rows[j], <<>>))]
  IN IF left.ok /\ right.ok /\ \A k \in DOMAIN quals : Clear(quals[k], cols)
     THEN Relation(TRUE, cols, JoinRows(left.rows, right.rows, at, type, Nulls(left.cols), Nulls(right.cols)))
     ELSE Undefined

RECURSIVE SelectMeaning(_, _)
RECURSIVE FromMeaning(_, _)
FromMeaning(node, env) ==
  CASE node.tag = "RangeVar" -> TableNamed(node, env)
    [] node.tag = "JoinExpr" -> Join(FromMeaning(node.larg, env), FromMeaning(node.rarg, env),
                                     node.jointype, <<node.quals>>)
    [] node.tag = "RangeSubselect" -> Renamed(SelectMeaning(node.subquery, env), node.alias)

From(list, env) ==
  LET Cross(l, r) == Join(l, r, "INNER", <<>>)
      items == Eager([i \in DOMAIN list |-> FromMeaning(list[i], env)])
  IN IF list = <<>> THEN Relation(TRUE, <<>>, <<<<>>>>) ELSE FoldLeft(Cross, items[1], Tail(items))

-----------------------------------------------------------------------------
(* SELECT *)
Targets(s, cols) ==
  IF Len(s.targets) = 1 /\ s.targets[1].args[1].tag = "AStar"
  THEN [i \in DOMAIN cols |-> [tag |-> "Nth", x |-> i, args |-> <<>>]] ELSE s.targets

OutputName(node, cols) ==
  IF node.tag = "Nth" THEN cols[node.x].c
  ELSE IF node.x # "" THEN node.x
  ELSE IF node.args[1].tag = "ColumnRef" THEN cols[CHOOSE i \in Denoted(node.args[1].x, cols) : TRUE].c
  ELSE ""

(* The rows the output is made of: each with the group it stands for *)
Kept(s, from) ==
  SelectSeq(from.rows, LAMBDA row : \A k \in DOMAIN s.where : IsTrue(Value(s.where[k], from.cols, row, <<>>)))

KeysOf(s, cols, kept) ==
  Eager([i \in DOMAIN kept |-> Eager([k \in DOMAIN s.group |-> Value(s.group[k], cols, kept[i], <<>>)])])

Grouped(s) == s.group # <<>> \/ s.having # <<>> \/ \E i \in DOMAIN s.targets : Aggregates(s.targets[i])

(* In SQL two NULLs are in one group *)
NotDistinct(xs, ys) == \A k \in DOMAIN xs : xs[k].null = ys[k].null /\ (~xs[k].null => xs[k].v = ys[k].v)

Groups(s, cols, kept) ==
  LET parts == IF s.group = <<>> THEN <<[i \in DOMAIN kept |-> i]>>
               ELSE GroupsBy(kept, KeysOf(s, cols, kept), NotDistinct)
  IN [g \in DOMAIN parts |-> [i \in DOMAIN parts[g] |-> kept[parts[g][i]]]]

HavingGroups(s, cols, groups) ==
  SelectSeq([g \in DOMAIN groups |-> [row |-> IF groups[g] = <<>> THEN <<>> ELSE groups[g][1],
                                       group |-> groups[g]]],
            LAMBDA x : \A k \in DOMAIN s.having : IsTrue(Value(s.having[k], cols, x.row, x.group)))

Sources(s, cols, kept) ==
  IF Grouped(s) THEN HavingGroups(s, cols, Groups(s, cols, kept))
  ELSE [i \in DOMAIN kept |-> [row |-> kept[i], group |-> <<>>]]

(* The output of each of them, and what it is sorted by *)
Outputs(targets, cols, sources) ==
  Eager([n \in DOMAIN sources |-> Eager([i \in DOMAIN targets |->
    IF targets[i].tag = "Nth" THEN sources[n].row[targets[i].x]
    ELSE Value(targets[i], cols, sources[n].row, sources[n].group)])])

SortKeys(s, cols, sources) ==
  Eager([n \in DOMAIN sources |-> Eager([k \in DOMAIN s.sort |->
    Value(s.sort[k].node, cols, sources[n].row, sources[n].group)])])

Unique(s, outs) ==
  SelectSeq([n \in DOMAIN outs |-> n], LAMBDA n : s.distinct => \A m \in 1 .. n - 1 : outs[m] # outs[n])

Sorted(s, rows, keys) ==
  IF s.sort = <<>> THEN rows ELSE SortRows(rows, keys, [k \in DOMAIN s.sort |-> s.sort[k].dir])

Limited(s, rows) ==
  IF s.limit = <<>> \/ s.limit[1].x.null \/ s.limit[1].x.v >= Len(rows) THEN rows ELSE SubSeq(rows, 1, s.limit[1].x.v)

UniqueRows(s, outs, keys, unique) ==
  Limited(s, Sorted(s, [n \in DOMAIN unique |-> outs[unique[n]]], [n \in DOMAIN unique |-> keys[unique[n]]]))

OutputRows(s, outs, keys) == UniqueRows(s, outs, keys, Unique(s, outs))

ResultRows(s, cols, sources) ==
  OutputRows(s, Outputs(Targets(s, cols), cols, sources), SortKeys(s, cols, sources))

QueryMeaning(s, from) ==
  LET targets == Targets(s, from.cols)
      parts == s.targets \o s.where \o s.group \o s.having \o [k \in DOMAIN s.sort |-> s.sort[k].node]
  IN IF ~from.ok \/ \E i \in DOMAIN parts : ~Clear(parts[i], from.cols) THEN Undefined
     ELSE Relation(TRUE, Eager([i \in DOMAIN targets |-> [q |-> "", c |-> OutputName(targets[i], from.cols)]]),
                   ResultRows(s, from.cols, Sources(s, from.cols, Kept(s, from))))

SelectMeaning(s, env) ==
  LET own == Eager([i \in DOMAIN s.ctes |-> [name |-> s.ctes[i].name, rel |-> SelectMeaning(s.ctes[i].query, env)]])
      inner == [env EXCEPT !.ctes = own \o @]
  IN IF s.values # <<>>
     THEN Relation(TRUE, [i \in DOMAIN s.values[1] |-> [q |-> "", c |-> ""]],
                   Eager([r \in DOMAIN s.values |-> Eager([c \in DOMAIN s.values[r] |-> Value(s.values[r][c], <<>>, <<>>, <<>>)])]))
     ELSE QueryMeaning(s, From(s.from, inner))

(* The rows a statement returns, inserts, deletes or leaves in place of    *)
(* those it updates                                                        *)
Meaning(st, cat, db) ==
  LET env == [cat |-> cat, db |-> db, ctes |-> <<>>]
      table == TableNamed([relname |-> st.table, alias |-> ""], env)
      kept == SelectSeq(table.rows, LAMBDA row : \A k \in DOMAIN st.where :
                                       IsTrue(Value(st.where[k], table.cols, row, <<>>)))
      Set(row) == Eager([c \in DOMAIN row |->
                     LET of == {i \in DOMAIN st.targets : st.targets[i].name = Lower(table.cols[c].c)}
                     IN IF of = {} THEN row[c]
                        ELSE Value(st.targets[CHOOSE i \in of : \A j \in of : j <= i].val, table.cols, row, <<>>)])
  IN CASE st.tag = "SelectStmt" -> SelectMeaning(st, env)
       [] st.tag = "InsertStmt" -> SelectMeaning(st.select, env)
       [] st.tag = "DeleteStmt" -> [table EXCEPT !.rows = kept]
       [] st.tag = "UpdateStmt" -> [table EXCEPT !.rows = Eager([n \in DOMAIN kept |-> Set(kept[n])])]

(* Rows up to the type a NULL carries *)
Plain(rows) == [r \in DOMAIN rows |-> [c \in DOMAIN rows[r] |-> <<rows[r][c].null, rows[r][c].v>>]]
=============================================================================
