-------------------------- MODULE MCBustubInstance --------------------------
(* Two calls, over the tables t(a, b) and u(a, c), the second with an index *)
(* on a, and some of the mock tables.                                       *)
EXTENDS BustubInstance

MCLowerCase == "colE" :> "cole" @@ "colF" :> "colf" @@ "COUNT" :> "count"

TwoInts(x, y) == <<Column(x, "INTEGER"), Column(y, "INTEGER")>>
Mocks == <<"__mock_table_3", "__mock_table_123", "__mock_t3_1k", "__mock_graph">>
MCMockTables == mock_table_list

WithTable(cat, name, schema) ==
  CreateTable(CreateTable(CreateTable(cat, 1, name, schema), 2, name, schema), 3, name, schema)
WithIndex(cat, name, table, attr) ==
  LET schema == CopySchema(GetTable(cat, table).schema, <<attr>>)
  IN CreateIndex(CreateIndex(cat, 1, name, table, schema, <<attr>>), 2, name, table, schema, <<attr>>)
WithMock(cat, name) == WithTable(cat, name, GetMockTableSchemaOf(name))
MCBaseCatalog ==
  WithIndex(WithTable(WithTable(FoldLeft(WithMock, EmptyCatalog, Mocks), "t", TwoInts("a", "b")),
                      "u", TwoInts("a", "c")), "ua", "u", 0)

Ns(x, y) == <<GetIntegerValue(x), GetIntegerValue(y)>>
MCStored == "t" :> <<Ns(2, 1), Ns(1, 2), <<NullOf("INTEGER"), GetIntegerValue(1)>>, Ns(1, 3)>>
            @@ "u" :> <<Ns(3, 1), Ns(1, 2), Ns(2, 4)>>

-----------------------------------------------------------------------------
(* Parse trees *)
N(tag, x, args) == [tag |-> tag, x |-> x, args |-> args]
Col(c) == N("ColumnRef", <<c>>, <<>>)
Of(q, c) == N("ColumnRef", <<q, c>>, <<>>)
Num(n) == N("AConst", GetIntegerValue(n), <<>>)
Star == N("AStar", "", <<>>)
Op(l, o, r) == N("AExpr", o, <<l, r>>)
Both(l, r) == N("BoolExpr", "and", <<l, r>>)
AnyOf(l, r) == N("BoolExpr", "or", <<l, r>>)
Fn(f, args) == N("FuncCall", <<f, FALSE>>, args)
As(e, name) == N("ResTarget", name, <<e>>)
Tbl(name) == [tag |-> "RangeVar", relname |-> name, alias |-> ""]
Tab(name, alias) == [tag |-> "RangeVar", relname |-> name, alias |-> alias]
JoinOn(type, l, r, cond) == [tag |-> "JoinExpr", jointype |-> type, larg |-> l, rarg |-> r, quals |-> cond]
Sub(q, alias) == [tag |-> "RangeSubselect", subquery |-> q, alias |-> alias]
By(dir, e) == [dir |-> dir, node |-> e]

Select(targets, from) ==
  [tag |-> "SelectStmt", values |-> <<>>, ctes |-> <<>>, from |-> from, distinct |-> FALSE,
   targets |-> [i \in DOMAIN targets |-> IF targets[i].tag = "ResTarget" THEN targets[i] ELSE As(targets[i], "")],
   where |-> <<>>, group |-> <<>>, having |-> <<>>, limit |-> <<>>, offset |-> <<>>, sort |-> <<>>]
Values(rows) == [Select(<<>>, <<>>) EXCEPT !.values = rows]
Where(q, e) == [q EXCEPT !.where = <<e>>]
GroupBy(q, es) == [q EXCEPT !.group = es]
Having(q, e) == [q EXCEPT !.having = <<e>>]
OrderBy(q, keys) == [q EXCEPT !.sort = keys]
Limit(q, n) == [q EXCEPT !.limit = <<Num(n)>>]
Distinct(q) == [q EXCEPT !.distinct = TRUE]
With(name, query, q) == [q EXCEPT !.ctes = <<[name |-> name, query |-> query]>>]
All(from) == Select(<<Star>>, from)

TandU == <<Tbl("t"), Tbl("u")>>
Matching == Op(Of("t", "a"), "=", Of("u", "a"))
PerB == GroupBy(Select(<<Col("b"), As(Fn("COUNT", <<>>), "n"), Fn("sum", <<Col("a")>>)>>, <<Tbl("t")>>), <<Col("b")>>)

Queries ==
  << All(<<Tbl("t")>>),
     Select(<<Num(1), Op(Num(1), "+", Num(2))>>, <<>>),
     Select(<<Col("b"), Col("a")>>, <<Tbl("t")>>),
     Select(<<Op(Col("a"), "-", Col("b"))>>, <<Tbl("t")>>),
     Select(<<Col("a")>>, TandU),
     Where(Select(<<Of("t", "b"), Col("c")>>, TandU), Matching),
     Where(All(TandU), Op(Of("u", "a"), "=", Of("t", "a"))),
     Where(All(TandU), Both(Matching, Op(Col("c"), ">", Num(1)))),
     Where(All(<<Tbl("t"), Tbl("u"), Tab("t", "w")>>), Both(Matching, Op(Col("c"), "=", Of("w", "b")))),
     Where(Select(<<Of("x", "a"), Of("y", "b")>>, <<Tab("t", "x"), Tab("t", "y")>>),
           Op(Of("x", "a"), "=", Of("y", "b"))),
     All(<<JoinOn("LEFT", Tbl("t"), Tbl("u"), Matching)>>),
     All(<<JoinOn("RIGHT", Tbl("t"), Tbl("u"), Matching)>>),
     All(<<JoinOn("OUTER", Tbl("u"), Tbl("t"), Op(Col("b"), "=", Col("c")))>>),
     Where(All(<<JoinOn("INNER", Tbl("t"), Tbl("u"), Matching)>>), Op(Col("b"), "<", Num(3))),
     Where(All(<<JoinOn("LEFT", Tbl("t"), Tbl("u"), Matching)>>), Op(Col("c"), ">=", Num(2))),
     Where(All(<<JoinOn("LEFT", Tbl("t"), Tbl("u"), Num(1))>>), Op(Col("c"), ">=", Num(2))),
     OrderBy(All(<<Tbl("u")>>), <<By("DEFAULT", Col("a"))>>),
     OrderBy(All(<<Tbl("u")>>), <<By("DESC", Col("a"))>>),
     OrderBy(All(<<Tbl("u")>>), <<By("ASC", Col("c"))>>),
     OrderBy(Select(<<Col("c"), Col("a")>>, <<Tbl("u")>>), <<By("ASC", Col("a"))>>),
     Limit(OrderBy(All(<<Tbl("t")>>), <<By("ASC", Col("a")), By("DESC", Col("b"))>>), 3),
     PerB,
     Having(PerB, Op(Fn("max", <<Col("a")>>), ">", Fn("count", <<Col("a")>>))),
     Having(Select(<<Op(Fn("sum", <<Col("a")>>), "+", Fn("min", <<Col("b")>>)), Fn("count", <<Col("a")>>)>>,
                   <<Tbl("t")>>), Op(Fn("max", <<Col("a")>>), ">", Num(1))),
     Select(<<Fn("max", <<Of("g", "n")>>)>>, <<Sub(PerB, "g")>>),
     Distinct(Select(<<Col("b")>>, <<Tbl("t")>>)),
     Where(Select(<<Of("s", "b")>>, <<Sub(Select(<<Col("b"), As(Col("a"), "k")>>, <<Tbl("t")>>), "s")>>),
           Op(Col("k"), "<>", Num(2))),
     Select(<<Of("s", "a")>>, <<Sub(Select(<<Of("t", "a"), Of("u", "a")>>, TandU), "s")>>),
     With("q", Select(<<Col("b"), Col("a")>>, <<Tbl("t")>>),
          Where(Select(<<Of("q", "a"), Col("c")>>, <<Tbl("q"), Tbl("u")>>), Op(Of("q", "a"), "=", Of("u", "a")))),
     With("t", Select(<<Col("c")>>, <<Tbl("u")>>), All(<<Tbl("t")>>)),
     All(<<Sub(Values(<<<<Num(1), Num(2)>>, <<Num(3), Num(4)>>>>), "v")>>),
     Where(Select(<<Col("cole"), Col("colf")>>, <<Tbl("__mock_table_3")>>),
           AnyOf(Op(Col("cole"), ">", Num(1)), Op(Num(1), "=", Num(2)))),
     Where(All(<<Tbl("__mock_graph")>>), Op(Col("distance"), "=", Col("src"))),
     Select(<<Col("y"), Col("x")>>, <<Tbl("__mock_t3_1k")>>),
     All(<<Tbl("__mock_table_123")>>),
     Limit(All(<<Tbl("__mock_table_123")>>), 2),
     [All(<<Tbl("t")>>) EXCEPT !.limit = <<N("AConst", NullOf("INTEGER"), <<>>)>>] >>

(* Every combination of a FROM, a WHERE, a select list and an ORDER BY of  *)
(* these; those whose names do not resolve are refused on the way          *)
Froms ==
  << <<Tbl("t")>>, <<Tbl("u")>>, TandU, <<Tbl("u"), Tbl("t")>>,
     <<JoinOn("INNER", Tbl("u"), Tbl("t"), Matching)>>,
     <<JoinOn("LEFT", Tbl("u"), Tbl("t"), Op(Of("u", "a"), "=", Of("t", "b")))>>,
     <<JoinOn("RIGHT", Tbl("t"), Tbl("u"), Op(Of("u", "a"), "<", Of("t", "a")))>>,
     <<Sub(Select(<<Col("b"), As(Op(Col("a"), "+", Num(1)), "a")>>, <<Tbl("t")>>), "t"), Tbl("u")>>,
     <<Tab("u", "t"), Sub(Where(All(<<Tbl("t")>>), Op(Col("b"), ">", Num(1))), "u")>> >>
Wheres ==
  << <<>>, <<Matching>>, <<Op(Of("u", "a"), "=", Of("t", "a"))>>, <<Op(Col("b"), "=", Col("c"))>>,
     <<AnyOf(Op(Of("t", "a"), "=", Num(1)), Op(Col("b"), "<", Num(2)))>>,
     <<Both(Op(Col("c"), ">", Num(1)), Matching)>> >>
Lists ==
  << <<Star>>, <<Of("t", "a"), Col("b")>>, <<Of("u", "a")>>, <<Col("c"), Of("t", "a")>>,
     <<As(Col("b"), "a"), As(Op(Of("t", "a"), "-", Num(1)), "b")>>,
     <<Fn("count", <<>>), Fn("max", <<Of("t", "a")>>)>> >>
Sorts == << <<>>, <<By("ASC", Of("u", "a"))>>, <<By("DESC", Of("t", "a")), By("ASC", Col("b"))>> >>

Combined(n) ==
  LET Pick(list, k) == list[((n \div k) % Len(list)) + 1]
      nf == Len(Froms)
      nw == nf * Len(Wheres)
      nl == nw * Len(Lists)
  IN [Select(Pick(Lists, nw), Pick(Froms, 1)) EXCEPT !.where = Pick(Wheres, nf), !.sort = Pick(Sorts, nl)]
Combinations == Len(Froms) * Len(Wheres) * Len(Lists) * Len(Sorts)

(* Statements the planner is not ready for *)
Unplanned ==
  << With("q", Select(<<Col("a")>>, <<Tbl("t")>>), Select(<<Of("x", "a")>>, <<Tab("q", "x")>>)),
     With("q", Select(<<Fn("count", <<>>)>>, <<Tbl("t")>>), All(<<Tab("q", "x"), Tab("q", "y")>>)),
     With("q", Select(<<Col("a")>>, <<Tbl("t")>>),
          All(<<Sub(With("p", All(<<Tbl("q")>>), All(<<Tbl("p")>>)), "s")>>)),
     OrderBy(Select(<<Col("b")>>, <<Tbl("t")>>), <<By("ASC", Col("a"))>>) >>

Update(targets, where) == [tag |-> "UpdateStmt", table |-> "t", where |-> where, targets |-> targets]
Create(name) ==
  [tag |-> "CreateStmt", table |-> name,
   cols |-> <<[name |-> "a", type |-> "int4", mods |-> <<>>, constrained |-> FALSE],
              [name |-> "d", type |-> "varchar", mods |-> <<8>>, constrained |-> FALSE]>>]
CreateNarrow(name) == [Create(name) EXCEPT !.cols = <<@[1]>>]
Index(name, table, col) == [tag |-> "IndexStmt", index |-> name, table |-> table, cols |-> <<col>>]
InsertInto(table, select) == [tag |-> "InsertStmt", table |-> table, cols |-> <<>>, select |-> select]
Explain(query) == [tag |-> "ExplainStmt", query |-> query, options |-> <<>>]
Meta(name) == [tag |-> "Meta", name |-> name]

Others ==
  << InsertInto("t", Values(<<<<Num(7), Num(8)>>>>)),
     InsertInto("t", Where(Select(<<Col("c"), Col("a")>>, <<Tbl("u")>>), Op(Col("a"), "<", Num(3)))),
     InsertInto("t", Select(<<Col("c")>>, <<Tbl("u")>>)),
     InsertInto("__mock_table_123", Values(<<<<Num(7)>>>>)),
     [tag |-> "DeleteStmt", table |-> "t", where |-> <<Op(Col("a"), "=", Num(1))>>],
     [tag |-> "DeleteStmt", table |-> "t", where |-> <<>>],
     Update(<<[name |-> "b", val |-> Op(Col("a"), "+", Num(1))], [name |-> "a", val |-> Col("b")]>>, <<>>),
     Update(<<[name |-> "b", val |-> Num(1)], [name |-> "b", val |-> Num(2)]>>, <<Op(Col("b"), ">", Num(1))>>),
     Explain(Where(Select(<<Col("c")>>, TandU), Matching)),
     Explain(Create("n")) >>

Alone(st) == <<<<st>>, <<>>>>
Variables ==
  <<[tag |-> "VariableSetStmt", name |-> "v", args |-> <<Num(1)>>], [tag |-> "VariableShowStmt", name |-> "v"]>>

Together ==
  << <<<<Create("n"), Select(<<Col("d")>>, <<Tbl("n")>>)>>, <<CreateNarrow("n")>>>>,
     <<<<CreateNarrow("n"), Create("m")>>, <<Where(All(<<Tbl("n"), Tbl("m")>>), Op(Of("n", "a"), "=", Of("m", "a")))>>>>,
     <<<<Index("uc", "u", "c")>>, <<Where(All(TandU), Op(Col("b"), "=", Col("c")))>>>>,
     <<<<Create("n"), Index("i", "n", "a")>>, <<OrderBy(All(<<Tbl("n")>>), <<By("ASC", Col("a"))>>)>>>>,
     <<<<Index("ta", "t", "a")>>, <<Where(All(<<Tbl("u"), Tbl("t")>>), Matching)>>>>,
     <<<<Index("ta", "t", "a")>>, <<Index("ta", "t", "b")>>>>,
     <<<<Create("n"), Index("i", "n", "d")>>, <<Meta("dt")>>>>,
     <<<<All(<<Tbl("__mock_table_123")>>)>>, <<Limit(All(<<Tbl("t")>>), 1), Create("n")>>>> >>

MCScripts ==
  [i \in DOMAIN Queries |-> Alone(Queries[i])] \o [i \in DOMAIN Others |-> Alone(Others[i])]
    \o [n \in 1 .. Combinations |-> Alone(Combined(n - 1))]
    \o <<<<Variables, <<Meta("di")>>>>>> \o Together
MCUnplannedScripts == [i \in DOMAIN Unplanned |-> Alone(Unplanned[i])]
=============================================================================
