----------------------------- MODULE MockTables -----------------------------
(***************************************************************************)
(* The mock tables (execution/mock_scan_executor.cpp): a schema, a size,   *)
(* whether it is shuffled, and the row for each cursor.  The text of a     *)
(* VARCHAR is the number that tells it apart from the others of its column. *)
(***************************************************************************)
EXTENDS QueryExpressions, Catalog

CONSTANT MaxMockRows      \* the rows of a mock table that are scanned

MockLeaderboard == {"__mock_t1_50k", "__mock_t2_100k", "__mock_t3_1k",
                    "__mock_t4_1m", "__mock_t5_1m", "__mock_t6_1m"}
MockAggInputs == {"__mock_agg_input_small", "__mock_agg_input_big"}

mock_table_list ==
  {"__mock_table_1", "__mock_table_2", "__mock_table_3", "__mock_table_tas_2022",
   "__mock_table_schedule_2022", "__mock_table_123", "__mock_graph", "__mock_t7", "__mock_t8"}
    \cup MockAggInputs \cup MockLeaderboard

IntegerColumns(names) == [i \in DOMAIN names |-> Column(names[i], "INTEGER")]

GetMockTableSchemaOf(table) ==
  CASE table = "__mock_table_1" -> IntegerColumns(<<"colA", "colB">>)
    [] table = "__mock_table_2" -> <<Column("colC", "VARCHAR"), Column("colD", "VARCHAR")>>
    [] table = "__mock_table_3" -> <<Column("colE", "INTEGER"), Column("colF", "VARCHAR")>>
    [] table = "__mock_table_tas_2022" -> <<Column("github_id", "VARCHAR"), Column("office_hour", "VARCHAR")>>
    [] table = "__mock_table_schedule_2022" ->
         <<Column("day_of_week", "VARCHAR"), Column("has_lecture", "INTEGER")>>
    [] table \in MockAggInputs ->
         IntegerColumns(<<"v1", "v2", "v3", "v4", "v5">>) \o <<Column("v6", "VARCHAR")>>
    [] table = "__mock_graph" ->
         <<Column("src", "INTEGER"), Column("dst", "INTEGER"), Column("src_label", "VARCHAR"),
           Column("dst_label", "VARCHAR"), Column("distance", "INTEGER")>>
    [] table = "__mock_table_123" -> IntegerColumns(<<"number">>)
    [] table \in MockLeaderboard -> IntegerColumns(<<"x", "y">>)
    [] table = "__mock_t7" -> IntegerColumns(<<"v", "v1", "v2">>)
    [] table = "__mock_t8" -> IntegerColumns(<<"v4">>)

GetSizeOf(table) ==
  CASE table \in {"__mock_table_1", "__mock_table_2", "__mock_table_3", "__mock_graph"} -> 100
    [] table = "__mock_table_tas_2022" -> 11
    [] table = "__mock_table_schedule_2022" -> 7
    [] table \in {"__mock_agg_input_small", "__mock_t3_1k"} -> 1000
    [] table = "__mock_agg_input_big" -> 10000
    [] table = "__mock_table_123" -> 3
    [] table = "__mock_t1_50k" -> 50000
    [] table = "__mock_t2_100k" -> 100000
    [] table \in {"__mock_t4_1m", "__mock_t5_1m", "__mock_t6_1m", "__mock_t7"} -> 1000000
    [] table = "__mock_t8" -> 10

GetShuffled(table) == table \in {"__mock_t1_50k", "__mock_t2_100k", "__mock_t3_1k"}

(* What GetFunctionOf(table) gives for a cursor *)
Ints(ns) == [i \in DOMAIN ns |-> GetIntegerValue(ns[i])]
Text(n) == Val("VARCHAR", n)
course_on_bool == <<0, 1, 0, 1, 0, 1, 1>>
ta_oh_2022 == <<1, 2, 3, 2, 4, 5, 2, 6, 1, 3, 1>>     \* the days, numbered as they first come up
Wrapped(cursor) == <<cursor % 500000, (cursor % 500000) * 10>>

GetFunctionOf(table, cursor) ==
  CASE table = "__mock_table_1" -> Ints(<<cursor, cursor * 100>>)
    [] table = "__mock_table_2" -> <<Text(cursor), Text(cursor % 8)>>
    [] table = "__mock_table_3" ->
         <<IF cursor % 2 = 0 THEN GetIntegerValue(cursor) ELSE NullOf("INTEGER"), Text(cursor)>>
    [] table = "__mock_table_tas_2022" -> <<Text(cursor), Text(ta_oh_2022[cursor + 1])>>
    [] table = "__mock_table_schedule_2022" -> <<Text(cursor), GetIntegerValue(course_on_bool[cursor + 1])>>
    [] table = "__mock_agg_input_small" ->
         Ints(<<(cursor + 2) % 10, cursor, (cursor + 50) % 100, cursor \div 100, 233>>) \o <<Text((cursor % 8) + 1)>>
    [] table = "__mock_agg_input_big" ->
         Ints(<<(cursor + 2) % 10, cursor, (cursor + 50) % 100, cursor \div 1000, 233>>) \o <<Text((cursor % 16) + 1)>>
    [] table = "__mock_table_123" -> Ints(<<cursor + 1>>)
    [] table = "__mock_graph" ->
         Ints(<<cursor % 10, cursor \div 10>>) \o <<Text(cursor % 10), Text(cursor \div 10)>>
           \o <<IF cursor % 10 = cursor \div 10 THEN NullOf("INTEGER") ELSE GetIntegerValue(1)>>
    [] table = "__mock_t1_50k" -> Ints(<<cursor * 10, cursor * 1000>>)
    [] table = "__mock_t2_100k" -> Ints(<<cursor, cursor * 100>>)
    [] table = "__mock_t3_1k" -> Ints(<<cursor * 100, cursor * 10000>>)
    [] table = "__mock_t4_1m" -> Ints(Wrapped(cursor))
    [] table = "__mock_t5_1m" -> Ints(Wrapped(cursor + 30000))
    [] table = "__mock_t6_1m" -> Ints(Wrapped(cursor + 60000))
    [] table = "__mock_t7" -> Ints(<<cursor % 20, cursor, cursor>>)
    [] table = "__mock_t8" -> Ints(<<cursor>>)

ScannedRows(table) == IF GetSizeOf(table) < MaxMockRows THEN GetSizeOf(table) ELSE MaxMockRows

(* The contents of a mock table, in the order of the cursor *)
MockRows(table) == [i \in 1 .. ScannedRows(table) |-> GetFunctionOf(table, i - 1)]
=============================================================================
