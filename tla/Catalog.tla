------------------------------ MODULE Catalog -------------------------------
(***************************************************************************)
(* The catalog (catalog/catalog.h) as a value: the four maps and the two   *)
(* counters.  A table or an index is made by several insertions, one after *)
(* the other, so that a reader that does not hold catalog_lock_ may see    *)
(* some of them only.                                                      *)
(*                                                                         *)
(* A schema is a sequence of columns; the name of a column is a sequence   *)
(* of identifiers, the pieces the code joins with dots.                    *)
(***************************************************************************)
EXTENDS Integers, Sequences, SequencesExt, TLC

Column(name, type) == [name |-> name, type |-> type]

EmptyCatalog ==
  [tables |-> <<>>, table_names |-> <<>>, index_names |-> <<>>, indexes |-> <<>>,
   next_table_oid |-> 0, next_index_oid |-> 0]

NullInfo == [op |-> "null"]

HasTable(cat, name) == name \in DOMAIN cat.table_names

(* Whether GetTable, and then GetTableIndexes, would pass its assertion *)
TableWhole(cat, name) == HasTable(cat, name) => cat.table_names[name] \in DOMAIN cat.tables
IndexesWhole(cat, name) ==
  HasTable(cat, name) =>
    /\ name \in DOMAIN cat.index_names
    /\ \A i \in DOMAIN cat.index_names[name] : cat.index_names[name][i] \in DOMAIN cat.indexes

GetTable(cat, name) ==
  IF ~HasTable(cat, name) THEN NullInfo
  ELSE IF ~TableWhole(cat, name) THEN [op |-> "Throw", kind |-> "assertion"]
  ELSE cat.tables[cat.table_names[name]]

(* Creating a table, once its name is known to be free: the insertions, in *)
(* their order.  Each is an emplace: an entry that is there already stays. *)
(* The schema is copied into the TableInfo.                                *)
TableInfo(cat, name, schema) ==
  [op |-> "table", name |-> name, schema |-> schema, oid |-> cat.next_table_oid]

(* Mutant: the name is known before the table is *)
CreateTableNameFirst(cat, step, name, schema) ==
  CASE step = 1 -> [cat EXCEPT !.table_names = @ @@ (name :> cat.next_table_oid)]
    [] step = 2 -> [cat EXCEPT !.tables = @ @@ (cat.next_table_oid :> TableInfo(cat, name, schema)),
                               !.next_table_oid = @ + 1]
    [] step = 3 -> [cat EXCEPT !.index_names = @ @@ (name :> <<>>)]

CreateTable(cat, step, name, schema) ==
  CASE step = 1 -> [cat EXCEPT !.tables = @ @@ (cat.next_table_oid :> TableInfo(cat, name, schema)),
                               !.next_table_oid = @ + 1]
    [] step = 2 -> [cat EXCEPT !.table_names = @ @@ (name :> cat.next_table_oid - 1)]
    [] step = 3 -> [cat EXCEPT !.index_names = @ @@ (name :> <<>>)]

CreateTableSteps == 3

HasIndex(cat, index_name, table_name) == index_name \in DOMAIN cat.index_names[table_name]

(* key_attrs are columns of the table, counted from 0 *)
IndexInfo(cat, index_name, table_name, key_schema, key_attrs) ==
  [op |-> "index", name |-> index_name, table |-> table_name, key_schema |-> key_schema,
   key_attrs |-> key_attrs, oid |-> cat.next_index_oid]

(* Filling the index from the heap is left to the heap's model *)
CreateIndex(cat, step, index_name, table_name, key_schema, key_attrs) ==
  CASE step = 1 -> [cat EXCEPT !.indexes = @ @@ (cat.next_index_oid :>
                                  IndexInfo(cat, index_name, table_name, key_schema, key_attrs)),
                               !.next_index_oid = @ + 1]
    [] step = 2 -> [cat EXCEPT !.index_names[table_name] =
                                  @ @@ (index_name :> cat.next_index_oid - 1)]

CreateIndexSteps == 2

(* In the order of the map's iteration, which is any *)
GetTableIndexes(cat, table_name) ==
  IF ~HasTable(cat, table_name) THEN {}
  ELSE {cat.indexes[cat.index_names[table_name][i]] : i \in DOMAIN cat.index_names[table_name]}

GetTableNames(cat) == DOMAIN cat.table_names

-----------------------------------------------------------------------------
(* Schema *)
TryGetColIdx(schema, name) ==
  IF \E i \in DOMAIN schema : schema[i].name = name
  THEN CHOOSE i \in DOMAIN schema : schema[i].name = name /\ \A j \in 1 .. i - 1 : schema[j].name # name
  ELSE 0

CopySchema(schema, attrs) == [i \in DOMAIN attrs |-> schema[attrs[i] + 1]]

Types(schema) == [i \in DOMAIN schema |-> schema[i].type]
=============================================================================
