------------------------------- MODULE Tuples -------------------------------
(***************************************************************************)
(* Columns, schemas and tuples (catalog/column, catalog/schema,            *)
(* storage/table/tuple): how Values become the bytes of a tuple and are    *)
(* found in them again, in memory, in storage and in an index key.         *)
(*                                                                         *)
(* A byte knows what it is a part of: <<tag, x, k>> is byte k of the value *)
(* x of the type tag, of an offset, of a length or of a text.              *)
(***************************************************************************)
EXTENDS SqlValues

Seqs == INSTANCE SequencesExt

CONSTANTS Rows,        \* the rows that callers make tuples of: sequences of Values
          KeyAttrs     \* and the columns they take as keys

VARIABLES row,         \* the Values the tuple was made of
          schema,      \* its schema
          tuple,       \* [size, data]: size_ and data_
          storage      \* what SerializeTo wrote, or nothing

tupleVars == <<row, schema, tuple, storage>>

-----------------------------------------------------------------------------
TypeSize == [BOOLEAN |-> 1, TINYINT |-> 1, SMALLINT |-> 2, INTEGER |-> 4, BIGINT |-> 8,
             DECIMAL |-> 8, VARCHAR |-> 12]

Column(t) == [type |-> t, fixed_length |-> TypeSize[t], offset |-> 0]

IsInlined(col) == col.type # "VARCHAR"

FixedLength(columns) == Seqs!FoldLeft(LAMBDA n, col : n + col.fixed_length, 0, columns)

NewSchema(columns) ==
  [columns |-> [i \in DOMAIN columns |->
                  [columns[i] EXCEPT !.offset = FixedLength(SubSeq(columns, 1, i - 1))]],
   length |-> FixedLength(columns)]

CopySchema(from, attrs) == NewSchema([i \in DOMAIN attrs |-> from.columns[attrs[i]]])

-----------------------------------------------------------------------------
UINT32 == 4       \* sizeof(uint32_t)
NullLength == -1  \* BUSTUB_VALUE_NULL

Bytes(tag, x, n) == [k \in 1 .. n |-> <<tag, x, k>>]

(* The bytes become bytes of data; a write past its end would make it grow *)
Put(data, offset, bytes) ==
  LET n == Len(bytes)
  IN [k \in 1 .. (IF offset + n > Len(data) THEN offset + n ELSE Len(data)) |->
        IF k \in offset + 1 .. offset + n THEN bytes[k - offset] ELSE data[k]]

GetLength(val) == IF val.v = NullText THEN NullLength ELSE TextTable[val.v].len

(* SerializeTo and DeserializeFrom of the types; a reader of bytes that are  *)
(* not the ones of one value gets garbage                                    *)
Garbage == Value("garbage", 0)

Serialize(val) ==
  IF val.type # "VARCHAR" THEN Bytes(val.type, val.v, TypeSize[val.type])
  ELSE Bytes("length", GetLength(val), UINT32)
         \o (IF IsNullValue(val) THEN <<>> ELSE Bytes("text", val.v, GetLength(val)))

ReadsAs(data, offset, tag, n) ==
  /\ offset + n <= Len(data)
  /\ data[offset + 1][1] = tag
  /\ SubSeq(data, offset + 1, offset + n) = Bytes(tag, data[offset + 1][2], n)

Deserialize(t, data, offset) ==
  IF t # "VARCHAR"
  THEN IF ReadsAs(data, offset, t, TypeSize[t]) THEN Value(t, data[offset + 1][2]) ELSE Garbage
  ELSE IF ~ReadsAs(data, offset, "length", UINT32) THEN Garbage
  ELSE LET len == data[offset + 1][2]
       IN IF len = NullLength THEN Varchar(NullText)
          ELSE IF ReadsAs(data, offset + UINT32, "text", len)
          THEN Varchar(data[offset + UINT32 + 1][2]) ELSE Garbage

-----------------------------------------------------------------------------
(* What a VARCHAR takes behind the fixed part: a NULL its length only *)
StoredLength(val) == UINT32 + (IF IsNullValue(val) THEN 0 ELSE GetLength(val))

VarlenLength(sch, values) ==
  Seqs!FoldLeft(LAMBDA n, i : IF IsInlined(sch.columns[i]) THEN n ELSE n + StoredLength(values[i]),
                0, [i \in DOMAIN values |-> i])

(* The constructor writes column after column into zeroed memory *)
SerializeColumn(data, sch, values, i) ==
  LET col == sch.columns[i]
      offset == sch.length + VarlenLength(sch, SubSeq(values, 1, i - 1))
  IN IF IsInlined(col) THEN Put(data, col.offset, Serialize(values[i]))
     ELSE Put(Put(data, col.offset, Bytes("offset", offset, UINT32)), offset, Serialize(values[i]))

NewTuple(values, sch) ==
  LET size == sch.length + VarlenLength(sch, values)
  IN [size |-> size,
      data |-> Seqs!FoldLeft(LAMBDA data, i : SerializeColumn(data, sch, values, i),
                             Bytes("zero", 0, size), [i \in DOMAIN values |-> i])]

(* Mutant: the offset of a VARCHAR is not followed *)
GetDataPtrDirect(tup, sch, i) == sch.columns[i].offset

GetDataPtr(tup, sch, i) ==
  LET col == sch.columns[i]
  IN IF IsInlined(col) THEN col.offset ELSE tup.data[col.offset + 1][2]

GetValue(tup, sch, i) == Deserialize(sch.columns[i].type, tup.data, GetDataPtr(tup, sch, i))

KeyFromTuple(tup, sch, key_schema, key_attrs) ==
  NewTuple([i \in DOMAIN key_attrs |-> GetValue(tup, sch, key_attrs[i])], key_schema)

-----------------------------------------------------------------------------
NoTuple == [size |-> 0, data |-> <<>>]

TupleInit == row = <<>> /\ schema = NewSchema(<<>>) /\ tuple = NoTuple /\ storage = <<>>

(* A caller makes a tuple of Values of the types of its columns *)
MakeTuple(values) ==
  LET sch == NewSchema([i \in DOMAIN values |-> Column(values[i].type)])
  IN /\ row = <<>>
     /\ row' = values
     /\ schema' = sch
     /\ tuple' = NewTuple(values, sch)
     /\ UNCHANGED storage

SerializeTo ==
  /\ row # <<>> /\ storage = <<>>
  /\ storage' = Bytes("size", tuple.size, UINT32) \o SubSeq(tuple.data, 1, tuple.size)
  /\ UNCHANGED <<row, schema, tuple>>

DeserializeFrom ==
  /\ storage # <<>>
  /\ tuple' = [size |-> storage[1][2], data |-> SubSeq(storage, UINT32 + 1, UINT32 + storage[1][2])]
  /\ storage' = <<>>
  /\ UNCHANGED <<row, schema>>

(* The index executors take the key of the tuple, with the schema that the   *)
(* catalog made for the index                                                *)
TakeKey(attrs) ==
  /\ \A i \in DOMAIN attrs : attrs[i] \in DOMAIN row
  /\ storage = <<>>
  /\ row' = [i \in DOMAIN attrs |-> row[attrs[i]]]
  /\ schema' = CopySchema(schema, attrs)
  /\ tuple' = KeyFromTuple(tuple, schema, CopySchema(schema, attrs), attrs)
  /\ UNCHANGED storage

(* ~Tuple *)
Forget ==
  /\ row # <<>> /\ storage = <<>>
  /\ row' = <<>> /\ schema' = NewSchema(<<>>) /\ tuple' = NoTuple
  /\ UNCHANGED storage

TupleNext ==
  \/ \E values \in Rows : MakeTuple(values)
  \/ SerializeTo \/ DeserializeFrom \/ Forget
  \/ \E attrs \in KeyAttrs : TakeKey(attrs)

-----------------------------------------------------------------------------
(* A tuple gives back every Value it was made of, NULLs included, after it   *)
(* went through storage and when it is a key taken out of another tuple with *)
(* the schema copied for it.  The constructor wrote inside the size_ bytes   *)
(* it allocated and filled them up to the unused ends of the VARCHAR slots.  *)
TupleKeepsValues ==
  /\ \A i \in DOMAIN row : GetValue(tuple, schema, i) = row[i]
  /\ Len(tuple.data) = tuple.size
  /\ \A k \in 1 .. tuple.size :
       tuple.data[k][1] = "zero" =>
         \E i \in DOMAIN row : LET col == schema.columns[i]
                               IN ~IsInlined(col) /\ k \in col.offset + UINT32 + 1 .. col.offset + col.fixed_length
=============================================================================
