----------------------------- MODULE TablePage -----------------------------
(***************************************************************************)
(* The slotted page (storage/page/table_page): a header, an array of       *)
(* (offset, size) slots growing up behind it, and the tuples packed at the *)
(* end of the page, growing down to the free space pointer.  Callers hold  *)
(* the page's write latch, so every operation is one step.                 *)
(*                                                                         *)
(* A byte of a tuple is named by the tuple and its position in it.  The    *)
(* bytes below the free space pointer hold no tuple and are left out of    *)
(* `data`.  The delete mask is the top bit of the stored size, a bit no    *)
(* size on a page reaches; it is kept as a field of its own.  The build is *)
(* the default one, with assertions: a failing one ends the process        *)
(* (ret.op = "assert").                                                    *)
(***************************************************************************)
EXTENDS Integers, FiniteSets

CONSTANTS Tuples, Size, NoTuple, PageSize,
          MaxSlots,   \* callers name slots 0 .. MaxSlots
          Word        \* 2^32: sizes and offsets are uint32_t

ASSUME TupleAssumption ==
  /\ Size \in [Tuples -> Nat \ {0}]
  /\ NoTuple \notin Tuples
ASSUME PageAssumption ==
  /\ PageSize \in Nat /\ MaxSlots \in Nat /\ Word \in Nat
  /\ 24 <= PageSize /\ PageSize < Word

VARIABLES free_space_pointer,
          tuple_count,
          slot,   \* slot number -> its offset, size and deleted flag
          data,   \* address -> byte, from free_space_pointer on
          ret     \* the last call: its name, slot, success and bytes read

vars == <<free_space_pointer, tuple_count, slot, data, ret>>

SIZE_TABLE_PAGE_HEADER == 24
SIZE_TUPLE == 8
NoSlot == -1

SlotEntry(o, sz, d) == [offset |-> o, size |-> sz, deleted |-> d]
Bytes(t) == [b \in 0 .. Size[t] - 1 |-> <<t, b>>]
NoBytes == [b \in {} |-> <<NoTuple, b>>]

Result(op, s, ok, bytes) == [op |-> op, slot |-> s, ok |-> ok, bytes |-> bytes]

Init ==
  /\ free_space_pointer = PageSize
  /\ tuple_count = 0
  /\ slot = [s \in {} |-> SlotEntry(0, 0, FALSE)]
  /\ data = [a \in {} |-> <<NoTuple, 0>>]
  /\ ret = Result("init", NoSlot, TRUE, NoBytes)

-----------------------------------------------------------------------------
GetFreeSpaceRemaining ==
  (free_space_pointer - SIZE_TABLE_PAGE_HEADER - SIZE_TUPLE * tuple_count) % Word

IsDeleted(s) == slot[s].deleted \/ slot[s].size = 0

Readable(s) == s < tuple_count /\ ~IsDeleted(s)

BytesAt(s) == [b \in 0 .. slot[s].size - 1 |-> data[slot[s].offset + b]]

(* Mutant: the tuples below are not moved *)
ReplacedNoMove(from, end, n, bytes) ==
  LET by == (end - from) - n
  IN [a \in free_space_pointer + by .. PageSize - 1 |->
        IF a >= from + by /\ a < end THEN bytes[a - (from + by)]
        ELSE data[IF a < free_space_pointer THEN a - by ELSE a]]

(* The page after the tuple in [from, end) is replaced by n bytes ending at  *)
(* `end`: the bytes below it are moved (memmove) by what it shrank or grew   *)
Replaced(from, end, n, bytes) ==
  LET by == (end - from) - n
  IN [a \in free_space_pointer + by .. PageSize - 1 |->
        IF a >= end THEN data[a]
        ELSE IF a >= from + by THEN bytes[a - (from + by)]
        ELSE data[a - by]]

(* Mutant: empty slots move too *)
ShiftedEmpty(s, below, by) ==
  IF s.offset < below THEN SlotEntry(s.offset + by, s.size, s.deleted) ELSE s

(* The slots whose tuple lies below an address move along with the bytes *)
Shifted(s, below, by) ==
  IF s.size > 0 /\ s.offset < below THEN SlotEntry(s.offset + by, s.size, s.deleted) ELSE s

(* Mutant: slots are never reused *)
FirstFreeAppends(s) == s = tuple_count

(* The first slot of size 0, or the first beyond the last *)
FirstFree(s) ==
  /\ s < tuple_count => slot[s].size = 0
  /\ \A r \in 0 .. s - 1 : slot[r].size # 0

InsertTuple(t) ==
  \/ /\ GetFreeSpaceRemaining < Size[t] + SIZE_TUPLE
     /\ ret' = Result("insert", NoSlot, FALSE, Bytes(t))
     /\ UNCHANGED <<free_space_pointer, tuple_count, slot, data>>
  \/ /\ GetFreeSpaceRemaining >= Size[t] + SIZE_TUPLE
     /\ \E s \in 0 .. tuple_count :
          /\ FirstFree(s)
          /\ free_space_pointer' = free_space_pointer - Size[t]
          /\ data' = [a \in free_space_pointer' .. PageSize - 1 |->
                        IF a < free_space_pointer THEN Bytes(t)[a - free_space_pointer']
                        ELSE data[a]]
          /\ tuple_count' = IF s = tuple_count THEN tuple_count + 1 ELSE tuple_count
          /\ slot' = [r \in 0 .. tuple_count' - 1 |->
                        IF r = s THEN SlotEntry(free_space_pointer', Size[t], FALSE) ELSE slot[r]]
          /\ ret' = Result("insert", s, TRUE, Bytes(t))

MarkDelete(s) ==
  /\ UNCHANGED <<free_space_pointer, tuple_count, data>>
  /\ \/ /\ ~Readable(s)
        /\ ret' = Result("mark", s, FALSE, NoBytes)
        /\ UNCHANGED slot
     \/ /\ Readable(s)
        /\ slot' = [slot EXCEPT ![s] = SlotEntry(slot[s].offset, slot[s].size, TRUE)]
        /\ ret' = Result("mark", s, TRUE, NoBytes)

CanUpdate(s, t) == Readable(s) /\ GetFreeSpaceRemaining + slot[s].size >= Size[t]

UpdateTuple(s, t) ==
  \/ /\ ~CanUpdate(s, t)
     /\ ret' = Result("update", s, FALSE, NoBytes)
     /\ UNCHANGED <<free_space_pointer, tuple_count, slot, data>>
  \/ /\ CanUpdate(s, t)
     /\ IF slot[s].offset < free_space_pointer
        THEN /\ ret' = Result("assert", s, FALSE, NoBytes)
             /\ UNCHANGED <<free_space_pointer, tuple_count, slot, data>>
        ELSE LET by == slot[s].size - Size[t]
                 end == slot[s].offset + slot[s].size
             IN /\ free_space_pointer' = free_space_pointer + by
                /\ data' = Replaced(slot[s].offset, end, Size[t], Bytes(t))
                /\ slot' = [r \in DOMAIN slot |->
                              Shifted(IF r = s THEN SlotEntry(slot[s].offset, Size[t], FALSE) ELSE slot[r],
                                      end, by)]
                /\ ret' = Result("update", s, TRUE, BytesAt(s))
                /\ UNCHANGED tuple_count

ApplyDelete(s) ==
  \/ /\ ~(s < tuple_count /\ slot[s].offset >= free_space_pointer)
     /\ ret' = Result("assert", s, FALSE, NoBytes)
     /\ UNCHANGED <<free_space_pointer, tuple_count, slot, data>>
  \/ /\ s < tuple_count /\ slot[s].offset >= free_space_pointer
     /\ free_space_pointer' = free_space_pointer + slot[s].size
     /\ data' = Replaced(slot[s].offset, slot[s].offset + slot[s].size, 0, NoBytes)
     /\ slot' = [r \in DOMAIN slot |->
                   IF r = s THEN SlotEntry(0, 0, FALSE)
                   ELSE Shifted(slot[r], slot[s].offset, slot[s].size)]
     /\ ret' = Result("apply", s, TRUE, NoBytes)
     /\ UNCHANGED tuple_count

RollbackDelete(s) ==
  /\ UNCHANGED <<free_space_pointer, tuple_count, data>>
  /\ \/ /\ s >= tuple_count
        /\ ret' = Result("assert", s, FALSE, NoBytes)
        /\ UNCHANGED slot
     \/ /\ s < tuple_count
        /\ slot' = [slot EXCEPT ![s] = SlotEntry(slot[s].offset, slot[s].size, FALSE)]
        /\ ret' = Result("rollback", s, TRUE, NoBytes)

GetTuple(s) ==
  /\ ret' = IF Readable(s)
            THEN Result("get", s, TRUE, BytesAt(s))
            ELSE Result("get", s, FALSE, NoBytes)
  /\ UNCHANGED <<free_space_pointer, tuple_count, slot, data>>

Next ==
  /\ ret.op # "assert"
  /\ \/ \E t \in Tuples : InsertTuple(t)
     \/ \E s \in 0 .. MaxSlots :
          \/ MarkDelete(s) \/ ApplyDelete(s) \/ RollbackDelete(s) \/ GetTuple(s)
          \/ \E t \in Tuples : UpdateTuple(s, t)

Spec == Init /\ [][Next]_vars

-----------------------------------------------------------------------------
(* The header fields and the slot array have their types and every byte     *)
(* from the free space pointer to the end of the page is a tuple's byte.    *)
TypeOK ==
  /\ free_space_pointer \in 0 .. PageSize
  /\ tuple_count \in Nat
  /\ slot \in [0 .. tuple_count - 1 -> [offset : 0 .. PageSize, size : 0 .. PageSize, deleted : BOOLEAN]]
  /\ DOMAIN data = free_space_pointer .. PageSize - 1

Live(s) == slot[s].size > 0

(* The layout the offset arithmetic maintains through any history of        *)
(* inserts into reused slots, resizing updates and deletes: the slot array  *)
(* never runs into the tuples (so the unsigned free space does not wrap),   *)
(* every tuple lies between the free space pointer and the end of the page, *)
(* no two overlap, and an empty slot is not marked.                         *)
LayoutSound ==
  /\ SIZE_TABLE_PAGE_HEADER + SIZE_TUPLE * tuple_count <= free_space_pointer
  /\ \A s \in 0 .. tuple_count - 1 :
       /\ Live(s) => /\ free_space_pointer <= slot[s].offset
                     /\ slot[s].offset + slot[s].size <= PageSize
       /\ ~Live(s) => slot[s].offset = 0 /\ ~slot[s].deleted
  /\ \A r, s \in 0 .. tuple_count - 1 :
       r # s /\ Live(r) /\ Live(s) => \/ slot[r].offset + slot[r].size <= slot[s].offset
                                      \/ slot[s].offset + slot[s].size <= slot[r].offset

(* An operation on one slot moves other tuples about but never changes what *)
(* is read from them: memmove and the offset updates agree.                 *)
OthersIntact ==
  [][\A s \in 0 .. tuple_count - 1 :
       Live(s) /\ s # ret'.slot => slot'[s].size = slot[s].size /\ BytesAt(s)' = BytesAt(s)]_vars

-----------------------------------------------------------------------------
(* What a reader of the bytes takes them for; Garbage if for no tuple *)
Garbage == <<"garbage", 0>>
Decode(bytes) ==
  IF bytes = NoBytes THEN NoTuple
  ELSE IF \E t \in Tuples : Bytes(t) = bytes THEN CHOOSE t \in Tuples : Bytes(t) = bytes
  ELSE Garbage

AbstractPage ==
  [s \in 0 .. tuple_count - 1 |->
     [tuple |-> Decode(BytesAt(s)), deleted |-> slot[s].deleted]]

AbstractRet ==
  [op |-> ret.op, slot |-> ret.slot, ok |-> ret.ok, tuple |-> Decode(ret.bytes)]

Abstract == INSTANCE PageSpec WITH page <- AbstractPage, ret <- AbstractRet

(* Read through its slots, the byte layout is a slotted page: same success  *)
(* of every call, same slot chosen, same tuples read, and the free space is *)
(* exactly what the tuples and slots leave over (no gap is ever leaked).    *)
ImplementsPage == Abstract!Spec
=============================================================================
