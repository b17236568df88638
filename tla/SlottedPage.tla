---------------------------- MODULE SlottedPage ----------------------------
(***************************************************************************)
(* What a table page promises the table heap: a row of slots, numbered     *)
(* from 0, each empty or holding a tuple that may be marked as deleted,    *)
(* and an amount of free space.  A page is the function from its slot      *)
(* numbers to their contents.  Where the tuples lie in the page is the     *)
(* business of TablePage, which implements these operators.                *)
(***************************************************************************)
EXTENDS Integers, Sequences, FiniteSets, FiniteSetsExt, Functions, TLC

CONSTANTS Tuples,      \* the tuples callers store
          Size,        \* tuple -> its size_ in bytes
          NoTuple,     \* the content of an empty slot
          PageSize     \* BUSTUB_PAGE_SIZE

ASSUME TupleAssumption ==
  /\ Size \in [Tuples -> Nat \ {0}]
  /\ NoTuple \notin Tuples
  /\ PageSize \in Nat /\ 24 <= PageSize

SIZE_TABLE_PAGE_HEADER == 24
SIZE_TUPLE == 8

Slot == [tuple : Tuples \cup {NoTuple}, deleted : BOOLEAN]

Empty == [tuple |-> NoTuple, deleted |-> FALSE]
Holding(t) == [tuple |-> t, deleted |-> FALSE]

EmptyPage == [s \in {} |-> Empty]

GetTupleCount(p) == Cardinality(DOMAIN p)

SizeAt(p, s) == IF p[s].tuple = NoTuple THEN 0 ELSE Size[p[s].tuple]

GetFreeSpaceRemaining(p) ==
  PageSize - SIZE_TABLE_PAGE_HEADER - SIZE_TUPLE * GetTupleCount(p)
    - MapThenSumSet(LAMBDA s : SizeAt(p, s), DOMAIN p)

(* A slot whose tuple can be read: it exists, is not empty and not marked *)
Readable(p, s) == s \in DOMAIN p /\ p[s].tuple # NoTuple /\ ~p[s].deleted

-----------------------------------------------------------------------------
CanInsert(p, t) == GetFreeSpaceRemaining(p) >= Size[t] + SIZE_TUPLE

(* The first empty slot, or a new one at the end *)
InsertSlot(p) ==
  LET free == {s \in DOMAIN p : p[s].tuple = NoTuple}
  IN IF free = {} THEN GetTupleCount(p) ELSE Min(free)

InsertTuple(p, t) ==
  [s \in DOMAIN p \cup {InsertSlot(p)} |-> IF s = InsertSlot(p) THEN Holding(t) ELSE p[s]]

MarkDelete(p, s) == IF Readable(p, s) THEN [p EXCEPT ![s].deleted = TRUE] ELSE p

CanUpdate(p, s, t) ==
  /\ Readable(p, s)
  /\ GetFreeSpaceRemaining(p) + SizeAt(p, s) >= Size[t]

UpdateTuple(p, s, t) == IF CanUpdate(p, s, t) THEN [p EXCEPT ![s].tuple = t] ELSE p

(* ApplyDelete and RollbackDelete assert that the slot exists; ApplyDelete   *)
(* also asserts that it lies above the free space, which an empty one does   *)
(* not.                                                                      *)
CanApplyDelete(p, s) == s \in DOMAIN p /\ p[s].tuple # NoTuple

ApplyDelete(p, s) == [p EXCEPT ![s] = Empty]

CanRollbackDelete(p, s) == s \in DOMAIN p

RollbackDelete(p, s) == [p EXCEPT ![s].deleted = FALSE]

(* The first readable slot from `from` on, or NoSlot: GetFirstTupleRid and   *)
(* GetNextTupleRid                                                           *)
NoSlot == -1

NextReadable(p, from) ==
  LET later == {s \in DOMAIN p : s >= from /\ Readable(p, s)}
  IN IF later = {} THEN NoSlot ELSE Min(later)
=============================================================================
