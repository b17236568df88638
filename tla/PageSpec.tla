------------------------------ MODULE PageSpec ------------------------------
(* The state machine of one slotted page, operated under its write latch.   *)
EXTENDS SlottedPage

CONSTANT MaxSlots      \* callers name slots 0 .. MaxSlots

VARIABLES page,
          ret          \* the last call: its name, slot, success and tuple

Result(op, s, ok, t) == [op |-> op, slot |-> s, ok |-> ok, tuple |-> t]

Init == page = EmptyPage /\ ret = Result("init", NoSlot, TRUE, NoTuple)

Running == ret.op # "assert"

Insert(t) ==
  LET ok == CanInsert(page, t)
  IN /\ page' = IF ok THEN InsertTuple(page, t) ELSE page
     /\ ret' = Result("insert", IF ok THEN InsertSlot(page) ELSE NoSlot, ok, t)

Mark(s) ==
  /\ page' = MarkDelete(page, s)
  /\ ret' = Result("mark", s, Readable(page, s), NoTuple)

(* An update hands the old tuple back, for the rollback *)
Update(s, t) ==
  LET ok == CanUpdate(page, s, t)
  IN /\ page' = UpdateTuple(page, s, t)
     /\ ret' = Result("update", s, ok, IF ok THEN page[s].tuple ELSE NoTuple)

Apply(s) ==
  LET ok == CanApplyDelete(page, s)
  IN /\ page' = IF ok THEN ApplyDelete(page, s) ELSE page
     /\ ret' = Result(IF ok THEN "apply" ELSE "assert", s, ok, NoTuple)

Rollback(s) ==
  LET ok == CanRollbackDelete(page, s)
  IN /\ page' = IF ok THEN RollbackDelete(page, s) ELSE page
     /\ ret' = Result(IF ok THEN "rollback" ELSE "assert", s, ok, NoTuple)

Get(s) ==
  LET ok == Readable(page, s)
  IN /\ ret' = Result("get", s, ok, IF ok THEN page[s].tuple ELSE NoTuple)
     /\ UNCHANGED page

Next ==
  /\ Running
  /\ \/ \E t \in Tuples : Insert(t)
     \/ \E s \in 0 .. MaxSlots :
          \/ Mark(s) \/ Apply(s) \/ Rollback(s) \/ Get(s)
          \/ \E t \in Tuples : Update(s, t)

Spec == Init /\ [][Next]_<<page, ret>>
=============================================================================
