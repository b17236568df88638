------------------------- MODULE TransactionManager -------------------------
(***************************************************************************)
(* Transactions on one table heap (concurrency/transaction_manager).       *)
(* Commit applies the deletes and Abort undoes all writes, one write       *)
(* record per step, while other transactions run.                          *)
(*                                                                         *)
(* The lock manager is a stub that grants everything, and the executors    *)
(* that would call the heap are stubs too, so the callers are external.    *)
(* They change only rows they can read, lock a row exclusively before they *)
(* change it and keep the lock to the end, and make no further change in a *)
(* transaction that a failed call has set to ABORTED.                      *)
(***************************************************************************)
EXTENDS TableHeap

CONSTANT MaxWrites    \* write records a caller leaves in one transaction

ASSUME CallerAssumption == MaxWrites \in Nat

VARIABLES pc,         \* transaction -> "none", "running", "committing", "aborting", "ended"
          readers,    \* transactions holding global_txn_latch_ in shared mode
          blocked,    \* global_txn_latch_ is held in exclusive mode
          txn_map,    \* the transactions in TransactionManager::txn_map
          locks,      \* transaction -> rids its caller has locked
          committed   \* history: rid -> its tuple as the commits so far left it

vars == <<heapVars, pc, readers, blocked, txn_map, locks, committed>>

Init ==
  /\ HeapInit
  /\ pc = [t \in Txns |-> "none"]
  /\ readers = {}
  /\ blocked = FALSE
  /\ txn_map = {}
  /\ locks = [t \in Txns |-> {}]
  /\ committed = [r \in {} |-> NoTuple]

Footprint(t) == {write_set[t][i].rid : i \in DOMAIN write_set[t]}
Visible(rid) == IF ReadableRid(rid) THEN heap[rid[1]][rid[2]].tuple ELSE NoTuple
Committed(rid) == IF rid \in DOMAIN committed THEN committed[rid] ELSE NoTuple

-----------------------------------------------------------------------------
Begin(t) ==
  /\ pc[t] = "none" /\ ~blocked
  /\ pc' = [pc EXCEPT ![t] = "running"]
  /\ readers' = readers \cup {t}
  /\ txn_map' = txn_map \cup {t}
  /\ state' = [state EXCEPT ![t] = "GROWING"]
  /\ UNCHANGED <<heap, next, latch, inserting, write_set, failed, blocked, locks, committed>>

(* A caller may start another change *)
MayWrite(t) ==
  /\ pc[t] = "running" /\ inserting[t] = NoTuple
  /\ state[t] = "GROWING" /\ Len(write_set[t]) < MaxWrites

MayLock(t, rid) == \A u \in Txns \ {t} : rid \notin locks[u]

Insert(t, tuple) ==
  /\ MayWrite(t)
  /\ InsertStart(t, tuple)
  /\ UNCHANGED <<pc, readers, blocked, txn_map, locks, committed>>

InsertRun(t) ==
  /\ InsertStep(t)
  /\ locks' = [locks EXCEPT ![t] = @ \cup {write_set'[t][i].rid : i \in DOMAIN write_set'[t]}]
  /\ UNCHANGED <<pc, readers, blocked, txn_map, committed>>

Targets == {rid \in Rids : ReadableRid(rid)}

Delete(t, rid) ==
  /\ MayWrite(t) /\ MayLock(t, rid)
  /\ MarkDeleteAt(t, rid)
  /\ locks' = [locks EXCEPT ![t] = @ \cup {rid}]
  /\ UNCHANGED <<pc, readers, blocked, txn_map, committed>>

Update(t, rid, tuple) ==
  /\ MayWrite(t) /\ MayLock(t, rid)
  /\ UpdateTupleAt(t, rid, tuple)
  /\ locks' = [locks EXCEPT ![t] = @ \cup {rid}]
  /\ UNCHANGED <<pc, readers, blocked, txn_map, committed>>

-----------------------------------------------------------------------------
(* Mutant: the global latch is released before the deletes are applied *)
CommitUnlocksEarly(t) ==
  /\ pc[t] = "running" /\ inserting[t] = NoTuple
  /\ pc' = [pc EXCEPT ![t] = "committing"]
  /\ state' = [state EXCEPT ![t] = "COMMITTED"]
  /\ committed' = [rid \in Rids |-> IF rid \in Footprint(t) THEN Visible(rid) ELSE Committed(rid)]
  /\ readers' = readers \ {t}
  /\ UNCHANGED <<heap, next, latch, inserting, write_set, failed, blocked, txn_map, locks>>

(* The history takes the rows as they are when the state is set *)
Commit(t) ==
  /\ pc[t] = "running" /\ inserting[t] = NoTuple
  /\ pc' = [pc EXCEPT ![t] = "committing"]
  /\ state' = [state EXCEPT ![t] = "COMMITTED"]
  /\ committed' = [rid \in Rids |-> IF rid \in Footprint(t) THEN Visible(rid) ELSE Committed(rid)]
  /\ UNCHANGED <<heap, next, latch, inserting, write_set, failed, readers, blocked, txn_map, locks>>

Abort(t) ==
  /\ pc[t] = "running" /\ inserting[t] = NoTuple
  /\ pc' = [pc EXCEPT ![t] = "aborting"]
  /\ state' = [state EXCEPT ![t] = "ABORTED"]
  /\ UNCHANGED <<heap, next, latch, inserting, write_set, failed, readers, blocked, txn_map, locks, committed>>

Front(s) == SubSeq(s, 1, Len(s) - 1)

CommitRecord(t) ==
  LET item == write_set[t][Len(write_set[t])]
  IN /\ pc[t] = "committing" /\ write_set[t] # <<>>
     /\ IF item.wtype = "DELETE" THEN ApplyDeleteAt(item.rid)
        ELSE UNCHANGED <<heap, next, latch, inserting, failed>>
     /\ write_set' = [write_set EXCEPT ![t] = Front(@)]
     /\ UNCHANGED <<state, pc, readers, blocked, txn_map, locks, committed>>

(* Mutants: the records are undone oldest first; deletes are applied *)
AbortForward(t) ==
  LET item == write_set[t][1]
  IN /\ pc[t] = "aborting" /\ write_set[t] # <<>>
     /\ \/ item.wtype = "DELETE" /\ RollbackDeleteAt(item.rid)
        \/ item.wtype = "INSERT" /\ ApplyDeleteAt(item.rid)
        \/ /\ item.wtype = "UPDATE"
           /\ Change(item.rid, UpdateTuple(heap[item.rid[1]], item.rid[2], item.tuple))
           /\ UNCHANGED failed
     /\ write_set' = [write_set EXCEPT ![t] = Tail(@)]
     /\ UNCHANGED <<state, pc, readers, blocked, txn_map, locks, committed>>
AbortApplies(t) ==
  LET item == write_set[t][Len(write_set[t])]
  IN /\ pc[t] = "aborting" /\ write_set[t] # <<>>
     /\ ApplyDeleteAt(item.rid)
     /\ write_set' = [write_set EXCEPT ![t] = Front(@)]
     /\ UNCHANGED <<state, pc, readers, blocked, txn_map, locks, committed>>

(* What the update of a rollback appends is popped in place of the record *)
AbortRecord(t) ==
  LET item == write_set[t][Len(write_set[t])]
  IN /\ pc[t] = "aborting" /\ write_set[t] # <<>>
     /\ \/ item.wtype = "DELETE" /\ RollbackDeleteAt(item.rid)
        \/ item.wtype = "INSERT" /\ ApplyDeleteAt(item.rid)
        \/ /\ item.wtype = "UPDATE"
           /\ Change(item.rid, UpdateTuple(heap[item.rid[1]], item.rid[2], item.tuple))
           /\ UNCHANGED failed
     /\ write_set' = [write_set EXCEPT ![t] =
                        Front(IF item.wtype = "UPDATE" THEN Updated(t, item.rid, item.tuple) ELSE @)]
     /\ UNCHANGED <<state, pc, readers, blocked, txn_map, locks, committed>>

(* The write set is empty: release the locks, then the global latch *)
Finish(t) ==
  /\ pc[t] \in {"committing", "aborting"} /\ write_set[t] = <<>>
  /\ pc' = [pc EXCEPT ![t] = "ended"]
  /\ locks' = [locks EXCEPT ![t] = {}]
  /\ readers' = readers \ {t}
  /\ UNCHANGED <<heapVars, blocked, txn_map, committed>>

BlockAllTransactions ==
  /\ readers = {} /\ ~blocked
  /\ blocked' = TRUE
  /\ UNCHANGED <<heapVars, pc, readers, txn_map, locks, committed>>

ResumeTransactions ==
  /\ blocked
  /\ blocked' = FALSE
  /\ UNCHANGED <<heapVars, pc, readers, txn_map, locks, committed>>

(* The steps of a thread inside InsertTuple, Commit or Abort *)
Busy(t) == ~failed /\ (InsertRun(t) \/ CommitRecord(t) \/ AbortRecord(t) \/ Finish(t))

Call(t) ==
  /\ ~failed
  /\ \/ Begin(t) \/ Commit(t) \/ Abort(t)
     \/ \E tuple \in Tuples : Insert(t, tuple)
     \/ \E rid \in Targets : Delete(t, rid) \/ \E tuple \in Tuples : Update(t, rid, tuple)

Next ==
  \/ \E t \in Txns : Call(t) \/ Busy(t)
  \/ ~failed /\ (BlockAllTransactions \/ ResumeTransactions)

(* A thread inside a call keeps running *)
Spec == Init /\ [][Next]_vars /\ \A t \in Txns : WF_vars(Busy(t))

-----------------------------------------------------------------------------
(* The heap and the transaction bookkeeping have their types. *)
TypeOK ==
  /\ HeapTypeOK
  /\ pc \in [Txns -> {"none", "running", "committing", "aborting", "ended"}]
  /\ readers \subseteq txn_map /\ txn_map \subseteq Txns
  /\ locks \in [Txns -> SUBSET Rids]
  /\ blocked \in BOOLEAN

(* The assertions in TablePage::ApplyDelete and RollbackDelete never fail:   *)
(* every record popped by Commit or Abort finds its slot in use, although    *)
(* deletes of other transactions move and free slots of the page in between. *)
AssertionsHold == ~failed

(* Atomicity.  A row no running transaction has a write record for holds     *)
(* what the last commit left in it, is not marked, and is empty if its       *)
(* insert was aborted: Commit and Abort, popping record after record from    *)
(* the back, leave exactly the old or exactly the new row, whatever the      *)
(* other transactions do to the page in between.                             *)
RowsCommitted ==
  \A rid \in Rids : rid \notin UNION {Footprint(t) : t \in Txns} =>
    heap[rid[1]][rid[2]] = [tuple |-> Committed(rid), deleted |-> FALSE]

(* BlockAllTransactions sees a quiescent table: while the global latch is    *)
(* held exclusively no insert is under way and every row is as committed.    *)
BlockedIsQuiescent ==
  blocked => /\ \A rid \in Rids :
                  heap[rid[1]][rid[2]] = [tuple |-> Committed(rid), deleted |-> FALSE]
             /\ \A t \in Txns : inserting[t] = NoTuple

(* Inserters that race for the end of the list never lose a page: the pages  *)
(* ever created form one list from the first page on.  (With the types.)     *)
HeapLinked ==
  /\ TypeOK
  /\ \A p \in Pages : next[p] = IF p + 1 \in Pages THEN p + 1 ELSE INVALID_PAGE_ID

(* The size test of InsertTuple agrees with the page's own: a tuple that is  *)
(* not turned away fits into a new page, so the loop adds one page at most.  *)
NewPageAccepts ==
  \A p \in Pages : latch[p] # NoTxn /\ heap[p] = EmptyPage => CanInsert(heap[p], inserting[latch[p]])

(* No two threads wait for each other's page latch, and popping the write    *)
(* records ends: a call of InsertTuple returns, also while others insert,    *)
(* commit and abort, and so do Commit and Abort, whose rollback of an update *)
(* is an UpdateTuple that may itself append a record.                        *)
WritersReturn ==
  \A t \in Txns : /\ inserting[t] # NoTuple ~> inserting[t] = NoTuple
                  /\ pc[t] \in {"committing", "aborting"} ~> pc[t] = "ended"
=============================================================================
