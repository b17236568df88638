----------------------------- MODULE TableHeap -----------------------------
(***************************************************************************)
(* The table heap (storage/table/table_heap): a linked list of slotted     *)
(* pages on which transactions insert, mark, update and delete tuples.     *)
(* Every call but InsertTuple works on one page under its latch and is one *)
(* step.  InsertTuple walks the list with latch crabbing: it holds the     *)
(* write latch of one page between its steps and waits for the next one's. *)
(*                                                                         *)
(* The buffer pool is external: it finds every page that exists, and       *)
(* NewPage fails when MaxPages exist (and may fail before).  Logging is    *)
(* off, as in the build.  A failing assertion ends the process.            *)
(***************************************************************************)
EXTENDS SlottedPage

CONSTANTS Txns, NoTxn,
          MaxPages      \* pages the buffer pool can hand out

ASSUME HeapAssumption == NoTxn \notin Txns /\ MaxPages \in Nat \ {0}

VARIABLES heap,       \* page id -> its slotted page; pages are numbered as created
          next,       \* page id -> next_page_id
          latch,      \* page id -> the transaction inside InsertTuple holding its write latch
          inserting,  \* transaction -> the tuple its InsertTuple call carries
          state,      \* transaction -> TransactionState, or "NONE" before it began
          write_set,  \* transaction -> its table write records, oldest first
          failed      \* an assertion has failed

heapVars == <<heap, next, latch, inserting, state, write_set, failed>>

INVALID_PAGE_ID == -1
first_page_id == 0
Pages == DOMAIN heap
Rids == UNION {{p} \X DOMAIN heap[p] : p \in Pages}

Record(rid, wtype, tuple) == [rid |-> rid, wtype |-> wtype, tuple |-> tuple]

ReadableRid(rid) == Readable(heap[rid[1]], rid[2])

HeapInit ==
  /\ heap = [p \in {first_page_id} |-> EmptyPage]
  /\ next = [p \in {first_page_id} |-> INVALID_PAGE_ID]
  /\ latch = [p \in {first_page_id} |-> NoTxn]
  /\ inserting = [t \in Txns |-> NoTuple]
  /\ state = [t \in Txns |-> "NONE"]
  /\ write_set = [t \in Txns |-> <<>>]
  /\ failed = FALSE

-----------------------------------------------------------------------------
(* InsertTuple *)

(* Mutant: the slot is forgotten *)
TooLargeByHeader(tuple) == Size[tuple] + SIZE_TABLE_PAGE_HEADER > PageSize

TooLarge(tuple) == Size[tuple] + 32 > PageSize

InsertStart(t, tuple) ==
  /\ inserting[t] = NoTuple
  /\ IF TooLarge(tuple)
     THEN /\ state' = [state EXCEPT ![t] = "ABORTED"]
          /\ UNCHANGED inserting
     ELSE /\ inserting' = [inserting EXCEPT ![t] = tuple]
          /\ UNCHANGED state
  /\ UNCHANGED <<heap, next, latch, write_set, failed>>

InsertLatch(t) ==
  /\ t \notin Range(latch)
  /\ latch[first_page_id] = NoTxn
  /\ latch' = [latch EXCEPT ![first_page_id] = t]
  /\ UNCHANGED <<heap, next, inserting, state, write_set, failed>>

(* cur_page has room: insert, unlatch and remember the insert *)
InsertHere(t, p) ==
  /\ latch[p] = t
  /\ CanInsert(heap[p], inserting[t])
  /\ heap' = [heap EXCEPT ![p] = InsertTuple(heap[p], inserting[t])]
  /\ latch' = [latch EXCEPT ![p] = NoTxn]
  /\ write_set' = [write_set EXCEPT ![t] =
                     Append(@, Record(<<p, InsertSlot(heap[p])>>, "INSERT", NoTuple))]
  /\ inserting' = [inserting EXCEPT ![t] = NoTuple]
  /\ UNCHANGED <<next, state, failed>>

(* Mutant: cur_page is not advanced, and it is the next page that is unlatched *)
InsertMoveStays(t, p) ==
  /\ latch[p] = t
  /\ ~CanInsert(heap[p], inserting[t])
  /\ next[p] # INVALID_PAGE_ID
  /\ latch[next[p]] = NoTxn
  /\ latch' = [latch EXCEPT ![next[p]] = NoTxn]
  /\ UNCHANGED <<heap, next, inserting, state, write_set, failed>>

(* cur_page is full: latch the next page, then unlatch this one *)
InsertMove(t, p) ==
  /\ latch[p] = t
  /\ ~CanInsert(heap[p], inserting[t])
  /\ next[p] # INVALID_PAGE_ID
  /\ latch[next[p]] = NoTxn
  /\ latch' = [latch EXCEPT ![p] = NoTxn, ![next[p]] = t]
  /\ UNCHANGED <<heap, next, inserting, state, write_set, failed>>

NewPageId == Cardinality(Pages)

(* Mutant: the new page is not linked *)
InsertGrowUnlinked(t, p) ==
  /\ latch[p] = t
  /\ ~CanInsert(heap[p], inserting[t])
  /\ next[p] = INVALID_PAGE_ID
  /\ NewPageId < MaxPages
  /\ heap' = [q \in Pages \cup {NewPageId} |-> IF q \in Pages THEN heap[q] ELSE EmptyPage]
  /\ next' = [q \in Pages \cup {NewPageId} |-> IF q \in Pages THEN next[q] ELSE INVALID_PAGE_ID]
  /\ latch' = [q \in Pages \cup {NewPageId} |->
                 IF q = p THEN NoTxn ELSE IF q \in Pages THEN latch[q] ELSE t]
  /\ UNCHANGED <<inserting, state, write_set, failed>>

(* The last page is full and NewPage succeeds: link the new page and move to it *)
InsertGrow(t, p) ==
  /\ latch[p] = t
  /\ ~CanInsert(heap[p], inserting[t])
  /\ next[p] = INVALID_PAGE_ID
  /\ NewPageId < MaxPages
  /\ heap' = [q \in Pages \cup {NewPageId} |-> IF q \in Pages THEN heap[q] ELSE EmptyPage]
  /\ next' = [q \in Pages \cup {NewPageId} |->
                IF q = p THEN NewPageId ELSE IF q \in Pages THEN next[q] ELSE INVALID_PAGE_ID]
  /\ latch' = [q \in Pages \cup {NewPageId} |->
                 IF q = p THEN NoTxn ELSE IF q \in Pages THEN latch[q] ELSE t]
  /\ UNCHANGED <<inserting, state, write_set, failed>>

(* NewPage fails: unlatch and abort the transaction *)
InsertFail(t, p) ==
  /\ latch[p] = t
  /\ ~CanInsert(heap[p], inserting[t])
  /\ next[p] = INVALID_PAGE_ID
  /\ latch' = [latch EXCEPT ![p] = NoTxn]
  /\ inserting' = [inserting EXCEPT ![t] = NoTuple]
  /\ state' = [state EXCEPT ![t] = "ABORTED"]
  /\ UNCHANGED <<heap, next, write_set, failed>>

InsertStep(t) ==
  /\ inserting[t] # NoTuple
  /\ \/ InsertLatch(t)
     \/ \E p \in Pages : InsertHere(t, p) \/ InsertMove(t, p) \/ InsertGrow(t, p) \/ InsertFail(t, p)

-----------------------------------------------------------------------------
(* The other calls latch the page of their rid for the time they work on it *)
Change(rid, page) ==
  /\ latch[rid[1]] = NoTxn
  /\ heap' = [heap EXCEPT ![rid[1]] = page]
  /\ UNCHANGED <<next, latch, inserting>>

(* MarkDelete does not look at what the page answers *)
MarkDeleteAt(t, rid) ==
  /\ Change(rid, MarkDelete(heap[rid[1]], rid[2]))
  /\ write_set' = [write_set EXCEPT ![t] = Append(@, Record(rid, "DELETE", NoTuple))]
  /\ UNCHANGED <<state, failed>>

(* UpdateTuple remembers the old tuple unless it failed or is a rollback *)
Updated(t, rid, tuple) ==
  IF CanUpdate(heap[rid[1]], rid[2], tuple) /\ state[t] # "ABORTED"
  THEN Append(write_set[t], Record(rid, "UPDATE", heap[rid[1]][rid[2]].tuple))
  ELSE write_set[t]

UpdateTupleAt(t, rid, tuple) ==
  /\ Change(rid, UpdateTuple(heap[rid[1]], rid[2], tuple))
  /\ write_set' = [write_set EXCEPT ![t] = Updated(t, rid, tuple)]
  /\ UNCHANGED <<state, failed>>

(* ApplyDelete and RollbackDelete, called for the write records of a        *)
(* transaction that ends; they leave popping the record to their caller     *)
ApplyDeleteAt(rid) ==
  LET page == heap[rid[1]]
      ok == CanApplyDelete(page, rid[2])
  IN /\ Change(rid, IF ok THEN ApplyDelete(page, rid[2]) ELSE page)
     /\ failed' = ~ok

RollbackDeleteAt(rid) ==
  LET page == heap[rid[1]]
      ok == CanRollbackDelete(page, rid[2])
  IN /\ Change(rid, IF ok THEN RollbackDelete(page, rid[2]) ELSE page)
     /\ failed' = ~ok

-----------------------------------------------------------------------------
(* The pages, links, latches and write records have their types *)
HeapTypeOK ==
  /\ Pages = 0 .. NewPageId - 1 /\ NewPageId \in 1 .. MaxPages
  /\ \A p \in Pages : DOMAIN heap[p] = 0 .. GetTupleCount(heap[p]) - 1 /\ Range(heap[p]) \subseteq Slot
  /\ next \in [Pages -> Pages \cup {INVALID_PAGE_ID}]
  /\ latch \in [Pages -> Txns \cup {NoTxn}]
  /\ inserting \in [Txns -> Tuples \cup {NoTuple}]
  /\ state \in [Txns -> {"NONE", "GROWING", "COMMITTED", "ABORTED"}]
  /\ \A t \in Txns : \A i \in DOMAIN write_set[t] :
       /\ write_set[t][i].rid \in Rids
       /\ write_set[t][i].tuple \in IF write_set[t][i].wtype = "UPDATE" THEN Tuples ELSE {NoTuple}
  /\ failed \in BOOLEAN
=============================================================================
