--------------------------- MODULE TableIterator ---------------------------
(***************************************************************************)
(* A sequential scan (storage/table/table_iterator, TableHeap::Begin and   *)
(* End) beside the transactions that change the table.  The scan latches   *)
(* one page at a time and holds no latch between its steps.  It takes no   *)
(* row locks.                                                              *)
(*                                                                         *)
(* Begin reads a page's next_page_id after it has unlatched and unpinned   *)
(* the page.  The buffer pool, which is external, may by then have given   *)
(* the frame to another page; FrameReuse says whether that can happen.     *)
(***************************************************************************)
EXTENDS TransactionManager

CONSTANT FrameReuse
ASSUME FrameAssumption == FrameReuse \in BOOLEAN

VARIABLES phase,   \* where the scan is in its code
          pos,     \* the page and slot it is at; the slot may be NoSlot
          seen,    \* the rids it has returned, oldest first
          stable   \* history: rids readable ever since the scan started

scanVars == <<phase, pos, seen>>

ScanInit ==
  /\ phase = "idle" /\ pos = <<INVALID_PAGE_ID, NoSlot>>
  /\ seen = <<>> /\ stable = {}

Goto(ph, p, s) ==
  /\ phase' = ph /\ pos' = <<p, s>>
  /\ seen' = IF ph = "on" THEN Append(seen, <<p, s>>) ELSE seen

RLatch(p) == latch[p] = NoTxn

-----------------------------------------------------------------------------
(* Begin: the first page with a readable tuple *)
BeginCall == phase = "idle" /\ Goto("first", first_page_id, NoSlot)

BeginPage ==
  LET p == pos[1]
      s == NextReadable(heap[p], 0)
  IN /\ phase = "first" /\ RLatch(p)
     /\ Goto(IF s = NoSlot THEN "hop" ELSE "construct", p, s)

(* Mutant: page_id is not advanced *)
BeginHopStays ==
  /\ phase = "hop"
  /\ IF next[pos[1]] = INVALID_PAGE_ID THEN Goto("end", INVALID_PAGE_ID, NoSlot)
     ELSE Goto("first", pos[1], NoSlot)

(* The read of next_page_id without latch or pin *)
BeginHop ==
  /\ phase = "hop"
  /\ \E q \in IF FrameReuse THEN Pages ELSE {pos[1]} :
       IF next[q] = INVALID_PAGE_ID THEN Goto("end", INVALID_PAGE_ID, NoSlot)
       ELSE Goto("first", next[q], NoSlot)

(* The iterator's constructor reads the tuple, in a critical section of its own *)
Construct ==
  /\ phase = "construct" /\ RLatch(pos[1])
  /\ Goto(IF ReadableRid(pos) THEN "on" ELSE "thrown", pos[1], pos[2])

-----------------------------------------------------------------------------
(* operator++: the next tuple of this page, else the first of a later page. *)
(* The latch is held from finding the tuple until it is copied.             *)
FromSlot(from) ==
  LET p == pos[1]
      s == NextReadable(heap[p], from)
  IN /\ RLatch(p)
     /\ IF s # NoSlot THEN Goto("on", p, s)
        ELSE IF next[p] = INVALID_PAGE_ID THEN Goto("end", INVALID_PAGE_ID, NoSlot)
        ELSE Goto("cross", next[p], NoSlot)

(* Mutant: the search starts at the second slot of a page *)
CrossPageSkips == phase = "cross" /\ FromSlot(1)

Increment == phase = "on" /\ FromSlot(pos[2] + 1)

(* The old page is unlatched before the next one is latched *)
CrossPage == phase = "cross" /\ FromSlot(0)

Scan == BeginCall \/ BeginPage \/ BeginHop \/ Construct \/ Increment \/ CrossPage

ScanStep ==
  /\ ~failed /\ Scan
  /\ stable' = IF phase = "idle" THEN {rid \in Rids : ReadableRid(rid)} ELSE stable
  /\ UNCHANGED vars

StillReadable == stable' = {rid \in stable : Readable(heap'[rid[1]], rid[2])}

ScanNext == ScanStep \/ (Next /\ StillReadable /\ UNCHANGED scanVars)

(* The threads inside a call and the scan keep running *)
ScanSpec ==
  /\ Init /\ ScanInit /\ [][ScanNext]_<<vars, scanVars, stable>>
  /\ \A t \in Txns : WF_<<vars, scanVars, stable>>(Busy(t) /\ StillReadable /\ UNCHANGED scanVars)
  /\ WF_<<vars, scanVars, stable>>(ScanStep)

-----------------------------------------------------------------------------
(* The scan's position and results have their types. *)
ScanTypeOK ==
  /\ phase \in {"idle", "first", "hop", "construct", "on", "cross", "end", "thrown"}
  /\ phase \in {"first", "hop", "cross"} => pos[1] \in Pages
  /\ phase \in {"construct", "on", "thrown"} => pos \in Rids
  /\ Range(seen) \subseteq Rids /\ stable \subseteq Rids

Before(r, q) == r[1] < q[1] \/ (r[1] = q[1] /\ r[2] < q[2])

(* No row is returned twice, and rows come in table order, although inserts  *)
(* reuse slots behind the scan and deletes empty the slot it stands on.  A   *)
(* scan that reaches the end has returned every row that was readable all    *)
(* the while, and one that throws "read non-existing tuple" has lost the     *)
(* first row it found to a concurrent delete.  (With the types.)             *)
ScanComplete ==
  /\ ScanTypeOK
  /\ \A i \in 1 .. Len(seen) - 1 : Before(seen[i], seen[i + 1])
  /\ phase = "end" => stable \subseteq Range(seen)
  /\ phase = "thrown" => pos \notin stable /\ seen = <<>>

(* A scan ends, also while inserts lengthen the table under it. *)
ScanEnds == phase = "first" ~> phase \in {"end", "thrown"}
=============================================================================
