------------------------- MODULE TableIteratorProofs -------------------------
(***************************************************************************)
(* A sequential scan is complete, for every set of transactions and every  *)
(* page size.  The argument is that the scan's position splits the stable  *)
(* rows, those readable ever since Begin was called: the ones behind the   *)
(* position have been returned and the others are ahead of it.  Writers    *)
(* cannot move a row across the position, because pages and slots are      *)
(* only ever added and a stable row keeps its rid.                         *)
(***************************************************************************)
EXTENDS TableIterator, TransactionManagerProofs

(* Nothing is returned before the first row is read *)
NoneYet == phase \in {"idle", "first", "hop", "construct", "thrown"} => seen = <<>>

(* Before its first row the scan has every stable row at or ahead of it *)
Ahead ==
  /\ phase = "idle" => stable = {}
  /\ phase = "first" => \A r \in stable : r[1] >= pos[1]
  /\ phase = "hop" => \A r \in stable : r[1] > pos[1]
  /\ phase = "construct" => \A r \in stable : ~Before(r, pos)
  /\ phase = "thrown" => pos \notin stable

(* After its first row the stable rows behind the position were returned *)
Behind ==
  /\ phase = "on" => /\ seen # <<>> /\ seen[Len(seen)] = pos
                     /\ \A r \in stable : Before(r, pos) => r \in Range(seen)
  /\ phase = "cross" => /\ seen # <<>> /\ seen[Len(seen)][1] < pos[1]
                        /\ \A r \in stable : r[1] < pos[1] => r \in Range(seen)
  /\ phase = "end" => \A r \in stable : r \in Range(seen)

(* The rids of s come in table order, hence no rid comes twice *)
InOrder(s) == \A i \in 1 .. Len(s) - 1 : Before(s[i], s[i + 1])

(* The invariant of the scan; with IInv of the transactions it is inductive *)
SInv ==
  /\ ScanTypeOK /\ \A r \in stable : ReadableRid(r)
  /\ seen \in Seq(Rids) /\ InOrder(seen)
  /\ NoneYet /\ Ahead /\ Behind

-----------------------------------------------------------------------------
(* Heap g has every page and every slot of heap h *)
Grows(h, g) ==
  /\ DOMAIN h \subseteq DOMAIN g
  /\ \A p \in DOMAIN h : DOMAIN h[p] \subseteq DOMAIN g[p]

(* Replacing a page by one with at least its slots grows the heap *)
LEMMA PageGrows ==
  ASSUME NEW h, NEW p, NEW q, DOMAIN h[p] \subseteq DOMAIN q
  PROVE  Grows(h, [h EXCEPT ![p] = q])
BY Zenon DEF Grows

(* A page operation that keeps the slots grows the heap *)
LEMMA ChangeGrows ==
  ASSUME NEW rid, NEW q, Change(rid, q), DOMAIN q = DOMAIN heap[rid[1]]
  PROVE  Grows(heap, heap')
<1>1. heap' = [heap EXCEPT ![rid[1]] = q]
  BY Zenon DEF Change
<1> QED BY Zenon, <1>1, PageGrows

(* Deletes and updates keep the slots of a page *)
LEMMA SlotsStay ==
  ASSUME NEW p, NEW s, NEW t
  PROVE  /\ DOMAIN MarkDelete(p, s) = DOMAIN p /\ DOMAIN UpdateTuple(p, s, t) = DOMAIN p
         /\ DOMAIN ApplyDelete(p, s) = DOMAIN p /\ DOMAIN RollbackDelete(p, s) = DOMAIN p
BY Zenon DEF MarkDelete, UpdateTuple, ApplyDelete, RollbackDelete

(* ApplyDelete and RollbackDelete of a row remove no slot *)
LEMMA RemovalGrows ==
  ASSUME NEW rid, ApplyDeleteAt(rid) \/ RollbackDeleteAt(rid)
  PROVE  Grows(heap, heap')
<1>1. CASE ApplyDeleteAt(rid)
  <2> DEFINE q == IF CanApplyDelete(heap[rid[1]], rid[2]) THEN ApplyDelete(heap[rid[1]], rid[2]) ELSE heap[rid[1]]
  <2>1. Change(rid, q)
    BY Zenon, <1>1 DEF ApplyDeleteAt
  <2>2. DOMAIN q = DOMAIN heap[rid[1]]
    BY Zenon, SlotsStay
  <2> QED BY Zenon, <2>1, <2>2, ChangeGrows
<1>2. CASE RollbackDeleteAt(rid)
  <2> DEFINE q == IF CanRollbackDelete(heap[rid[1]], rid[2]) THEN RollbackDelete(heap[rid[1]], rid[2]) ELSE heap[rid[1]]
  <2>1. Change(rid, q)
    BY Zenon, <1>2 DEF RollbackDeleteAt
  <2>2. DOMAIN q = DOMAIN heap[rid[1]]
    BY Zenon, SlotsStay
  <2> QED BY Zenon, <2>1, <2>2, ChangeGrows
<1> QED BY Zenon, <1>1, <1>2

(* InsertTuple on a page removes no slot *)
LEMMA InsertGrows ==
  ASSUME NEW t \in Txns, InsertStep(t)
  PROVE  Grows(heap, heap')
<1>1. CASE heap' = heap
  BY Zenon, <1>1 DEF Grows
<1>2. ASSUME NEW p \in Pages, InsertHere(t, p) PROVE Grows(heap, heap')
  <2> DEFINE q == InsertTuple(heap[p], inserting[t])
  <2>1. heap' = [heap EXCEPT ![p] = q]
    BY Zenon, <1>2 DEF InsertHere
  <2>2. DOMAIN heap[p] \subseteq DOMAIN q
    BY Zenon DEF InsertTuple
  <2> HIDE DEF q
  <2> QED BY Zenon, <2>1, <2>2, PageGrows
<1>3. ASSUME NEW p \in Pages, InsertGrow(t, p) PROVE Grows(heap, heap')
  BY Zenon, <1>3 DEF InsertGrow, Grows, Pages
<1> QED BY Zenon, <1>1, <1>2, <1>3 DEF InsertStep, InsertLatch, InsertMove, InsertFail

(* No step of a transaction removes a page or a slot *)
LEMMA HeapGrows ==
  ASSUME Next
  PROVE  Grows(heap, heap')
<1>1. CASE heap' = heap
  BY Zenon, <1>1 DEF Grows
<1>2. ASSUME NEW t \in Txns, Call(t) PROVE Grows(heap, heap')
  <2>1. ASSUME NEW rid, Delete(t, rid) PROVE Grows(heap, heap')
    BY Zenon, <2>1, SlotsStay, ChangeGrows DEF Delete, MarkDeleteAt
  <2>2. ASSUME NEW rid, NEW tuple, Update(t, rid, tuple) PROVE Grows(heap, heap')
    BY <2>2, SlotsStay, ChangeGrows DEF Update, UpdateTupleAt
  <2> QED BY Zenon, <1>1, <1>2, <2>1, <2>2 DEF Call, Begin, Commit, Abort, Insert, InsertStart
<1>3. ASSUME NEW t \in Txns, Busy(t) PROVE Grows(heap, heap')
  <2>1. CASE InsertRun(t)
    BY Zenon, <2>1, InsertGrows DEF InsertRun
  <2>2. CASE CommitRecord(t)
    BY Zenon, <1>1, <2>2, RemovalGrows DEF CommitRecord
  <2>3. CASE AbortRecord(t)
    <3> DEFINE item == write_set[t][Len(write_set[t])]
    <3>1. CASE Change(item.rid, UpdateTuple(heap[item.rid[1]], item.rid[2], item.tuple))
      BY <3>1, SlotsStay, ChangeGrows
    <3> QED BY Zenon, <2>3, <3>1, RemovalGrows DEF AbortRecord
  <2>4. CASE Finish(t)
    BY Zenon, <1>1, <2>4 DEF Finish, heapVars
  <2> QED BY Zenon, <1>3, <2>1, <2>2, <2>3, <2>4 DEF Busy
<1>4. CASE BlockAllTransactions \/ ResumeTransactions
  BY Zenon, <1>1, <1>4 DEF BlockAllTransactions, ResumeTransactions, heapVars
<1> QED BY Zenon, <1>2, <1>3, <1>4 DEF Next

(* A grown heap has every page and rid it had *)
LEMMA RidsGrow ==
  ASSUME Grows(heap, heap')
  PROVE  Rids \subseteq Rids' /\ Pages \subseteq Pages'
BY DEF Grows, Rids, Pages

-----------------------------------------------------------------------------
(* What the scan relies on: pages are numbered in chain order *)
Table ==
  /\ \A r \in Rids : /\ r = <<r[1], r[2]>> /\ r[1] \in Pages /\ r[2] \in DOMAIN heap[r[1]]
                     /\ r[1] \in Nat /\ r[2] \in Nat
  /\ \A p \in Pages : p \in Nat /\ heap[p] \in PageSet /\ \A s \in DOMAIN heap[p] : <<p, s>> \in Rids
  /\ \A p \in Pages : next[p] = IF p + 1 \in Pages THEN p + 1 ELSE INVALID_PAGE_ID
  /\ \A p, q \in Pages : p + 1 \notin Pages => q <= p
  /\ first_page_id \in Pages /\ INVALID_PAGE_ID \notin Pages

(* The invariant of the transactions gives it *)
LEMMA TableIs == IInv => Table
<1> SUFFICES ASSUME IInv PROVE Table
  BY Zenon
<1>1. PICK n \in Nat \ {0} : Pages = 0 .. n - 1 /\ heap \in [Pages -> PageSet]
                       /\ next = [p \in Pages |-> IF p < n - 1 THEN p + 1 ELSE INVALID_PAGE_ID]
  <2>1. Cardinality(DOMAIN heap) \in Nat \ {0}
    BY HeapFacts, HeapAssumption DEF IInv
  <2> QED BY Zenon, <2>1, HeapFacts DEF IInv, Pages
<1>2. ASSUME NEW r \in Rids
      PROVE  r = <<r[1], r[2]>> /\ r[1] \in Pages /\ r[2] \in DOMAIN heap[r[1]]
  <2>1. r \in RidsOf(heap)
    BY Zenon DEF Rids, RidsOf, Pages
  <2> QED BY Zenon, <2>1, RidMade DEF Pages
<1>3. ASSUME NEW p \in Pages
      PROVE  p \in Nat /\ heap[p] \in PageSet /\ (\A s \in DOMAIN heap[p] : <<p, s>> \in Rids /\ s \in Nat)
  <2>1. DOMAIN heap[p] \subseteq Nat
    BY <1>1, PageShape
  <2> QED BY <1>1, <2>1 DEF Rids
<1>4. \A p \in Pages : next[p] = IF p + 1 \in Pages THEN p + 1 ELSE INVALID_PAGE_ID
  BY <1>1
<1>5. \A p, q \in Pages : p + 1 \notin Pages => q <= p
  BY <1>1
<1>6. first_page_id \in Pages /\ INVALID_PAGE_ID \notin Pages
  BY <1>1 DEF first_page_id, INVALID_PAGE_ID
<1> QED BY Zenon, <1>2, <1>3, <1>4, <1>5, <1>6 DEF Table

(* s is the first readable slot of page p at or after slot from *)
Found(p, from, s) ==
  \/ s = NoSlot /\ \A x \in DOMAIN p : Readable(p, x) => x < from
  \/ /\ s \in DOMAIN p /\ s # NoSlot /\ s >= from /\ Readable(p, s)
     /\ \A x \in DOMAIN p : Readable(p, x) /\ x < s => x < from

(* GetNextTupleRid finds that slot, or none when there is none *)
LEMMA NextIsFound ==
  ASSUME NEW p \in PageSet, NEW from \in Nat
  PROVE  Found(p, from, NextReadable(p, from))
<1> DEFINE later == {s \in DOMAIN p : s >= from /\ Readable(p, s)}
<1>1. DOMAIN p \subseteq Nat
  BY PageShape
<1>2. later \in SUBSET Nat /\ NextReadable(p, from) = IF later = {} THEN NoSlot ELSE Min(later)
  BY Zenon, <1>1 DEF NextReadable
<1>3. CASE later = {}
  BY <1>1, <1>2, <1>3 DEF Found
<1>4. CASE later # {}
  <2> DEFINE s == Min(later)
  <2>1. s \in later /\ \A y \in later : s <= y
    BY Zenon, <1>2, <1>4, LeastNatural
  <2>2. s \in Nat /\ s # NoSlot
    BY <1>2, <2>1 DEF NoSlot
  <2> HIDE DEF s
  <2>3. Found(p, from, s)
    BY <1>1, <2>1, <2>2 DEF Found
  <2> QED BY Zenon, <1>2, <1>4, <2>3 DEF s
<1> QED BY Zenon, <1>3, <1>4

(* t is s with r after it, and it is in order if r is after the last of s *)
Extends(s, r, t) ==
  /\ t # <<>> /\ t[Len(t)] = r /\ Range(t) = Range(s) \cup {r} /\ InOrder(t)

(* Returning a row appends its rid *)
LEMMA AppendExtends ==
  ASSUME NEW S, NEW s \in Seq(S), NEW r \in S, InOrder(s), s = <<>> \/ Before(s[Len(s)], r)
  PROVE  Append(s, r) \in Seq(S) /\ Extends(s, r, Append(s, r))
<1> DEFINE t == Append(s, r)
<1>1. t \in Seq(S) /\ Len(t) = Len(s) + 1 /\ Len(s) \in Nat /\ t[Len(s) + 1] = r /\ \A i \in 1 .. Len(s) : t[i] = s[i]
  OBVIOUS
<1> HIDE DEF t
<1>2. DOMAIN t = 1 .. Len(s) + 1 /\ DOMAIN s = 1 .. Len(s) /\ t # <<>>
  BY <1>1
<1>3. Range(t) = Range(s) \cup {r}
  BY <1>1, <1>2 DEF Range
<1>4. ASSUME NEW i \in 1 .. Len(t) - 1 PROVE Before(t[i], t[i + 1])
  <2>1. CASE i = Len(s)
    <3>1. s # <<>> /\ t[i] = s[Len(s)] /\ t[i + 1] = r
      BY <1>1, <2>1
    <3> QED BY Zenon, <3>1
  <2>2. CASE i # Len(s)
    <3>1. i \in 1 .. Len(s) - 1 /\ t[i] = s[i] /\ t[i + 1] = s[i + 1]
      BY <1>1, <2>2
    <3> QED BY Zenon, <3>1 DEF InOrder
  <2> QED BY Zenon, <2>1, <2>2
<1>5. Extends(s, r, t)
  BY Zenon, <1>1, <1>2, <1>3, <1>4 DEF Extends, InOrder
<1> QED BY Zenon, <1>1, <1>5 DEF t

-----------------------------------------------------------------------------
(* The table is as it was *)
Same == heap' = heap /\ next' = next /\ Rids' = Rids /\ Pages' = Pages /\ \A r : ReadableRid(r)' = ReadableRid(r)

(* A step of the scan leaves the table alone *)
LEMMA SameTable ==
  ASSUME UNCHANGED vars
  PROVE  Same
BY Zenon DEF Same, vars, heapVars, Rids, Pages, ReadableRid

(* The scan returns a row behind which every stable row was returned *)
LEMMA GoesOn ==
  ASSUME SInv, Same, NEW r \in Rids, phase' = "on", pos' = r, seen' = Append(seen, r), stable' = stable,
         seen = <<>> \/ Before(seen[Len(seen)], r),
         \A q \in stable : Before(q, r) => q \in Range(seen)
  PROVE  SInv'
<1>1. seen \in Seq(Rids) /\ InOrder(seen)
  BY Zenon DEF SInv
<1>2. seen' \in Seq(Rids) /\ Extends(seen, r, seen')
  BY Zenon, <1>1, AppendExtends
<1>3. seen' # <<>> /\ seen'[Len(seen')] = r /\ Range(seen') = Range(seen) \cup {r} /\ InOrder(seen')
  BY Zenon, <1>2 DEF Extends
<1>4. InOrder(seen)'
  BY Zenon, <1>3 DEF InOrder, Before
<1>5. ScanTypeOK'
  BY Zenon, <1>3 DEF SInv, ScanTypeOK, Same
<1>6. (\A q \in stable : ReadableRid(q))' /\ (seen \in Seq(Rids))'
  BY Zenon, <1>2 DEF SInv, Same
<1>7. NoneYet' /\ Ahead'
  BY Zenon DEF NoneYet, Ahead
<1>8. Behind'
  BY Zenon, <1>3 DEF Behind, Before
<1> QED BY Zenon, <1>4, <1>5, <1>6, <1>7, <1>8 DEF SInv

(* The scan moves without returning a row *)
LEMMA GoesTo ==
  ASSUME SInv, Same, phase' # "on", seen' = seen, \A q \in stable' : q \in Rids /\ ReadableRid(q),
         phase' \in {"first", "hop", "construct", "cross", "end", "thrown"},
         phase' \in {"first", "hop", "cross"} => pos'[1] \in Pages,
         phase' \in {"construct", "thrown"} => pos' \in Rids,
         NoneYet', Ahead', Behind'
  PROVE  SInv'
<1>1. ScanTypeOK'
  BY Zenon DEF SInv, ScanTypeOK, Same
<1>2. (\A q \in stable : ReadableRid(q))' /\ (seen \in Seq(Rids))'
  BY Zenon DEF SInv, Same
<1>3. InOrder(seen)'
  BY Zenon DEF SInv, InOrder, Before
<1> QED BY Zenon, <1>1, <1>2, <1>3 DEF SInv

(* Begin starts with every row ahead of it *)
LEMMA BeginCallKeeps ==
  ASSUME Table, SInv, Same, BeginCall, stable' = {rid \in Rids : ReadableRid(rid)}
  PROVE  SInv'
<1>1. phase = "idle" /\ phase' = "first" /\ pos' = <<first_page_id, NoSlot>> /\ seen' = seen
  BY Zenon DEF BeginCall, Goto
<1>2. pos'[1] = first_page_id /\ first_page_id \in Pages
  BY Zenon, <1>1 DEF Table
<1>3. NoneYet' /\ Behind'
  BY Zenon, <1>1 DEF SInv, NoneYet, Behind
<1>4. Ahead'
  <2>1. ASSUME NEW r \in stable' PROVE r[1] >= pos'[1]
    <3>1. r[1] \in Nat
      BY Zenon DEF Table
    <3> QED BY <1>2, <3>1 DEF first_page_id
  <2> QED BY Zenon, <1>1, <2>1 DEF Ahead
<1> QED BY Zenon, <1>1, <1>2, <1>3, <1>4, GoesTo

(* What is known of a stable row *)
LEMMA StableRow ==
  ASSUME Table, SInv, NEW r \in stable
  PROVE  /\ r = <<r[1], r[2]>> /\ r[1] \in Pages /\ r[2] \in DOMAIN heap[r[1]] /\ r[1] \in Nat /\ r[2] \in Nat
         /\ Readable(heap[r[1]], r[2]) /\ r \in Rids
BY Zenon DEF Table, SInv, ScanTypeOK, ReadableRid

(* Begin finds the first row of a page, or leaves the page behind *)
LEMMA BeginPageKeeps ==
  ASSUME Table, SInv, Same, BeginPage, stable' = stable
  PROVE  SInv'
<1> DEFINE p == pos[1]
           s == NextReadable(heap[p], 0)
<1>1. /\ phase = "first" /\ p \in Pages /\ seen = <<>> /\ \A r \in stable : r[1] >= p
      /\ \A q \in stable : q \in Rids /\ ReadableRid(q)
  BY Zenon DEF BeginPage, SInv, ScanTypeOK, Ahead, NoneYet
<1>2. p \in Nat /\ heap[p] \in PageSet /\ Found(heap[p], 0, s)
  BY Zenon, <1>1, NextIsFound DEF Table
<1>3. phase' = (IF s = NoSlot THEN "hop" ELSE "construct") /\ pos' = <<p, s>> /\ seen' = seen
  BY Zenon DEF BeginPage, Goto
<1> HIDE DEF p, s
<1>4. pos'[1] = p /\ pos'[2] = s
  BY Zenon, <1>3
<1>5. CASE s = NoSlot
  <2>1. ASSUME NEW r \in stable PROVE r[1] > p
    <3>1. r[1] = p => Readable(heap[p], r[2]) /\ r[2] \in DOMAIN heap[p] /\ r[2] \in Nat
      BY Zenon, StableRow
    <3>2. r[1] # p
      BY <1>2, <1>5, <3>1 DEF Found
    <3>3. r[1] \in Nat /\ r[1] >= p
      BY Zenon, <1>1, StableRow
    <3> QED BY <1>2, <3>2, <3>3
  <2>2. phase' = "hop"
    BY Zenon, <1>3, <1>5
  <2>3. Ahead' /\ NoneYet' /\ Behind'
    BY Zenon, <1>1, <1>3, <1>4, <2>1, <2>2 DEF Ahead, NoneYet, Behind
  <2> QED BY Zenon, <1>1, <1>3, <1>4, <2>2, <2>3, GoesTo
<1>6. CASE s # NoSlot
  <2>1. s \in DOMAIN heap[p] /\ \A x \in DOMAIN heap[p] : Readable(heap[p], x) /\ x < s => x < 0
    BY Zenon, <1>2, <1>6 DEF Found
  <2>2. pos' \in Rids
    BY Zenon, <1>1, <1>3, <2>1 DEF Table
  <2>3. ASSUME NEW r \in stable PROVE ~Before(r, pos')
    <3>1. r[1] = p => Readable(heap[p], r[2]) /\ r[2] \in DOMAIN heap[p] /\ r[2] \in Nat
      BY Zenon, StableRow
    <3>2. r[1] \in Nat /\ r[1] >= p
      BY Zenon, <1>1, StableRow
    <3> QED BY <1>2, <1>4, <2>1, <3>1, <3>2 DEF Before
  <2>4. phase' = "construct"
    BY Zenon, <1>3, <1>6
  <2>5. Ahead' /\ NoneYet' /\ Behind'
    BY Zenon, <1>1, <1>3, <2>3, <2>4 DEF Ahead, NoneYet, Behind, Before
  <2> QED BY Zenon, <1>1, <1>3, <2>2, <2>4, <2>5, GoesTo
<1> QED BY Zenon, <1>5, <1>6

(* Begin goes to the next page, or to the end when there is none *)
LEMMA BeginHopKeeps ==
  ASSUME FrameReuse = FALSE, Table, SInv, Same, BeginHop, stable' = stable
  PROVE  SInv'
<1> DEFINE p == pos[1]
<1>1. /\ phase = "hop" /\ p \in Pages /\ seen = <<>> /\ \A r \in stable : r[1] > p
      /\ \A q \in stable : q \in Rids /\ ReadableRid(q)
  BY Zenon DEF BeginHop, SInv, ScanTypeOK, Ahead, NoneYet
<1>2. p \in Nat /\ next[p] = (IF p + 1 \in Pages THEN p + 1 ELSE INVALID_PAGE_ID) /\ INVALID_PAGE_ID \notin Pages
  BY Zenon, <1>1 DEF Table
<1>3. IF next[p] = INVALID_PAGE_ID THEN Goto("end", INVALID_PAGE_ID, NoSlot) ELSE Goto("first", next[p], NoSlot)
  BY Zenon DEF BeginHop
<1> HIDE DEF p
<1>4. CASE p + 1 \in Pages
  <2>1. phase' = "first" /\ pos' = <<p + 1, NoSlot>> /\ seen' = seen
    BY Zenon, <1>2, <1>3, <1>4 DEF Goto
  <2>2. pos'[1] = p + 1
    BY Zenon, <2>1
  <2>3. ASSUME NEW r \in stable PROVE r[1] >= p + 1
    <3>1. r[1] \in Nat /\ r[1] > p
      BY Zenon, <1>1, StableRow
    <3> QED BY <1>2, <3>1
  <2>4. Ahead' /\ NoneYet' /\ Behind'
    BY Zenon, <1>1, <2>1, <2>2, <2>3 DEF Ahead, NoneYet, Behind
  <2> QED BY Zenon, <1>1, <1>4, <2>1, <2>2, <2>4, GoesTo
<1>5. CASE p + 1 \notin Pages
  <2>1. phase' = "end" /\ seen' = seen
    BY Zenon, <1>2, <1>3, <1>5 DEF Goto
  <2>2. stable = {}
    <3>1. ASSUME NEW r \in stable PROVE FALSE
      <4>1. r[1] \in Pages /\ r[1] \in Nat /\ r[1] > p
        BY Zenon, <1>1, StableRow
      <4>2. r[1] <= p
        BY Zenon, <1>1, <1>5, <4>1 DEF Table
      <4> QED BY <1>2, <4>1, <4>2
    <3> QED BY Zenon, <3>1
  <2>3. Ahead' /\ NoneYet' /\ Behind'
    BY Zenon, <1>1, <2>1, <2>2 DEF Ahead, NoneYet, Behind
  <2> QED BY Zenon, <1>1, <2>1, <2>3, GoesTo
<1> QED BY Zenon, <1>4, <1>5

(* The constructor returns the first row, or throws if it was deleted *)
LEMMA ConstructKeeps ==
  ASSUME Table, SInv, Same, Construct, stable' = stable
  PROVE  SInv'
<1>1. /\ phase = "construct" /\ pos \in Rids /\ seen = <<>> /\ \A r \in stable : ~Before(r, pos)
      /\ \A q \in stable : q \in Rids /\ ReadableRid(q)
  BY Zenon DEF Construct, SInv, ScanTypeOK, Ahead, NoneYet
<1>2. pos = <<pos[1], pos[2]>>
  BY Zenon, <1>1 DEF Table
<1>3. CASE ReadableRid(pos)
  <2>1. phase' = "on" /\ pos' = pos /\ seen' = Append(seen, pos)
    BY Zenon, <1>2, <1>3 DEF Construct, Goto
  <2> QED BY Zenon, <1>1, <2>1, GoesOn
<1>4. CASE ~ReadableRid(pos)
  <2>1. phase' = "thrown" /\ pos' = pos /\ seen' = seen
    BY Zenon, <1>2, <1>4 DEF Construct, Goto
  <2>2. pos \notin stable
    BY Zenon, <1>1, <1>4
  <2>3. Ahead' /\ NoneYet' /\ Behind'
    BY Zenon, <1>1, <2>1, <2>2 DEF Ahead, NoneYet, Behind
  <2> QED BY Zenon, <1>1, <2>1, <2>3, GoesTo
<1> QED BY Zenon, <1>3, <1>4

(* operator++ goes on from a slot when every row before it was returned *)
LEMMA FromSlotKeeps ==
  ASSUME Table, SInv, Same, phase \in {"on", "cross"}, NEW from \in Nat, FromSlot(from), stable' = stable,
         pos[1] \in Pages,
         seen # <<>>, seen[Len(seen)] \in Rids,
         seen[Len(seen)][1] < pos[1] \/ (seen[Len(seen)][1] = pos[1] /\ seen[Len(seen)][2] < from),
         \A r \in stable : r[1] < pos[1] \/ (r[1] = pos[1] /\ r[2] < from) => r \in Range(seen)
  PROVE  SInv'
<1> DEFINE p == pos[1]
           s == NextReadable(heap[p], from)
           l == seen[Len(seen)]
<1>1. p \in Nat /\ heap[p] \in PageSet /\ Found(heap[p], from, s)
      /\ next[p] = (IF p + 1 \in Pages THEN p + 1 ELSE INVALID_PAGE_ID) /\ INVALID_PAGE_ID \notin Pages
  BY Zenon, NextIsFound DEF Table
<1>2. IF s # NoSlot THEN Goto("on", p, s)
      ELSE IF next[p] = INVALID_PAGE_ID THEN Goto("end", INVALID_PAGE_ID, NoSlot)
      ELSE Goto("cross", next[p], NoSlot)
  BY Zenon DEF FromSlot
<1>3. l \in Rids /\ l[1] \in Nat /\ l[2] \in Nat
  BY Zenon DEF Table
<1>4. \A q \in stable : q \in Rids /\ ReadableRid(q)
  BY Zenon DEF SInv, ScanTypeOK
<1>5. l[1] < p \/ (l[1] = p /\ l[2] < from)
  BY Zenon
<1>6. \A r \in stable : r[1] < p \/ (r[1] = p /\ r[2] < from) => r \in Range(seen)
  BY Zenon
<1>p. p \in Pages
  BY Zenon
<1> HIDE DEF p, s
<1>7. CASE s # NoSlot
  <2>1. phase' = "on" /\ pos' = <<p, s>> /\ seen' = Append(seen, <<p, s>>)
    BY Zenon, <1>2, <1>7 DEF Goto
  <2>2. s \in DOMAIN heap[p] /\ s >= from /\ \A x \in DOMAIN heap[p] : Readable(heap[p], x) /\ x < s => x < from
    BY Zenon, <1>1, <1>7 DEF Found
  <2>3. <<p, s>> \in Rids /\ <<p, s>>[1] = p /\ <<p, s>>[2] = s /\ s \in Nat
    <3>1. <<p, s>> \in Rids /\ <<p, s>>[1] = p /\ <<p, s>>[2] = s
      BY Zenon, <1>p, <2>2 DEF Table
    <3> QED BY Zenon, <3>1 DEF Table
  <2>4. Before(l, <<p, s>>)
    BY <1>1, <1>3, <1>5, <2>2, <2>3 DEF Before
  <2>5. ASSUME NEW q \in stable, Before(q, <<p, s>>) PROVE q \in Range(seen)
    <3>1. q[1] = p => Readable(heap[p], q[2]) /\ q[2] \in DOMAIN heap[p]
      BY Zenon, StableRow
    <3>2. q[1] < p \/ (q[1] = p /\ q[2] < s)
      BY Zenon, <2>3, <2>5 DEF Before
    <3> QED BY Zenon, <1>6, <2>2, <3>1, <3>2
  <2> HIDE DEF l
  <2>6. seen = <<>> \/ Before(seen[Len(seen)], <<p, s>>)
    BY Zenon, <2>4 DEF l
  <2> DEFINE r == <<p, s>>
  <2>7. r \in Rids /\ pos' = r /\ seen' = Append(seen, r) /\ (seen = <<>> \/ Before(seen[Len(seen)], r))
        /\ \A q \in stable : Before(q, r) => q \in Range(seen)
    BY Zenon, <2>1, <2>3, <2>5, <2>6
  <2> HIDE DEF r
  <2> QED BY Zenon, <2>1, <2>7, GoesOn
<1>8. CASE s = NoSlot
  <2>1. ASSUME NEW r \in stable, r[1] <= p PROVE r \in Range(seen)
    <3>1. r[1] = p => Readable(heap[p], r[2]) /\ r[2] \in DOMAIN heap[p]
      BY Zenon, StableRow
    <3>2. r[1] = p => r[2] < from
      BY Zenon, <1>1, <1>8, <3>1 DEF Found, NoSlot
    <3>3. r[1] < p \/ r[1] = p
      <4>1. r[1] \in Nat
        BY Zenon, StableRow
      <4> QED BY <1>1, <2>1, <4>1
    <3> QED BY Zenon, <1>6, <3>2, <3>3
  <2>2. CASE p + 1 \in Pages
    <3>1. phase' = "cross" /\ pos' = <<p + 1, NoSlot>> /\ seen' = seen
      BY Zenon, <1>1, <1>2, <1>8, <2>2 DEF Goto
    <3>2. pos'[1] = p + 1 /\ l[1] < p + 1
      BY <1>1, <1>3, <1>5, <3>1
    <3>3. ASSUME NEW r \in stable, r[1] < p + 1 PROVE r \in Range(seen)
      <4>1. r[1] \in Nat
        BY Zenon, StableRow
      <4> QED BY <1>1, <2>1, <3>3, <4>1
    <3>4. Ahead' /\ NoneYet'
      BY Zenon, <3>1 DEF Ahead, NoneYet
    <3>5. Behind'
      BY Zenon, <3>1, <3>2, <3>3 DEF Behind
    <3> QED BY Zenon, <1>4, <2>2, <3>1, <3>2, <3>4, <3>5, GoesTo
  <2>3. CASE p + 1 \notin Pages
    <3>1. phase' = "end" /\ seen' = seen
      BY Zenon, <1>1, <1>2, <1>8, <2>3 DEF Goto
    <3>2. ASSUME NEW r \in stable PROVE r \in Range(seen)
      <4>1. r[1] \in Pages
        BY Zenon, StableRow
      <4>2. r[1] <= p
        BY Zenon, <1>p, <2>3, <4>1 DEF Table
      <4> QED BY Zenon, <2>1, <4>2
    <3>3. Ahead' /\ NoneYet' /\ Behind'
      BY Zenon, <3>1, <3>2 DEF Ahead, NoneYet, Behind
    <3> QED BY Zenon, <1>4, <3>1, <3>3, GoesTo
  <2> QED BY Zenon, <2>2, <2>3
<1> QED BY Zenon, <1>7, <1>8

(* The last row returned is a row of the table *)
LEMMA LastSeen ==
  ASSUME SInv, seen # <<>>
  PROVE  seen[Len(seen)] \in Rids
BY DEF SInv

(* operator++ within a page goes on behind the row it stands on *)
LEMMA IncrementKeeps ==
  ASSUME Table, SInv, Same, Increment, stable' = stable
  PROVE  SInv'
<1>1. /\ phase = "on" /\ FromSlot(pos[2] + 1) /\ pos \in Rids /\ seen # <<>> /\ seen[Len(seen)] = pos
      /\ \A r \in stable : Before(r, pos) => r \in Range(seen)
  BY Zenon DEF Increment, SInv, ScanTypeOK, Behind
<1>2. pos[1] \in Pages /\ pos[1] \in Nat /\ pos[2] \in Nat /\ pos = <<pos[1], pos[2]>>
  BY Zenon, <1>1 DEF Table
<1>3. ASSUME NEW r \in stable, r[1] < pos[1] \/ (r[1] = pos[1] /\ r[2] < pos[2] + 1)
      PROVE  r \in Range(seen)
  <2>1. r[1] \in Nat /\ r[2] \in Nat /\ r = <<r[1], r[2]>>
    BY Zenon, StableRow
  <2>2. CASE Before(r, pos)
    BY Zenon, <1>1, <2>2
  <2>3. CASE ~Before(r, pos)
    <3>1. r[1] = pos[1] /\ r[2] = pos[2]
      BY <1>2, <1>3, <2>1, <2>3 DEF Before
    <3>2. r = pos
      BY Zenon, <1>2, <2>1, <3>1
    <3>3. Len(seen) \in DOMAIN seen
      BY <1>1 DEF SInv
    <3> QED BY Zenon, <1>1, <3>2, <3>3 DEF Range
  <2> QED BY Zenon, <2>2, <2>3
<1> DEFINE from == pos[2] + 1
<1>4. from \in Nat /\ FromSlot(from) /\ seen[Len(seen)][1] = pos[1] /\ seen[Len(seen)][2] < from
      /\ \A r \in stable : r[1] < pos[1] \/ (r[1] = pos[1] /\ r[2] < from) => r \in Range(seen)
  BY <1>1, <1>2, <1>3
<1> HIDE DEF from
<1> QED BY Zenon, <1>1, <1>2, <1>4, FromSlotKeeps

(* operator++ on the next page goes on from its first slot *)
LEMMA CrossKeeps ==
  ASSUME Table, SInv, Same, CrossPage, stable' = stable
  PROVE  SInv'
<1>1. /\ phase = "cross" /\ FromSlot(0) /\ pos[1] \in Pages /\ seen # <<>> /\ seen[Len(seen)][1] < pos[1]
      /\ \A r \in stable : r[1] < pos[1] => r \in Range(seen)
  BY Zenon DEF CrossPage, SInv, ScanTypeOK, Behind
<1>2. \A r \in stable : r[2] \in Nat
  BY Zenon, StableRow
<1>3. \A r \in stable : r[1] < pos[1] \/ (r[1] = pos[1] /\ r[2] < 0) => r \in Range(seen)
  BY <1>1, <1>2
<1> QED BY Zenon, <1>1, <1>3, LastSeen, FromSlotKeeps

(* Every step of the scan keeps the invariant *)
LEMMA ScanKeeps ==
  ASSUME FrameReuse = FALSE, IInv, SInv, ScanStep
  PROVE  SInv'
<1>1. Table /\ Same /\ Scan
  BY Zenon, TableIs, SameTable DEF ScanStep
<1>2. phase = "idle" => stable' = {rid \in Rids : ReadableRid(rid)}
  BY Zenon DEF ScanStep
<1>3. phase # "idle" => stable' = stable
  BY Zenon DEF ScanStep
<1>4. CASE BeginCall
  BY Zenon, <1>1, <1>2, <1>4, BeginCallKeeps DEF BeginCall
<1>5. CASE BeginPage
  BY Zenon, <1>1, <1>3, <1>5, BeginPageKeeps DEF BeginPage
<1>6. CASE BeginHop
  BY Zenon, <1>1, <1>3, <1>6, BeginHopKeeps DEF BeginHop
<1>7. CASE Construct
  BY Zenon, <1>1, <1>3, <1>7, ConstructKeeps DEF Construct
<1>8. CASE Increment
  BY Zenon, <1>1, <1>3, <1>8, IncrementKeeps DEF Increment
<1>9. CASE CrossPage
  BY Zenon, <1>1, <1>3, <1>9, CrossKeeps DEF CrossPage
<1> QED BY Zenon, <1>1, <1>4, <1>5, <1>6, <1>7, <1>8, <1>9 DEF Scan

(* Every step of a transaction keeps it *)
LEMMA WritersKeep ==
  ASSUME SInv, Grows(heap, heap'), StillReadable, UNCHANGED scanVars
  PROVE  SInv'
<1>1. Rids \subseteq Rids' /\ Pages \subseteq Pages'
  BY Zenon, RidsGrow
<1>2. phase' = phase /\ pos' = pos /\ seen' = seen /\ stable' \subseteq stable
  BY Zenon DEF scanVars, StillReadable
<1>3. (\A r \in stable : ReadableRid(r))'
  BY Zenon DEF StillReadable, ReadableRid
<1>4. ScanTypeOK'
  BY Zenon, <1>1, <1>2 DEF SInv, ScanTypeOK
<1>5. (seen \in Seq(Rids))'
  BY <1>1, <1>2 DEF SInv
<1>6. InOrder(seen)' /\ NoneYet'
  BY Zenon, <1>2 DEF SInv, InOrder, NoneYet, Before
<1>7. Ahead'
  BY Zenon, <1>2 DEF SInv, Ahead, Before
<1>8. Behind'
  BY Zenon, <1>2 DEF SInv, Behind, Before
<1> QED BY Zenon, <1>3, <1>4, <1>5, <1>6, <1>7, <1>8 DEF SInv

(* Both invariants hold initially *)
LEMMA ScanStarts == Init /\ ScanInit => IInv /\ SInv
<1> SUFFICES ASSUME Init, ScanInit PROVE IInv /\ SInv
  BY Zenon
<1>1. phase = "idle" /\ seen = <<>> /\ stable = {}
  BY Zenon DEF ScanInit
<1>2. <<>> \in Seq(Rids) /\ Len(<<>>) = 0 /\ DOMAIN <<>> = {}
  OBVIOUS
<1>3. ScanTypeOK /\ InOrder(seen)
  BY <1>1, <1>2 DEF ScanTypeOK, InOrder, Range
<1> QED BY Zenon, <1>1, <1>2, <1>3, InvInit DEF SInv, NoneYet, Ahead, Behind

(* Both invariants are kept by every step *)
LEMMA ScanSteps ==
  FrameReuse = FALSE /\ IInv /\ SInv /\ [ScanNext]_<<vars, scanVars, stable>> => IInv' /\ SInv'
<1> SUFFICES ASSUME FrameReuse = FALSE, IInv, SInv, [ScanNext]_<<vars, scanVars, stable>>
             PROVE  IInv' /\ SInv'
  BY Zenon
<1>1. [Next]_vars
  BY Zenon DEF ScanNext, ScanStep
<1>2. IInv'
  BY Zenon, <1>1, StepInv
<1>3. CASE ScanStep
  BY Zenon, <1>2, <1>3, ScanKeeps
<1>4. CASE Next /\ StillReadable /\ UNCHANGED scanVars
  BY Zenon, <1>2, <1>4, HeapGrows, WritersKeep
<1>5. CASE UNCHANGED <<vars, scanVars, stable>>
  <2>1. UNCHANGED vars /\ UNCHANGED scanVars /\ stable' = stable
    BY Zenon, <1>5
  <2>2. Grows(heap, heap')
    BY Zenon, <2>1 DEF vars, heapVars, Grows
  <2>3. StillReadable
    BY Zenon, <2>1 DEF StillReadable, SInv, ReadableRid, vars, heapVars
  <2> QED BY Zenon, <1>2, <2>1, <2>2, <2>3, WritersKeep
<1> QED BY Zenon, <1>2, <1>3, <1>4, <1>5 DEF ScanNext

(* A scan (TableHeap::Begin, TableIterator::operator++) returns rows in        *)
(* table order, none twice, and one that reaches End() has returned every row  *)
(* that was readable all the while, whatever transactions insert, delete,      *)
(* update, commit or abort between its steps.  The hypothesis is that the      *)
(* buffer pool has not reused the frame from which Begin reads next_page_id    *)
(* after it has unpinned the page.                                             *)
THEOREM ScansComplete == FrameReuse = FALSE => (ScanSpec => []ScanComplete)
<1> SUFFICES ASSUME FrameReuse = FALSE PROVE ScanSpec => []ScanComplete
  BY Zenon
<1>1. Init /\ ScanInit => IInv /\ SInv
  BY Zenon, ScanStarts
<1>2. (IInv /\ SInv) /\ [ScanNext]_<<vars, scanVars, stable>> => (IInv /\ SInv)'
  BY Zenon, ScanSteps
<1>3. SInv => ScanComplete
  BY Zenon DEF SInv, ScanComplete, InOrder, NoneYet, Ahead, Behind
<1> QED BY <1>1, <1>2, <1>3, PTL DEF ScanSpec
=============================================================================
