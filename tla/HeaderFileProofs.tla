--------------------------- MODULE HeaderFileProofs ---------------------------
(***************************************************************************)
(* The disk managers, the log and the header page for every number of      *)
(* threads, pages and names, every page size and width of an int.          *)
(*                                                                         *)
(* PagesIntact, ReadsLastWrite and HeaderIsMap are not inductive.  What    *)
(* they need is that of a transfer the cells done so far agree with the    *)
(* buffer and the stream stands where the next one belongs (FileCall), as  *)
(* nobody else moves it while the latch is held (FileMode); that in memory *)
(* a writer holds the latch of a page alone (MemoryMode); and that the     *)
(* page on disk is a header page at any time, without two records of a     *)
(* name, so that a process that starts again finds one (HeaderInv).        *)
(***************************************************************************)
EXTENDS HeaderFile, TLAPS

(* What a thread is doing, with all its fields. *)
Calls == [at : {"idle", "enter", "latch", "transfer", "leave"}, op : {"none", "read", "write"},
          page : Pages, n : 0 .. PAGE_SIZE, buf : Pagefuls]

(* A length or a position no further than the end of some page. *)
Reach(x) == x \in Nat /\ \E p \in Pages : x <= PAGE_SIZE * (1 + p)

(* The types of the variables of the disk managers. *)
DbTypes ==
  /\ in_memory \in BOOLEAN /\ bad \in BOOLEAN
  /\ file \in Seq(Cells) /\ Reach(Len(file)) /\ Reach(pos)
  /\ DOMAIN data_ \subseteq Pages /\ data_ \in [DOMAIN data_ -> Pagefuls]
  /\ latch \in Threads \cup {NoOne}
  /\ page_latch \in [Pages -> SUBSET Threads]
  /\ call \in [Threads -> Calls]
  /\ last \in [Pages -> Pagefuls] /\ torn \in SUBSET Pages

(* The thread moves cells. *)
Under(t) == At(t) = "transfer"

(* A thread that is idle has no call; a transfer starts with the first cell; *)
(* a write that leaves after an error has not written the whole page.        *)
CallShape(c) ==
  /\ c.at = "idle" <=> c.op = "none"
  /\ c.at \in {"enter", "latch"} => c.n = 0
  /\ c.at = "leave" /\ c.op = "write" => c.n < PAGE_SIZE

(* What is known of a call c on a file f at position x with badbit b.  The   *)
(* first n cells of the page are those of the buffer; the position is where  *)
(* the next one belongs, but for a read that went over the end, and for a    *)
(* read of a page whose offset an int cannot hold.                           *)
FileCall(c, f, x, b) ==
  /\ c.at # "latch"
  /\ c.at = "transfer" => ~b
  /\ c.at = "transfer" /\ c.op = "write" =>
       x = c.page * PAGE_SIZE + c.n /\ \A i \in 1 .. c.n : CellAt(f, c.page * PAGE_SIZE + i) = c.buf[i]
  /\ c.at = "transfer" /\ c.op = "read" =>
       /\ x <= Len(f)
       /\ Addressable(c.page) =>
            /\ c.n < PAGE_SIZE => x = c.page * PAGE_SIZE + c.n
            /\ \A i \in 1 .. c.n : c.buf[i] = CellAt(f, c.page * PAGE_SIZE + i)

(* What is known of a call c on the pages d in memory. *)
MemoryCall(c, d) ==
  /\ c.at \in {"latch", "transfer"} => c.page \in DOMAIN d
  /\ c.at = "transfer" => \A i \in 1 .. c.n : c.buf[i] = d[c.page][i]
  /\ c.at = "leave" => c.op = "read" /\ c.n = 0

(* Only the holder of the latch is between the seek and the return. *)
FileMode ==
  ~in_memory =>
    /\ \A t \in Threads : latch = t <=> At(t) \in {"transfer", "leave"}
    /\ \A t \in Threads : FileCall(call[t], file, pos, bad)

(* Only the holder of mutex_ waits for the latch of a page; who moves cells  *)
(* of a page holds its latch, and a writer holds it alone.                   *)
MemoryMode ==
  in_memory =>
    /\ torn = {} /\ ~bad
    /\ \A t \in Threads : latch = t <=> At(t) = "latch"
    /\ \A t \in Threads : MemoryCall(call[t], data_)
    /\ \A t \in Threads, p \in Pages : t \in page_latch[p] <=> Under(t) /\ call[t].page = p
    /\ \A t, u \in Threads : t # u /\ Under(t) /\ Under(u) /\ call[t].page = call[u].page => Op(t) = "read"

(* What is stored of a page. *)
Stored(p) == IF in_memory THEN IF p \in DOMAIN data_ THEN data_[p] ELSE ZeroPage ELSE PageIn(file, p)

(* A page that no thread is writing and no fault has torn is stored as it    *)
(* was written last.                                                         *)
Intact == \A p \in Pages \ torn : ~Writing(p) => last[p] = Stored(p)

(* The page has a record count that fits it, and its records have roots and  *)
(* names of their own.                                                       *)
IsHeader(h) ==
  /\ h[1][1] \in 0 .. PAGE_SIZE - 1
  /\ \A i \in 1 .. h[1][1] : h[1 + i][2] # Absent
  /\ \A i, j \in 1 .. h[1][1] : h[1 + i][1] = h[1 + j][1] => i = j

(* The page gives each name the root r says. *)
Maps(h, r) == \A name \in Names : GetRootId(h, name) = r[name]

(* No error was hidden from the owner of the header page. *)
Trusted == ~bad /\ (in_memory \/ Fits)

(* While the owner reads the header page its buffer is what has been read    *)
(* and zeros, and roots is what it will find.  A read that found no page     *)
(* leaves zeros, and then the page was never written.                        *)
OwnerReads ==
  LET c == call[Owner]
      h == last[HEADER_PAGE_ID]
  IN c.op = "read" =>
       /\ c.page = HEADER_PAGE_ID /\ HEADER_PAGE_ID \notin torn
       /\ roots # NotFetched /\ Maps(h, roots)
       /\ \A i \in 1 .. PAGE_SIZE : c.buf[i] = IF i <= c.n THEN h[i] ELSE Zero
       /\ c.at = "leave" /\ ~bad => c.n = 0
       /\ c.at = "leave" /\ Trusted => h = ZeroPage

(* Otherwise the owner has a header page that says what roots says. *)
OwnerHas ==
  LET c == call[Owner]
  IN /\ c.op # "read" /\ roots # NotFetched =>
          /\ c.buf[1][1] \in 0 .. PAGE_SIZE - 1
          /\ ~bad => IsHeader(c.buf)
          /\ Trusted => Maps(c.buf, roots)
     /\ c.op = "write" => c.page = HEADER_PAGE_ID

(* Only the owner writes the header page, and what was written is one. *)
HeaderInv ==
  /\ roots = NotFetched \/ roots \in [Names -> Int]
  /\ \A t \in Threads : Op(t) = "write" /\ call[t].page = HEADER_PAGE_ID => t = Owner
  /\ IsHeader(last[HEADER_PAGE_ID])
  /\ roots = NotFetched => call[Owner] = Idle(ZeroPage)
  /\ OwnerReads /\ OwnerHas

(* A write of the log moves cells from its first to its last. *)
LogInv ==
  /\ log_file \in Seq(Cells) /\ logged \in Seq(Cells) /\ log_call.data \in Seq(Cells)
  /\ log_call = [at |-> log_call.at, data |-> log_call.data, n |-> log_call.n]
  /\ log_call.n \in 0 .. Len(log_call.data)
  /\ log_call.at = "transfer" => log_call.n < Len(log_call.data)
  /\ log_call.at = "idle" => log_call = LogIdle
  /\ LogGrowsAtEnd

(* All calls have their shape. *)
Shapes == \A t \in Threads : CallShape(call[t])
(* The inductive invariant. *)
IInv == DbTypes /\ Shapes /\ FileMode /\ MemoryMode /\ Intact /\ HeaderInv /\ LogInv

(* In a header page FindRecord finds the record of the name, if there is     *)
(* one.                                                                      *)
LEMMA FoundRecord ==
  ASSUME NEW h \in Pagefuls, IsHeader(h), NEW name
  PROVE  \/ FindRecord(h, name) = 0 /\ \A i \in 1 .. h[1][1] : h[1 + i][1] # name
         \/ FindRecord(h, name) \in 1 .. h[1][1] /\ h[1 + FindRecord(h, name)][1] = name
<1> DEFINE I == {i \in 1 .. h[1][1] : h[1 + i][1] = name}
<1>1. FindRecord(h, name) = IF I = {} THEN 0 ELSE (CHOOSE m \in I : \A y \in I : m <= y)
  BY Zenon DEF FindRecord, GetRecordCount
<1>2. CASE I = {}
  BY Zenon, <1>1, <1>2
<1>3. CASE I # {}
  <2>1. PICK m \in I : TRUE
    BY Zenon, <1>3
  <2>2. \A y \in I : y = m /\ m \in Int
    BY <2>1 DEF IsHeader
  <2>3. \E x \in I : \A y \in I : x <= y
    BY <2>1, <2>2
  <2> QED BY Zenon, <1>1, <1>3, <2>3
<1> QED BY Zenon, <1>2, <1>3

(* In a header page each record is found by its name. *)
LEMMA RootFound ==
  ASSUME NEW h \in Pagefuls, IsHeader(h), NEW i \in 1 .. h[1][1]
  PROVE  /\ FindRecord(h, h[1 + i][1]) = i
         /\ GetRootId(h, h[1 + i][1]) = h[1 + i][2]
<1> DEFINE name == h[1 + i][1]
           f == FindRecord(h, name)
<1> HIDE DEF f
<1>1. \/ f = 0 /\ \A j \in 1 .. h[1][1] : h[1 + j][1] # name
      \/ f \in 1 .. h[1][1] /\ h[1 + f][1] = name
  BY Zenon, FoundRecord DEF f
<1>2. f = i
  BY Zenon, <1>1 DEF IsHeader
<1>3. f # 0
  BY <1>2
<1> QED BY Zenon, <1>2, <1>3 DEF GetRootId, HasRecord, f

(* A name without a record has no root. *)
LEMMA RootMissing ==
  ASSUME NEW h \in Pagefuls, IsHeader(h), NEW name, \A i \in 1 .. h[1][1] : h[1 + i][1] # name
  PROVE  FindRecord(h, name) = 0 /\ GetRootId(h, name) = Absent
<1>1. FindRecord(h, name) = 0
  BY Zenon, FoundRecord
<1> QED BY Zenon, <1>1 DEF GetRootId, HasRecord, Absent

(* GetRootId in both cases. *)
LEMMA RootCases ==
  ASSUME NEW h \in Pagefuls, IsHeader(h), NEW name
  PROVE  \/ /\ FindRecord(h, name) = 0 /\ GetRootId(h, name) = Absent
            /\ \A i \in 1 .. h[1][1] : h[1 + i][1] # name
         \/ \E i \in 1 .. h[1][1] : /\ h[1 + i][1] = name /\ FindRecord(h, name) = i
                                   /\ GetRootId(h, name) = h[1 + i][2] /\ GetRootId(h, name) # Absent
<1>1. CASE \A i \in 1 .. h[1][1] : h[1 + i][1] # name
  BY Zenon, <1>1, RootMissing
<1>2. CASE \E i \in 1 .. h[1][1] : h[1 + i][1] = name
  <2>1. PICK i \in 1 .. h[1][1] : h[1 + i][1] = name
    BY Zenon, <1>2
  <2>2. FindRecord(h, name) = i /\ GetRootId(h, name) = h[1 + i][2]
    BY Zenon, <2>1, RootFound
  <2>3. h[1 + i][2] # Absent
    BY Zenon DEF IsHeader
  <2> QED BY Zenon, <2>1, <2>2, <2>3
<1> QED BY Zenon, <1>1, <1>2

(* Page g has another root for one name, and otherwise the roots of h. *)
Changed(h, g, name, root) ==
  \A m \in Names : GetRootId(g, m) = IF m = name THEN root ELSE GetRootId(h, m)

(* InsertRecord stays within the page. *)
LEMMA InsertTyped ==
  ASSUME NEW h \in Pagefuls, h[1][1] \in 0 .. PAGE_SIZE - 1, NEW name \in Names, NEW root_id \in Roots,
         HasRoom(h) \/ HasRecord(h, name)
  PROVE  LET g == InsertRecord(h, name, root_id)
         IN  g \in Pagefuls /\ g[1][1] \in 0 .. PAGE_SIZE - 1
<1>1. Len(h) = PAGE_SIZE
  BY PagesAssumption DEF Pagefuls
<1>2. CASE HasRecord(h, name)
  BY Zenon, <1>2 DEF InsertRecord
<1>3. CASE ~HasRecord(h, name)
  <2> DEFINE n == h[1][1]
             k == [h EXCEPT ![2 + n] = <<name, root_id>>]
             g == InsertRecord(h, name, root_id)
  <2>1. n + 1 \in 1 .. PAGE_SIZE - 1 /\ n \in Nat
    BY <1>1, <1>3, PagesAssumption DEF HasRoom, GetRecordCount
  <2>2. <<name, root_id>> \in Cells /\ <<n + 1, 0>> \in Cells
    BY <2>1, NamesAssumption DEF Cells
  <2>3. g = [k EXCEPT ![1] = <<n + 1, 0>>]
    BY Zenon, <1>3 DEF InsertRecord, SetRecordCount, GetRecordCount
  <2>4. g \in Pagefuls /\ g[1] = <<n + 1, 0>>
    <3>1. k \in Pagefuls
      BY Zenon, <2>1, <2>2 DEF Pagefuls
    <3> HIDE DEF k, g
    <3> DEFINE c == <<n + 1, 0>>
    <3>2. c \in Cells
      BY Zenon, <2>2
    <3> HIDE DEF c
    <3>3. g = [k EXCEPT ![1] = c]
      BY Zenon, <2>3 DEF c
    <3>4. g \in Pagefuls /\ g[1] = c
      BY <3>1, <3>2, <3>3, PagesAssumption DEF Pagefuls
    <3> QED BY Zenon, <3>4 DEF c
  <2>5. g[1][1] = n + 1
    BY <2>4
  <2> QED BY <2>1, <2>4, <2>5
<1> QED BY Zenon, <1>2, <1>3

(* InsertRecord adds its record and leaves the roots of other names. *)
LEMMA InsertMaps ==
  ASSUME NEW h \in Pagefuls, IsHeader(h), NEW name \in Names, NEW root_id \in Roots,
         HasRoom(h) \/ HasRecord(h, name)
  PROVE  LET g == InsertRecord(h, name, root_id)
         IN  /\ IsHeader(g)
             /\ Changed(h, g, name, IF GetRootId(h, name) = Absent THEN root_id ELSE GetRootId(h, name))
<1> DEFINE g == InsertRecord(h, name, root_id)
           n == h[1][1]
<1>0. g \in Pagefuls
  BY Zenon, InsertTyped DEF IsHeader
<1>1. CASE HasRecord(h, name)
  <2>1. g = h
    BY Zenon, <1>1 DEF InsertRecord
  <2>2. GetRootId(h, name) # Absent
    BY Zenon, <1>1, RootCases DEF HasRecord
  <2> QED BY Zenon, <2>1, <2>2 DEF Changed
<1>2. CASE ~HasRecord(h, name)
  <2>1. n + 1 \in 1 .. PAGE_SIZE - 1 /\ n \in Nat
    <3>1. Len(h) = PAGE_SIZE
      BY PagesAssumption DEF Pagefuls
    <3> QED BY <1>2, <3>1, PagesAssumption DEF HasRoom, GetRecordCount, IsHeader
  <2>2. g[1] = <<n + 1, 0>> /\ g[2 + n] = <<name, root_id>> /\ \A i \in 1 .. n : g[1 + i] = h[1 + i]
    <3> DEFINE k == [h EXCEPT ![2 + n] = <<name, root_id>>]
    <3>1. g = [k EXCEPT ![1] = <<n + 1, 0>>]
      BY Zenon, <1>2 DEF InsertRecord, SetRecordCount, GetRecordCount
    <3> QED BY SMTT(30), <3>1, <2>1, PagesAssumption DEF Pagefuls
  <2>3. \A i \in 1 .. n : h[1 + i][1] # name
    BY <1>2, RootCases DEF HasRecord
  <2>4. GetRootId(h, name) = Absent
    BY <1>2, RootCases DEF HasRecord
  <2>5. g[1][1] = n + 1 /\ g[1 + (n + 1)] = <<name, root_id>>
    BY <2>1, <2>2
  <2>5a. g[1 + (n + 1)][1] = name /\ g[1 + (n + 1)][2] = root_id
    BY <2>5
  <2>6. IsHeader(g)
    <3>1. ASSUME NEW i \in 1 .. n + 1
          PROVE  g[1 + i][2] # Absent
      <4>1. CASE i = n + 1
        BY Zenon, <4>1, <2>5a, NamesAssumption
      <4>2. CASE i # n + 1
        BY <4>2, <2>1, <2>2 DEF IsHeader
      <4> QED BY Zenon, <4>1, <4>2
    <3>2. ASSUME NEW i \in 1 .. n + 1, NEW j \in 1 .. n + 1, g[1 + i][1] = g[1 + j][1]
          PROVE  i = j
      <4>1. CASE i = n + 1 /\ j # n + 1
        <5>1. j \in 1 .. n
          BY <4>1, <2>1
        <5> QED BY Zenon, <5>1, <4>1, <3>2, <2>2, <2>3, <2>5a
      <4>2. CASE j = n + 1 /\ i # n + 1
        <5>1. i \in 1 .. n
          BY <4>2, <2>1
        <5> QED BY Zenon, <5>1, <4>2, <3>2, <2>2, <2>3, <2>5a
      <4>3. CASE i # n + 1 /\ j # n + 1
        <5>1. i \in 1 .. n /\ j \in 1 .. n
          BY <4>3, <2>1
        <5> QED BY Zenon, <5>1, <3>2, <2>2 DEF IsHeader
      <4> QED BY Zenon, <4>1, <4>2, <4>3
    <3> QED BY <3>1, <3>2, <2>1, <2>5 DEF IsHeader
  <2>7. ASSUME NEW m \in Names
        PROVE  GetRootId(g, m) = IF m = name THEN root_id ELSE GetRootId(h, m)
    <3>1. CASE m = name
      <4>1. GetRootId(g, g[1 + (n + 1)][1]) = g[1 + (n + 1)][2]
        BY <1>0, <2>1, <2>5, <2>6, RootFound
      <4> QED BY Zenon, <4>1, <2>5a, <3>1
    <3>2. CASE m # name /\ \E i \in 1 .. n : h[1 + i][1] = m
      <4>1. PICK i \in 1 .. n : h[1 + i][1] = m
        BY Zenon, <3>2
      <4>2. GetRootId(h, h[1 + i][1]) = h[1 + i][2]
        BY Zenon, RootFound
      <4>3. i \in 1 .. g[1][1]
        BY <2>1, <2>5
      <4>4. GetRootId(g, g[1 + i][1]) = g[1 + i][2]
        BY Zenon, <1>0, <4>3, <2>6, RootFound
      <4> QED BY Zenon, <4>1, <4>2, <4>4, <2>2, <3>2
    <3>3. CASE m # name /\ \A i \in 1 .. n : h[1 + i][1] # m
      <4>1. GetRootId(h, m) = Absent
        BY Zenon, <3>3, RootMissing
      <4>2. ASSUME NEW i \in 1 .. g[1][1] PROVE g[1 + i][1] # m
        <5>1. i = n + 1 \/ i \in 1 .. n
          BY <2>1, <2>5
        <5> QED BY Zenon, <5>1, <3>3, <2>2, <2>5a
      <4>3. GetRootId(g, m) = Absent
        BY Zenon, <4>2, <1>0, <2>6, RootMissing
      <4> QED BY Zenon, <4>1, <4>3, <3>3
    <3> QED BY Zenon, <3>1, <3>2, <3>3
  <2> QED BY Zenon, <2>4, <2>6, <2>7 DEF Changed
<1> QED BY Zenon, <1>1, <1>2

(* What FindRecord finds is on the page. *)
LEMMA SomeRecord ==
  ASSUME NEW h \in Pagefuls, h[1][1] \in 0 .. PAGE_SIZE - 1, NEW name, FindRecord(h, name) # 0
  PROVE  h[1][1] \in 1 .. PAGE_SIZE - 1
<1>1. {i \in 1 .. h[1][1] : h[1 + i][1] = name} # {}
  BY Zenon DEF FindRecord, GetRecordCount
<1>2. \E i \in 1 .. h[1][1] : TRUE
  BY Zenon, <1>1
<1> QED BY <1>2

(* DeleteRecord moves the later records down by one. *)
LEMMA DeleteTyped ==
  ASSUME NEW h \in Pagefuls, h[1][1] \in 0 .. PAGE_SIZE - 1, NEW name \in Names
  PROVE  LET g == DeleteRecord(h, name)
         IN  /\ g \in Pagefuls /\ g[1][1] \in 0 .. PAGE_SIZE - 1
             /\ IsHeader(h) /\ FindRecord(h, name) # 0 =>
                  /\ g[1][1] = h[1][1] - 1
                  /\ \A k \in 1 .. h[1][1] - 1 :
                       g[1 + k] = IF k >= FindRecord(h, name) THEN h[2 + k] ELSE h[1 + k]
<1> DEFINE g == DeleteRecord(h, name)
           n == h[1][1]
           f == FindRecord(h, name)
           d == [k \in DOMAIN h |-> IF k \in 1 + f .. n THEN h[k + 1] ELSE h[k]]
           c == <<n - 1, 0>>
<1>1. CASE f = 0
  BY Zenon, <1>1 DEF DeleteRecord
<1>2. CASE f # 0
  <2>1. n \in 1 .. PAGE_SIZE - 1
    BY Zenon, <1>2, SomeRecord
  <2>2. g = [d EXCEPT ![1] = c]
    BY Zenon, <1>2 DEF DeleteRecord, SetRecordCount, GetRecordCount
  <2>3. c \in Cells /\ c[1] = n - 1
    BY <2>1 DEF Cells
  <2>4. DOMAIN h = 1 .. PAGE_SIZE /\ \A k \in 1 .. PAGE_SIZE : h[k] \in Cells
    BY Zenon DEF Pagefuls
  <2> HIDE DEF c, f, g, n
  <2>5. d \in Pagefuls
    <3>1. ASSUME NEW k \in 1 .. PAGE_SIZE, k \in 1 + f .. n
          PROVE  k + 1 \in 1 .. PAGE_SIZE
      BY <2>1, <3>1, PagesAssumption
    <3>2. ASSUME NEW k \in 1 .. PAGE_SIZE
          PROVE  (IF k \in 1 + f .. n THEN h[k + 1] ELSE h[k]) \in Cells
      BY Zenon, <3>1, <2>4
    <3> QED BY Zenon, <2>4, <3>2 DEF Pagefuls
  <2>6. \A k \in 1 .. PAGE_SIZE : d[k] = IF k \in 1 + f .. n THEN h[k + 1] ELSE h[k]
    BY Zenon, <2>4
  <2> HIDE DEF d
  <2>7. /\ g \in Pagefuls /\ g[1] = c
        /\ \A k \in 2 .. PAGE_SIZE : g[k] = d[k]
    BY <2>2, <2>3, <2>5, PagesAssumption DEF Pagefuls
  <2>8. g[1][1] = n - 1 /\ n - 1 \in 0 .. PAGE_SIZE - 1
    BY <2>1, <2>3, <2>7, PagesAssumption
  <2>9. ASSUME IsHeader(h), NEW k \in 1 .. n - 1
        PROVE  g[1 + k] = IF k >= f THEN h[2 + k] ELSE h[1 + k]
    <3>1. 1 + k \in 2 .. PAGE_SIZE /\ 1 + k \in 1 .. PAGE_SIZE /\ (1 + k) + 1 = 2 + k
      BY <2>1, PagesAssumption
    <3>2. f \in 1 .. n
      BY Zenon, <1>2, <2>9, FoundRecord DEF f, n
    <3>3. (1 + k \in 1 + f .. n) <=> k >= f
      BY <2>1, <3>2
    <3> QED BY Zenon, <3>1, <3>3, <2>6, <2>7
  <2> QED BY Zenon, <2>7, <2>8, <2>9 DEF f, g, n
<1> QED BY Zenon, <1>1, <1>2

(* DeleteRecord leaves the roots of all names but its own. *)
LEMMA DeleteMaps ==
  ASSUME NEW h \in Pagefuls, IsHeader(h), NEW name \in Names
  PROVE  LET g == DeleteRecord(h, name)
         IN  IsHeader(g) /\ Changed(h, g, name, Absent)
<1> DEFINE g == DeleteRecord(h, name)
           n == h[1][1]
           f == FindRecord(h, name)
           old(k) == IF k >= f THEN 1 + k ELSE k
<1>0. /\ g \in Pagefuls /\ g[1][1] \in 0 .. PAGE_SIZE - 1
      /\ f # 0 => /\ g[1][1] = n - 1
                  /\ \A k \in 1 .. n - 1 : g[1 + k] = IF k >= f THEN h[2 + k] ELSE h[1 + k]
  BY Zenon, DeleteTyped DEF IsHeader
<1>1. CASE f = 0
  <2>1. g = h
    BY Zenon, <1>1 DEF DeleteRecord
  <2>2. GetRootId(h, name) = Absent
    BY Zenon, <1>1 DEF GetRootId, HasRecord, Absent
  <2> QED BY Zenon, <2>1, <2>2 DEF Changed
<1>2. CASE f # 0
  <2>1. f \in 1 .. n /\ n \in 1 .. PAGE_SIZE - 1 /\ h[1 + f][1] = name
    BY Zenon, <1>2, FoundRecord, SomeRecord DEF IsHeader
  <2> HIDE DEF g, n, f
  <2>2. ASSUME NEW k \in 1 .. n - 1
        PROVE  old(k) \in 1 .. n /\ old(k) # f /\ g[1 + k] = h[1 + old(k)]
    <3>1. g[1 + k] = IF k >= f THEN h[2 + k] ELSE h[1 + k]
      BY Zenon, <1>0, <1>2
    <3>2. CASE k >= f
      <4>1. 1 + (1 + k) = 2 + k
        OBVIOUS
      <4> QED BY <4>1, <3>1, <3>2, <2>1
    <3>3. CASE ~(k >= f)
      BY <3>1, <3>3, <2>1
    <3> QED BY Zenon, <3>2, <3>3
  <2>3. \A j, k \in 1 .. n - 1 : old(j) = old(k) => j = k
    BY <2>1
  <2>4. \A i \in 1 .. n : i # f => \E k \in 1 .. n - 1 : old(k) = i
    <3> TAKE i \in 1 .. n
    <3> HAVE i # f
    <3>1. CASE i < f
      BY <3>1, <2>1
    <3>2. CASE i > f
      <4>1. i - 1 \in 1 .. n - 1 /\ i - 1 >= f /\ 1 + (i - 1) = i
        BY <3>2, <2>1
      <4> QED BY Zenon, <4>1
    <3> QED BY <3>1, <3>2, <2>1
  <2> HIDE DEF old
  <2>5. \A i, j \in 1 .. n : h[1 + i][1] = h[1 + j][1] => i = j
    BY Zenon DEF IsHeader, n
  <2>6. IsHeader(g)
    <3>1. \A k \in 1 .. n - 1 : g[1 + k][2] # Absent
      BY Zenon, <2>2 DEF IsHeader, n
    <3>2. \A j, k \in 1 .. n - 1 : g[1 + j][1] = g[1 + k][1] => j = k
      BY <2>2, <2>3, <2>5
    <3> QED BY Zenon, <1>0, <1>2, <3>1, <3>2 DEF IsHeader
  <2>7. ASSUME NEW m \in Names
        PROVE  GetRootId(g, m) = IF m = name THEN Absent ELSE GetRootId(h, m)
    <3>1. CASE m # name /\ \E i \in 1 .. n : h[1 + i][1] = m
      <4>1. PICK i \in 1 .. n : h[1 + i][1] = m
        BY Zenon, <3>1
      <4>2. PICK k \in 1 .. n - 1 : old(k) = i
        BY Zenon, <4>1, <3>1, <2>1, <2>4
      <4>3. GetRootId(h, h[1 + i][1]) = h[1 + i][2]
        BY Zenon, RootFound DEF n
      <4>4. k \in 1 .. g[1][1]
        BY Zenon, <1>0, <1>2
      <4>5. GetRootId(g, g[1 + k][1]) = g[1 + k][2]
        BY Zenon, <1>0, <4>4, <2>6, RootFound
      <4> QED BY Zenon, <4>1, <4>2, <4>3, <4>5, <2>2, <3>1
    <3>2. CASE m = name \/ \A i \in 1 .. n : h[1 + i][1] # m
      <4>1. m # name => GetRootId(h, m) = Absent
        BY Zenon, <3>2, RootMissing DEF n
      <4>2. ASSUME NEW k \in 1 .. g[1][1] PROVE g[1 + k][1] # m
        <5>1. k \in 1 .. n - 1
          BY Zenon, <1>0, <1>2
        <5>2. old(k) \in 1 .. n /\ old(k) # f /\ g[1 + k] = h[1 + old(k)]
          BY Zenon, <5>1, <2>2
        <5>3. CASE m = name
          BY Zenon, <5>2, <5>3, <2>1, <2>5
        <5>4. CASE m # name
          BY Zenon, <5>2, <5>4, <3>2
        <5> QED BY Zenon, <5>3, <5>4
      <4>3. GetRootId(g, m) = Absent
        BY Zenon, <4>2, <1>0, <2>6, RootMissing
      <4> QED BY Zenon, <4>1, <4>3
    <3> QED BY Zenon, <3>1, <3>2
  <2> QED BY Zenon, <2>6, <2>7 DEF Changed, g
<1> QED BY Zenon, <1>1, <1>2

(* UpdateRecord sets one root. *)
LEMMA UpdateTyped ==
  ASSUME NEW h \in Pagefuls, h[1][1] \in 0 .. PAGE_SIZE - 1, NEW name \in Names, NEW root_id \in Roots
  PROVE  LET g == UpdateRecord(h, name, root_id)
         IN  /\ g \in Pagefuls /\ g[1][1] = h[1][1]
             /\ IsHeader(h) /\ FindRecord(h, name) # 0 =>
                  \A k \in 1 .. h[1][1] :
                    g[1 + k] = IF k = FindRecord(h, name) THEN <<name, root_id>> ELSE h[1 + k]
<1> DEFINE f == FindRecord(h, name)
<1>1. CASE f = 0
  BY Zenon, <1>1 DEF UpdateRecord, HasRecord
<1>2. CASE f # 0
  <2> DEFINE a == 1 + f
             c == <<h[a][1], root_id>>
             g == UpdateRecord(h, name, root_id)
             n == h[1][1]
  <2>1. g = [h EXCEPT ![a] = c]
    BY Zenon, <1>2 DEF UpdateRecord, HasRecord
  <2>2. DOMAIN h = 1 .. PAGE_SIZE /\ 1 \in DOMAIN h /\ \A k \in 1 .. PAGE_SIZE : h[k] \in Cells
    BY PagesAssumption DEF Pagefuls
  <2>3. c[1] = h[a][1] /\ (a \in DOMAIN h => c \in Cells)
    BY Zenon, <2>2, NamesAssumption DEF Cells
  <2> HIDE DEF a, c, g, f, n
  <2>4. g \in Pagefuls /\ \A k \in 1 .. PAGE_SIZE : g[k] = IF k = a THEN c ELSE h[k]
    BY Zenon, <2>1, <2>2, <2>3 DEF Pagefuls
  <2>5. g[1][1] = h[1][1]
    BY Zenon, <2>2, <2>3, <2>4
  <2>6. ASSUME IsHeader(h), NEW k \in 1 .. n
        PROVE  g[1 + k] = IF k = f THEN <<name, root_id>> ELSE h[1 + k]
    <3>1. f \in 1 .. n /\ h[1 + f][1] = name
      BY Zenon, <1>2, <2>6, FoundRecord DEF f, n
    <3>2. 1 + k \in 1 .. PAGE_SIZE /\ (k = f <=> 1 + k = a)
      BY <3>1, PagesAssumption DEF a, n
    <3>3. c = <<name, root_id>>
      BY Zenon, <3>1 DEF a, c
    <3> QED BY Zenon, <3>2, <3>3, <2>4
  <2> QED BY Zenon, <2>4, <2>5, <2>6 DEF g, f, n
<1> QED BY Zenon, <1>1, <1>2

(* UpdateRecord leaves the roots of all names but its own. *)
LEMMA UpdateMaps ==
  ASSUME NEW h \in Pagefuls, IsHeader(h), NEW name \in Names, NEW root_id \in Roots
  PROVE  LET g == UpdateRecord(h, name, root_id)
         IN  /\ IsHeader(g)
             /\ Changed(h, g, name, IF GetRootId(h, name) # Absent THEN root_id ELSE Absent)
<1> DEFINE g == UpdateRecord(h, name, root_id)
           n == h[1][1]
           f == FindRecord(h, name)
<1>0. /\ g \in Pagefuls /\ g[1][1] = h[1][1]
      /\ f # 0 => \A k \in 1 .. n : g[1 + k] = IF k = f THEN <<name, root_id>> ELSE h[1 + k]
  BY Zenon, UpdateTyped DEF IsHeader
<1>1. CASE f = 0
  <2>1. g = h
    BY Zenon, <1>1 DEF UpdateRecord, HasRecord
  <2>2. GetRootId(h, name) = Absent
    BY Zenon, <1>1 DEF GetRootId, HasRecord, Absent
  <2> QED BY Zenon, <2>1, <2>2 DEF Changed
<1>2. CASE f # 0
  <2>1. f \in 1 .. n /\ h[1 + f][1] = name /\ GetRootId(h, name) # Absent
    BY <1>2, RootCases
  <2>2. ASSUME NEW k \in 1 .. n
        PROVE  g[1 + k][1] = h[1 + k][1] /\ g[1 + k][2] = IF k = f THEN root_id ELSE h[1 + k][2]
    <3>1. g[1 + k] = IF k = f THEN <<name, root_id>> ELSE h[1 + k]
      BY Zenon, <1>0, <1>2
    <3>2. <<name, root_id>>[1] = name /\ <<name, root_id>>[2] = root_id
      BY Zenon
    <3> QED BY Zenon, <3>1, <3>2, <2>1
  <2> HIDE DEF g, f
  <2>3. IsHeader(g)
    <3>1. ASSUME NEW k \in 1 .. n PROVE g[1 + k][2] # Absent
      BY Zenon, <2>2, NamesAssumption DEF IsHeader
    <3>2. \A j, k \in 1 .. n : g[1 + j][1] = g[1 + k][1] => j = k
      BY Zenon, <2>2 DEF IsHeader
    <3> QED BY Zenon, <1>0, <3>1, <3>2 DEF IsHeader
  <2>4. ASSUME NEW m \in Names
        PROVE  GetRootId(g, m) = IF m = name THEN root_id ELSE GetRootId(h, m)
    <3>1. CASE \E i \in 1 .. n : h[1 + i][1] = m
      <4>1. PICK i \in 1 .. n : h[1 + i][1] = m
        BY Zenon, <3>1
      <4>2. GetRootId(h, h[1 + i][1]) = h[1 + i][2]
        BY Zenon, RootFound
      <4>3. GetRootId(g, g[1 + i][1]) = g[1 + i][2]
        BY Zenon, <1>0, <2>3, RootFound
      <4>4. m = name <=> i = f
        BY Zenon, <4>1, <2>1 DEF IsHeader
      <4> QED BY Zenon, <4>1, <4>2, <4>3, <4>4, <2>2
    <3>2. CASE \A i \in 1 .. n : h[1 + i][1] # m
      <4>1. GetRootId(h, m) = Absent
        BY Zenon, <3>2, RootMissing
      <4>2. \A i \in 1 .. g[1][1] : g[1 + i][1] # m
        BY Zenon, <3>2, <2>2, <1>0
      <4>3. GetRootId(g, m) = Absent
        BY Zenon, <4>2, <1>0, <2>3, RootMissing
      <4> QED BY Zenon, <4>1, <4>3, <3>2, <2>1
    <3> QED BY Zenon, <3>1, <3>2
  <2> QED BY Zenon, <2>1, <2>3, <2>4 DEF Changed, g
<1> QED BY Zenon, <1>1, <1>2

-----------------------------------------------------------------------------
(* The conversion to int keeps what an int can hold and never adds. *)
LEMMA IntIs ==
  ASSUME NEW n \in Nat
  PROVE  AsInt(n) \in Int /\ AsInt(n) <= n /\ (n < IntHalf => AsInt(n) = n)
<1> DEFINE m == n % (2 * IntHalf)
<1>1. 2 * IntHalf \in Nat \ {0}
  BY PagesAssumption
<1>2. m \in 0 .. 2 * IntHalf - 1 /\ m <= n /\ (n < 2 * IntHalf => m = n)
  BY <1>1
<1> HIDE DEF m
<1>3. AsInt(n) = IF m < IntHalf THEN m ELSE m - 2 * IntHalf
  BY Zenon DEF AsInt, m
<1> QED BY <1>1, <1>2, <1>3, PagesAssumption

(* Beyond the end of a file there are zeros. *)
LEMMA CellTyped ==
  ASSUME NEW f \in Seq(Cells), NEW i \in Nat \ {0}
  PROVE  CellAt(f, i) \in Cells
<1>1. Zero \in Cells
  BY DEF Zero, Cells
<1>2. Len(f) \in Nat /\ \A k \in 1 .. Len(f) : f[k] \in Cells
  OBVIOUS
<1> QED BY <1>1, <1>2 DEF CellAt

(* File g is f with cell c at i, and with zeros up to there if f ended       *)
(* before.                                                                   *)
Put(f, g, i, c) ==
  /\ g \in Seq(Cells)
  /\ Len(g) = IF i > Len(f) THEN i ELSE Len(f)
  /\ \A k \in Nat \ {0} : CellAt(g, k) = IF k = i THEN c ELSE CellAt(f, k)

(* A write beyond the end leaves zeros in between. *)
LEMMA CellPut ==
  ASSUME NEW f \in Seq(Cells), NEW i \in Nat \ {0}, NEW c \in Cells
  PROVE  Put(f, PutAt(f, i, c), i, c)
<1> DEFINE m == IF i > Len(f) THEN i ELSE Len(f)
           g == PutAt(f, i, c)
<1>1. Len(f) \in Nat /\ m \in Nat /\ m >= i /\ m >= Len(f)
  OBVIOUS
<1>2. g = [k \in 1 .. m |-> IF k = i THEN c ELSE CellAt(f, k)]
  BY Zenon DEF PutAt
<1> HIDE DEF m, g
<1>3. \A k \in 1 .. m : (IF k = i THEN c ELSE CellAt(f, k)) \in Cells
  BY CellTyped
<1>4. g \in Seq(Cells) /\ Len(g) = m
  BY <1>1, <1>2, <1>3
<1>5. ASSUME NEW k \in Nat \ {0}
      PROVE  CellAt(g, k) = IF k = i THEN c ELSE CellAt(f, k)
  <2>1. CASE k <= m
    <3>1. k \in 1 .. m
      BY <1>1, <2>1
    <3>2. CellAt(g, k) = g[k]
      BY Zenon, <1>4, <2>1 DEF CellAt
    <3> QED BY Zenon, <1>2, <3>1, <3>2
  <2>2. CASE ~(k <= m)
    BY <1>1, <1>4, <2>2 DEF CellAt
  <2> QED BY Zenon, <2>1, <2>2
<1> QED BY Zenon, <1>4, <1>5 DEF m, g, Put

(* Cells of different pages lie at different places. *)
LEMMA PagesApart ==
  ASSUME NEW p \in Nat, NEW q \in Nat, p # q, NEW i \in 1 .. PAGE_SIZE, NEW j \in 1 .. PAGE_SIZE
  PROVE  p * PAGE_SIZE + i # q * PAGE_SIZE + j
<1>1. ASSUME NEW a \in Nat, NEW b \in Nat, a < b
      PROVE  a * PAGE_SIZE + PAGE_SIZE <= b * PAGE_SIZE
  <2>1. PICK d \in Nat : b = a + 1 + d
    <3>1. b - a - 1 \in Nat /\ b = a + 1 + (b - a - 1)
      BY <1>1
    <3> QED BY Zenon, <3>1
  <2>2. b * PAGE_SIZE = a * PAGE_SIZE + PAGE_SIZE + d * PAGE_SIZE
    BY <2>1, PagesAssumption
  <2>3. d * PAGE_SIZE \in Nat /\ a * PAGE_SIZE \in Nat
    BY PagesAssumption
  <2> QED BY <2>2, <2>3, PagesAssumption
<1>2. p * PAGE_SIZE \in Nat /\ q * PAGE_SIZE \in Nat /\ PAGE_SIZE \in Nat
  BY PagesAssumption
<1>3. CASE p < q
  <2>1. p * PAGE_SIZE + PAGE_SIZE <= q * PAGE_SIZE
    BY Zenon, <1>1, <1>3
  <2> QED BY <1>2, <2>1
<1>4. CASE q < p
  <2>1. q * PAGE_SIZE + PAGE_SIZE <= p * PAGE_SIZE
    BY Zenon, <1>1, <1>4
  <2> QED BY <1>2, <2>1
<1> QED BY <1>3, <1>4

(* A page of a file, cell by cell. *)
LEMMA PageTyped ==
  ASSUME NEW f \in Seq(Cells), NEW p \in Nat
  PROVE  /\ PageIn(f, p) \in Pagefuls
         /\ \A i \in 1 .. PAGE_SIZE : p * PAGE_SIZE + i \in Nat \ {0} /\ PageIn(f, p)[i] = CellAt(f, p * PAGE_SIZE + i)
<1>1. ASSUME NEW i \in 1 .. PAGE_SIZE
      PROVE  p * PAGE_SIZE + i \in Nat \ {0} /\ CellAt(f, p * PAGE_SIZE + i) \in Cells
  <2>1. p * PAGE_SIZE \in Nat
    BY PagesAssumption
  <2>2. p * PAGE_SIZE + i \in Nat \ {0}
    BY <2>1
  <2> QED BY Zenon, <2>2, CellTyped
<1> QED BY Zenon, <1>1 DEF PageIn, Pagefuls

(* A write into a page leaves the other pages alone, also when it makes the  *)
(* file longer.                                                              *)
LEMMA PagePut ==
  ASSUME NEW f \in Seq(Cells), NEW p \in Nat, NEW q \in Nat, p # q, NEW n \in 1 .. PAGE_SIZE, NEW c \in Cells
  PROVE  PageIn(PutAt(f, p * PAGE_SIZE + n, c), q) = PageIn(f, q)
<1> DEFINE k == p * PAGE_SIZE + n
           g == PutAt(f, k, c)
<1>1. k \in Nat \ {0}
  BY Zenon, PageTyped
<1>2. \A i \in Nat \ {0} : CellAt(g, i) = IF i = k THEN c ELSE CellAt(f, i)
  <2> HIDE DEF k
  <2>1. Put(f, g, k, c)
    BY Zenon, <1>1, CellPut
  <2> QED BY Zenon, <2>1 DEF Put
<1> HIDE DEF g
<1>3. ASSUME NEW i \in 1 .. PAGE_SIZE
      PROVE  CellAt(g, q * PAGE_SIZE + i) = CellAt(f, q * PAGE_SIZE + i)
  <2>1. q * PAGE_SIZE + i # k
    BY Zenon, PagesApart
  <2>2. q * PAGE_SIZE + i \in Nat \ {0}
    BY Zenon, PageTyped
  <2> QED BY Zenon, <1>2, <2>1, <2>2
<1>4. PageIn(g, q) = PageIn(f, q)
  BY Zenon, <1>3 DEF PageIn
<1> QED BY Zenon, <1>4 DEF g

(* The empty page is a page. *)
LEMMA ZeroTyped == ZeroPage \in Pagefuls /\ \A i \in 1 .. PAGE_SIZE : ZeroPage[i] = Zero
<1>1. Zero \in Cells
  BY DEF Zero, Cells
<1> QED BY Zenon, <1>1 DEF ZeroPage, Pagefuls

(* The empty page is a header page without records. *)
LEMMA ZeroHeader == IsHeader(ZeroPage)
<1>1. ZeroPage[1] = Zero
  BY ZeroTyped, PagesAssumption
<1>2. ZeroPage[1][1] = 0
  BY <1>1 DEF Zero
<1> QED BY <1>2, PagesAssumption DEF IsHeader

(* A sequence is its cells in order. *)
LEMMA CellsInOrder ==
  ASSUME NEW s \in Seq(Cells)
  PROVE  s = [i \in 1 .. Len(s) |-> s[i]]
<1>1. s \in [1 .. Len(s) -> Cells]
  OBVIOUS
<1> QED BY Zenon, <1>1

(* Appending to a concatenation appends to its second part. *)
LEMMA ConcatOne ==
  ASSUME NEW a \in Seq(Cells), NEW b \in Seq(Cells), NEW x \in Cells
  PROVE  Append(a \o b, x) = a \o Append(b, x)
<1>1. Len(a) \in Nat /\ Len(b) \in Nat /\ a \o b \in Seq(Cells) /\ Append(b, x) \in Seq(Cells)
  OBVIOUS
<1> DEFINE l == Append(a \o b, x)
           r == a \o Append(b, x)
<1>2. l \in Seq(Cells) /\ r \in Seq(Cells) /\ Len(l) = Len(a) + Len(b) + 1 /\ Len(r) = Len(a) + Len(b) + 1
  BY <1>1
<1>3. ASSUME NEW i \in 1 .. Len(a) + Len(b) + 1
      PROVE  l[i] = r[i]
  BY <1>1
<1> HIDE DEF l, r
<1>4. l = [i \in 1 .. Len(l) |-> l[i]] /\ r = [i \in 1 .. Len(r) |-> r[i]]
  BY Zenon, <1>2, CellsInOrder
<1>5. l = r
  BY Zenon, <1>2, <1>3, <1>4
<1> QED BY Zenon, <1>5 DEF l, r

(* Each step of the log keeps its invariant. *)
LEMMA LogSteps ==
  ASSUME LogInv, LogStep
  PROVE  LogInv'
<1> USE DEF LogInv, LogGrowsAtEnd
<1> DEFINE c == log_call
<1>0. SubSeq(c.data, 1, 0) = <<>> /\ SubSeq(<<>>, 1, 0) = <<>>
  OBVIOUS
<1>1. ASSUME NEW b \in {1, 2}, NEW entry \in LogEntries, WriteLog(b, entry)
      PROVE  LogInv'
  <2>1. entry \in Seq(Cells) /\ log_file = logged \o <<>>
    BY <1>1, LogAssumption DEF WriteLog, LogIdle
  <2>2. CASE entry = <<>>
    BY Zenon, <1>1, <2>2 DEF WriteLog
  <2>3. CASE entry # <<>>
    <3>1. Len(entry) \in Nat \ {0} /\ SubSeq(entry, 1, 0) = <<>>
      BY <2>1, <2>3
    <3>2. log_call' = [at |-> IF log_bad' THEN "leave" ELSE "transfer", data |-> entry, n |-> 0]
          /\ log_file' = log_file /\ logged' = logged
      BY Zenon, <1>1, <2>3 DEF WriteLog
    <3>3. log_call'.data = entry /\ log_call'.n = 0 /\ log_call'.at \in {"leave", "transfer"}
      BY Zenon, <3>2
    <3>4. log_call' = [at |-> log_call'.at, data |-> log_call'.data, n |-> log_call'.n]
      BY Zenon, <3>2
    <3> QED BY <2>1, <3>1, <3>2, <3>3, <3>4
  <2> QED BY Zenon, <2>2, <2>3
<1>2. ASSUME TransferLog PROVE LogInv'
  <2>1. c.n + 1 \in 1 .. Len(c.data) /\ c.data[c.n + 1] \in Cells /\ Len(c.data) \in Nat
    BY <1>2 DEF TransferLog
  <2>2. log_call' = [at |-> IF c.n + 1 = Len(c.data) THEN "leave" ELSE "transfer", data |-> c.data, n |-> c.n + 1]
    BY Zenon, <1>2 DEF TransferLog
  <2>3. log_file' = Append(log_file, c.data[c.n + 1]) /\ logged' = logged
    BY Zenon, <1>2 DEF TransferLog
  <2>4. SubSeq(c.data, 1, c.n + 1) = Append(SubSeq(c.data, 1, c.n), c.data[c.n + 1])
    BY <2>1
  <2>5. log_file' = logged \o SubSeq(c.data, 1, c.n + 1)
    <3> DEFINE d == SubSeq(c.data, 1, c.n)
               x == c.data[c.n + 1]
    <3>1. d \in Seq(Cells) /\ x \in Cells
      BY <2>1
    <3> HIDE DEF d, x
    <3>2. logged \in Seq(Cells)
      BY Zenon
    <3>3. Append(logged \o d, x) = logged \o Append(d, x)
      BY <3>1, <3>2, ConcatOne, Zenon
    <3> QED BY Zenon, <2>3, <2>4, <3>3 DEF d, x
  <2>6. log_call'.data = c.data /\ log_call'.n = c.n + 1
        /\ log_call'.at = (IF c.n + 1 = Len(c.data) THEN "leave" ELSE "transfer")
    BY Zenon, <2>2
  <2>7. log_call' = [at |-> log_call'.at, data |-> log_call'.data, n |-> log_call'.n]
    BY Zenon, <2>2
  <2>8. log_file' \in Seq(Cells)
    BY <2>1, <2>3
  <2>9. log_call'.at # "idle" /\ (log_call'.at = "transfer" => c.n + 1 < Len(c.data))
    BY <2>1, <2>6
  <2>10. logged' \in Seq(Cells) /\ log_call'.data \in Seq(Cells) /\ log_call'.n \in 0 .. Len(log_call'.data)
    BY <2>1, <2>3, <2>6
  <2>11. log_file' = logged' \o SubSeq(log_call'.data, 1, log_call'.n)
    BY Zenon, <2>3, <2>5, <2>6
  <2>12. log_call'.at = "transfer" => log_call'.n < Len(log_call'.data)
    BY Zenon, <2>6, <2>9
  <2> QED BY Zenon, <2>7, <2>8, <2>9, <2>10, <2>11, <2>12
<1>3. ASSUME FailsLog PROVE LogInv'
  <2>1. log_call' = [at |-> "leave", data |-> c.data, n |-> c.n] /\ UNCHANGED <<log_file, logged>>
    BY Zenon, <1>3 DEF FailsLog
  <2>2. log_call'.data = c.data /\ log_call'.n = c.n /\ log_call'.at = "leave"
    BY Zenon, <2>1
  <2> QED BY Zenon, <2>1, <2>2
<1>4. ASSUME LeaveLog PROVE LogInv'
  <2>1. log_call' = LogIdle /\ log_file' = log_file /\ logged' = log_file
    BY Zenon, <1>4 DEF LeaveLog
  <2>2. log_call'.data = <<>> /\ log_call'.n = 0 /\ log_call'.at = "idle" /\ log_call' = LogIdle
    BY Zenon, <2>1 DEF LogIdle
  <2>3. log_call' = [at |-> log_call'.at, data |-> log_call'.data, n |-> log_call'.n]
    BY Zenon, <2>1, <2>2 DEF LogIdle
  <2>4. log_file = log_file \o <<>>
    OBVIOUS
  <2> QED BY <1>0, <2>1, <2>2, <2>3, <2>4
<1>5. ASSUME NEW offset \in 0 .. MaxLog, NEW size \in 1 .. MaxLog, ReadLog(size, offset)
      PROVE  LogInv'
  BY Zenon, <1>5 DEF ReadLog
<1> QED BY Zenon, <1>1, <1>2, <1>3, <1>4, <1>5 DEF LogStep

-----------------------------------------------------------------------------
(* Its part about the disk managers. *)
DbInv == DbTypes /\ Shapes /\ FileMode /\ MemoryMode /\ Intact

(* Thread t, and no other, goes on to call c. *)
Moves(t, c) ==
  /\ call' \in [Threads -> Calls] /\ call'[t] = c
  /\ \A u \in Threads : u # t => call'[u] = call[u]

(* An assignment to one call. *)
LEMMA MovesTo ==
  ASSUME DbTypes, NEW t \in Threads, NEW c \in Calls, call' = [call EXCEPT ![t] = c]
  PROVE  Moves(t, c)
BY Zenon DEF DbTypes, Moves

(* The fields of a call. *)
LEMMA CallFields ==
  ASSUME DbTypes, NEW t \in Threads
  PROVE  /\ call[t] \in Calls
         /\ call[t].at \in {"idle", "enter", "latch", "transfer", "leave"}
         /\ call[t].op \in {"none", "read", "write"}
         /\ call[t].page \in Pages /\ call[t].page \in Nat
         /\ call[t].n \in 0 .. PAGE_SIZE /\ call[t].buf \in Pagefuls
BY Zenon, PagesAssumption DEF DbTypes, Calls

(* What is less far is within reach. *)
LEMMA ReachLess ==
  ASSUME NEW x \in Nat, NEW y, Reach(y), x <= y
  PROVE  Reach(x)
<1>1. PICK p \in Pages : y <= PAGE_SIZE * (1 + p)
  BY Zenon DEF Reach
<1>2. PAGE_SIZE * (1 + p) \in Int /\ y \in Nat
  BY PagesAssumption DEF Reach
<1>3. x <= PAGE_SIZE * (1 + p)
  BY <1>1, <1>2
<1> QED BY Zenon, <1>3 DEF Reach

(* Call c at another place, with n cells done and buffer b. *)
With(c, at, n, b) == [c EXCEPT !.at = at, !.n = n, !.buf = b]

(* What With has to do. *)
Becomes(c, d, at, n, b) ==
  d \in Calls /\ d.at = at /\ d.n = n /\ d.buf = b /\ d.op = c.op /\ d.page = c.page

(* It does so. *)
LEMMA CallWith ==
  ASSUME NEW c \in Calls, NEW at \in {"idle", "enter", "latch", "transfer", "leave"},
         NEW n \in 0 .. PAGE_SIZE, NEW b \in Pagefuls
  PROVE  Becomes(c, With(c, at, n, b), at, n, b)
BY Zenon DEF Calls, With, Becomes

(* An idle thread may start a call, or change its own buffer. *)
LEMMA StartKeeps ==
  ASSUME DbInv, NEW t \in Threads, NEW c \in Calls, Moves(t, c), CallShape(c),
         At(t) = "idle", c.at \in {"idle", "enter"},
         UNCHANGED <<in_memory, file, pos, bad, data_, latch, page_latch, last, torn>>
  PROVE  DbInv'
<1> USE DEF DbInv, Moves
<1>1. DbTypes'
  BY Zenon DEF DbTypes, Reach
<1>2. Shapes'
  BY Zenon DEF Shapes
<1>3. FileMode'
  <2>1. FileCall(c, file, pos, bad)
    BY Zenon DEF FileCall
  <2>2. ASSUME NEW u \in Threads PROVE At(u)' = At(u) \/ u = t
    BY Zenon DEF At
  <2> QED BY Zenon, <2>1, <2>2, ThreadsAssumption DEF FileMode, At
<1>4. MemoryMode'
  <2>1. MemoryCall(c, data_)
    BY Zenon DEF MemoryCall
  <2> QED BY <2>1 DEF MemoryMode, At, Op, Under
<1>5. Intact'
  <2>1. ASSUME NEW p \in Pages, Writing(p) PROVE Writing(p)'
    BY Zenon, <2>1 DEF Writing, At, Op
  <2> QED BY Zenon, <2>1 DEF Intact, Stored
<1> QED BY Zenon, <1>1, <1>2, <1>3, <1>4, <1>5
(* A step of the thread that has db_io_latch_ or takes it. *)
Holds(t, c) ==
  /\ ~in_memory /\ latch \in {t, NoOne} /\ latch' = t
  /\ c \in Calls /\ Moves(t, c) /\ CallShape(c) /\ c.at \in {"transfer", "leave"}
  /\ file' \in Seq(Cells) /\ Reach(Len(file')) /\ Reach(pos') /\ bad' \in BOOLEAN /\ torn' \in SUBSET Pages
  /\ FileCall(c, file', pos', bad')
  /\ UNCHANGED <<in_memory, data_, page_latch, last>>

(* Such a step keeps all but Intact: the calls of other threads are not on   *)
(* the stream.                                                               *)
LEMMA HolderKeeps ==
  ASSUME DbInv, NEW t \in Threads, NEW c, Holds(t, c)
  PROVE  DbTypes' /\ Shapes' /\ FileMode' /\ MemoryMode'
<1> USE DEF DbInv, Moves, Holds
<1>1. DbTypes'
  BY Zenon DEF DbTypes, Reach
<1>2. Shapes'
  BY Zenon DEF Shapes
<1>3. FileMode'
  <2>1. ASSUME NEW u \in Threads, u # t
        PROVE  At(u) \notin {"transfer", "leave"} /\ At(u)' = At(u) /\ FileCall(call'[u], file', pos', bad')
    BY <2>1, ThreadsAssumption DEF FileMode, At, FileCall
  <2>2. At(t)' \in {"transfer", "leave"} /\ FileCall(call'[t], file', pos', bad')
    BY Zenon DEF At
  <2> QED BY Zenon, <2>1, <2>2 DEF FileMode
<1>4. MemoryMode'
  BY Zenon DEF MemoryMode
<1> QED BY Zenon, <1>1, <1>2, <1>3, <1>4

(* Taking the latch and seeking. *)
LEMMA EnterTo ==
  ASSUME DbInv, NEW t \in Threads, NEW c \in Calls, call' = [call EXCEPT ![t] = c], CallShape(c),
         c.at \in {"transfer", "leave"}, ~in_memory, latch = NoOne, latch' = t,
         Reach(pos'), FileCall(c, file, pos', bad),
         UNCHANGED <<in_memory, file, bad, data_, page_latch, last, torn>>
  PROVE  DbInv'
<1>1. Moves(t, c)
  BY Zenon, MovesTo DEF DbInv
<1>2. Holds(t, c)
  BY Zenon, <1>1 DEF Holds, DbInv, DbTypes
<1>3. DbTypes' /\ Shapes' /\ FileMode' /\ MemoryMode'
  BY Zenon, <1>2, HolderKeeps
<1>4. \A p \in Pages : ~Writing(p)
  BY Zenon, ThreadsAssumption DEF DbInv, FileMode, Writing
<1>5. Intact'
  BY Zenon, <1>4 DEF DbInv, Intact, Stored
<1> QED BY Zenon, <1>3, <1>5 DEF DbInv

(* Enter keeps the invariant, with the seek of either call. *)
LEMMA EnterKeeps ==
  ASSUME DbInv, NEW t \in Threads, Enter(t)
  PROVE  DbInv'
<1> DEFINE c == call[t]
           q == c.page * PAGE_SIZE
           offset == AsInt(q)
<1>0. /\ ~in_memory /\ c.at = "enter" /\ latch = NoOne /\ latch' = t
      /\ UNCHANGED <<in_memory, file, bad, data_, page_latch, last, torn>>
  BY Zenon DEF Enter, At
<1>1. /\ c \in Calls /\ c.op \in {"read", "write"} /\ c.n = 0 /\ c.page \in Pages /\ c.page \in Nat
      /\ c.buf \in Pagefuls /\ call \in [Threads -> Calls] /\ file \in Seq(Cells)
  <2>1. CallShape(c) /\ DbTypes
    BY Zenon DEF DbInv, Shapes
  <2> QED BY Zenon, <1>0, <2>1, CallFields DEF CallShape, DbTypes
<1>2. q \in Nat /\ Reach(q) /\ Reach(pos) /\ Reach(Len(file)) /\ PAGE_SIZE \in Nat \ {0}
  <2>1. q \in Nat /\ q <= PAGE_SIZE * (1 + c.page)
    BY <1>1, PagesAssumption
  <2> QED BY Zenon, <1>1, <2>1, PagesAssumption DEF DbInv, DbTypes, Reach
<1>3. ASSUME NEW at \in {"transfer", "leave"}, NEW n \in {0, PAGE_SIZE}, NEW b \in Pagefuls,
             call' = [call EXCEPT ![t] = With(c, at, n, b)],
             at = "leave" /\ c.op = "write" => n = 0,
             Reach(pos'),
             at = "transfer" => ~bad /\ n = 0,
             at = "transfer" /\ c.op = "write" => pos' = q,
             at = "transfer" /\ c.op = "read" => pos' <= Len(file) /\ (Addressable(c.page) => pos' = q)
      PROVE  DbInv'
  <2> DEFINE d == With(c, at, n, b)
  <2>1. /\ d \in Calls /\ d.at = at /\ d.n = n /\ d.buf = b /\ d.op = c.op /\ d.page = c.page
    <3>1. n \in 0 .. PAGE_SIZE
      BY <1>2
    <3>2. at \in {"idle", "enter", "latch", "transfer", "leave"} /\ b \in Pagefuls
      BY Zenon
    <3>3. c \in Calls
      BY Zenon, <1>1
    <3> HIDE DEF c
    <3>4. Becomes(c, d, at, n, b)
      BY Zenon, <3>1, <3>2, <3>3, CallWith
    <3> QED BY Zenon, <3>4 DEF Becomes
  <2>2. call' = [call EXCEPT ![t] = d]
    BY Zenon, <1>3
  <2> HIDE DEF d
  <2>3. CallShape(d)
    BY <1>1, <1>2, <1>3, <2>1 DEF CallShape
  <2>4. FileCall(d, file, pos', bad)
    BY <1>1, <1>2, <1>3, <2>1 DEF FileCall
  <2> QED BY Zenon, <1>0, <1>3, <2>1, <2>2, <2>3, <2>4, EnterTo
<1>4. ASSUME NEW at \in {"transfer", "leave"}, Goto(t, at, 0)
      PROVE  call' = [call EXCEPT ![t] = With(c, at, 0, c.buf)]
  <2>1. With(c, at, 0, c.buf) = [c EXCEPT !.at = at, !.n = 0]
    BY Zenon, <1>1 DEF Calls, With
  <2> QED BY Zenon, <1>1, <1>4, <2>1 DEF Goto
<1>5. CASE c.op = "write"
  <2>1. SeekWrite(t)
    BY Zenon, <1>5 DEF Enter, Op
  <2>2. CASE bad
    <3>1. Goto(t, "leave", 0) /\ pos' = pos
      BY Zenon, <2>1, <2>2 DEF SeekWrite
    <3> QED BY Zenon, <1>1, <1>2, <1>3, <1>4, <3>1
  <2>3. CASE ~bad
    <3>1. Goto(t, "transfer", 0) /\ pos' = q
      BY Zenon, <2>1, <2>3 DEF SeekWrite
    <3> QED BY Zenon, <1>1, <1>2, <1>3, <1>4, <1>5, <2>3, <3>1
  <2> QED BY Zenon, <2>2, <2>3
<1>6. CASE c.op = "read"
  <2>1. SeekRead(t)
    BY Zenon, <1>6 DEF Enter, Op
  <2>2. CASE offset > GetFileSize(file) \/ bad
    <3>1. Goto(t, "leave", 0) /\ pos' = pos
      BY Zenon, <2>1, <2>2 DEF SeekRead
    <3> QED BY Zenon, <1>1, <1>2, <1>3, <1>4, <3>1
  <2>3. CASE ~(offset > GetFileSize(file) \/ bad) /\ offset < 0
    <3>1. /\ pos' = pos
          /\ call' = [call EXCEPT ![t].at = "leave", ![t].n = PAGE_SIZE, ![t].buf = ZeroPage]
      BY Zenon, <2>1, <2>3 DEF SeekRead
    <3>2. call' = [call EXCEPT ![t] = With(c, "leave", PAGE_SIZE, ZeroPage)]
      BY Zenon, <1>1, <3>1 DEF With
    <3> QED BY Zenon, <1>2, <1>3, <1>6, <3>1, <3>2, ZeroTyped
  <2>4. CASE ~(offset > GetFileSize(file) \/ bad) /\ ~(offset < 0)
    <3>1. Goto(t, "transfer", 0) /\ pos' = offset
      BY Zenon, <2>1, <2>4 DEF SeekRead
    <3>2. offset \in Int /\ (q < IntHalf => offset = q)
      BY Zenon, <1>2, IntIs
    <3>3. GetFileSize(file) \in Int /\ GetFileSize(file) <= Len(file) /\ Len(file) \in Nat
      BY <1>1, IntIs DEF GetFileSize
    <3> HIDE DEF offset
    <3>4. offset \in Nat /\ offset <= Len(file) /\ ~bad
      BY <2>4, <3>2, <3>3
    <3>5. Reach(offset)
      BY Zenon, <1>2, <3>4, ReachLess
    <3>6. Addressable(c.page) => offset = q
      BY Zenon, <3>2 DEF Addressable
    <3> QED BY Zenon, <1>1, <1>2, <1>3, <1>4, <1>6, <3>1, <3>4, <3>5, <3>6
  <2> QED BY Zenon, <2>2, <2>3, <2>4
<1> QED BY Zenon, <1>1, <1>5, <1>6

-----------------------------------------------------------------------------
(* Goto in terms of With. *)
LEMMA GotoIs ==
  ASSUME DbTypes, NEW t \in Threads, NEW at, NEW n, Goto(t, at, n)
  PROVE  call' = [call EXCEPT ![t] = With(call[t], at, n, call[t].buf)]
<1>1. call[t] \in Calls /\ call \in [Threads -> Calls]
  BY Zenon DEF DbTypes
<1>2. With(call[t], at, n, call[t].buf) = [call[t] EXCEPT !.at = at, !.n = n]
  BY Zenon, <1>1 DEF With, Calls
<1> QED BY Zenon, <1>1, <1>2 DEF Goto

(* A thread that stays where it is writes what it wrote. *)
LEMMA SameWriting ==
  ASSUME NEW t \in Threads, NEW d, Moves(t, d),
         d.at = call[t].at, d.op = call[t].op, d.page = call[t].page, NEW p
  PROVE  Writing(p)' <=> Writing(p)
<1>1. \A u \in Threads : call'[u].at = call[u].at /\ call'[u].op = call[u].op /\ call'[u].page = call[u].page
  BY Zenon DEF Moves
<1> QED BY Zenon, <1>1 DEF Writing, At, Op

(* A thread that moves cells of a file, and what is known of it. *)
Sending(t) ==
  LET c == call[t]
  IN /\ ~in_memory /\ latch = t /\ c.at = "transfer" /\ c.n \in 0 .. PAGE_SIZE - 1
     /\ c \in Calls /\ c.op \in {"read", "write"} /\ c.page \in Pages /\ c.page \in Nat /\ c.buf \in Pagefuls
     /\ call \in [Threads -> Calls] /\ file \in Seq(Cells) /\ Len(file) \in Nat /\ pos \in Nat
     /\ Reach(Len(file)) /\ Reach(pos) /\ bad = FALSE /\ torn \in SUBSET Pages
     /\ FileCall(c, file, pos, bad) /\ PAGE_SIZE \in Nat \ {0} /\ c.page * PAGE_SIZE \in Nat

(* Transfer and Fails find a thread that is sending. *)
LEMMA SendingIs ==
  ASSUME DbInv, NEW t \in Threads, ~in_memory, At(t) = "transfer", call[t].n < PAGE_SIZE
  PROVE  Sending(t)
<1> DEFINE c == call[t]
<1>1. DbTypes /\ CallShape(c)
  BY Zenon DEF DbInv, Shapes
<1>2. latch = t /\ FileCall(c, file, pos, bad)
  BY Zenon DEF DbInv, FileMode
<1>3. c \in Calls /\ c.at = "transfer" /\ c.op \in {"none", "read", "write"} /\ c.page \in Pages /\ c.page \in Nat
      /\ c.n \in 0 .. PAGE_SIZE /\ c.buf \in Pagefuls
  BY Zenon, <1>1, CallFields DEF At
<1>4. c.op \in {"read", "write"}
  BY Zenon, <1>1, <1>3 DEF CallShape
<1>5. ~bad /\ bad \in BOOLEAN
  BY Zenon, <1>1, <1>2, <1>3 DEF FileCall, DbTypes
<1>6. PAGE_SIZE \in Nat \ {0} /\ c.page * PAGE_SIZE \in Nat /\ c.n \in 0 .. PAGE_SIZE - 1
  BY <1>3, PagesAssumption
<1>7. /\ call \in [Threads -> Calls] /\ file \in Seq(Cells) /\ Len(file) \in Nat /\ pos \in Nat
      /\ Reach(Len(file)) /\ Reach(pos) /\ torn \in SUBSET Pages
  BY Zenon, <1>1 DEF DbTypes, Reach
<1> QED BY Zenon, <1>2, <1>3, <1>4, <1>5, <1>6, <1>7 DEF Sending

(* A cell is read: the buffer agrees with the file one cell further, also at *)
(* the end of the file.                                                      *)
LEMMA ReadKeeps ==
  ASSUME DbInv, NEW t \in Threads, Sending(t), call[t].op = "read", TransferRead(t),
         UNCHANGED <<in_memory, bad, data_, latch, page_latch, last, torn>>
  PROVE  DbInv'
<1> DEFINE c == call[t]
           n == c.n
           q == c.page * PAGE_SIZE
           ends == pos >= Len(file)
           b == [i \in 1 .. PAGE_SIZE |->
                   IF i = n + 1 \/ (i > n /\ ends) THEN CellAt(file, pos + 1) ELSE c.buf[i]]
           m == IF ends THEN PAGE_SIZE ELSE n + 1
           d == With(c, "transfer", m, b)
<1>a. /\ c \in Calls /\ c.at = "transfer" /\ c.page \in Pages /\ c.page \in Nat /\ c.buf \in Pagefuls
      /\ n \in 0 .. PAGE_SIZE - 1 /\ PAGE_SIZE \in Nat \ {0} /\ q \in Nat
  BY Zenon DEF Sending
<1>b. /\ ~in_memory /\ latch = t /\ call \in [Threads -> Calls]
      /\ file \in Seq(Cells) /\ Len(file) \in Nat /\ pos \in Nat
      /\ Reach(Len(file)) /\ Reach(pos) /\ bad = FALSE /\ torn \in SUBSET Pages /\ FileCall(c, file, pos, bad)
  BY Zenon DEF Sending
<1>1. /\ pos' = IF ends THEN pos ELSE pos + 1
      /\ file' = file
      /\ call' = [call EXCEPT ![t] = d]
  <2>1. d = [c EXCEPT !.buf = b, !.n = m]
    BY Zenon, <1>a DEF With, Calls
  <2> HIDE DEF d
  <2>2. call' = [call EXCEPT ![t] = [c EXCEPT !.buf = b, !.n = m]]
    BY Zenon, <1>b DEF TransferRead
  <2> QED BY Zenon, <2>1, <2>2 DEF TransferRead
<1>2. b \in Pagefuls
  <2>1. CellAt(file, pos + 1) \in Cells
    BY <1>b, CellTyped
  <2> QED BY Zenon, <1>a, <2>1 DEF Pagefuls
<1>3. \A i \in 1 .. PAGE_SIZE : b[i] = IF i = n + 1 \/ (i > n /\ ends) THEN CellAt(file, pos + 1) ELSE c.buf[i]
  BY Zenon
<1>4. m \in 1 .. PAGE_SIZE /\ n \in 0 .. PAGE_SIZE - 1
  BY <1>a
<1> HIDE DEF b
<1>5. d \in Calls /\ d.at = "transfer" /\ d.n = m /\ d.buf = b /\ d.op = "read" /\ d.page = c.page
  <2>1. m \in 0 .. PAGE_SIZE /\ "transfer" \in {"idle", "enter", "latch", "transfer", "leave"}
        /\ c \in Calls /\ c.op = "read"
    BY <1>4, <1>a
  <2> HIDE DEF m, c
  <2>2. Becomes(c, d, "transfer", m, b)
    BY Zenon, <1>2, <2>1, CallWith
  <2> QED BY Zenon, <2>1, <2>2 DEF Becomes
<1> HIDE DEF d
<1>6. Moves(t, d)
  BY Zenon, <1>1, <1>5, MovesTo DEF DbInv
<1>7. FileCall(d, file', pos', bad')
  <2>1. pos <= Len(file) /\ ~bad
    BY Zenon, <1>a, <1>b DEF FileCall
  <2>2. pos' <= Len(file)
    BY <1>1, <1>b, <2>1
  <2>3. ASSUME Addressable(c.page)
        PROVE  (m < PAGE_SIZE => pos' = q + m) /\ \A i \in 1 .. m : b[i] = CellAt(file, q + i)
    <3>1. pos = q + n /\ \A i \in 1 .. n : c.buf[i] = CellAt(file, q + i)
      BY <2>3, <1>a, <1>b DEF FileCall
    <3>2. m < PAGE_SIZE => pos' = q + m
      BY <1>1, <1>a, <1>b, <3>1
    <3>3. ASSUME NEW i \in 1 .. m PROVE b[i] = CellAt(file, q + i)
      <4>0. i \in 1 .. PAGE_SIZE /\ i \in Nat /\ n \in Nat /\ q \in Nat
        BY <1>4, <1>a
      <4>1. CASE i <= n
        <5>1. ~(i = n + 1 \/ (i > n /\ ends)) /\ i \in 1 .. n
          BY <4>0, <4>1
        <5> QED BY Zenon, <1>3, <4>0, <5>1, <3>1
      <4>2. CASE i = n + 1
        <5>1. q + i = pos + 1
          <6> HIDE DEF n, q
          <6> QED BY <4>0, <4>2, <3>1
        <5> QED BY Zenon, <1>3, <4>0, <4>2, <5>1
      <4>3. CASE i > n + 1
        <5>1. ends
          BY <4>0, <4>3, <1>4
        <5>2. b[i] = CellAt(file, pos + 1)
          BY <1>3, <4>0, <4>3, <5>1
        <5>3. ~(pos + 1 <= Len(file)) /\ ~(q + i <= Len(file))
          BY <5>1, <4>0, <4>3, <3>1, <1>b
        <5> QED BY Zenon, <5>2, <5>3 DEF CellAt
      <4> QED BY <4>0, <4>1, <4>2, <4>3
    <3> QED BY Zenon, <3>2, <3>3
  <2> HIDE DEF m
  <2>4. FileCall(d, file, pos', bad)
    BY Zenon, <1>5, <2>1, <2>2, <2>3 DEF FileCall
  <2> QED BY Zenon, <1>1, <2>4
<1>8. CallShape(d)
  BY Zenon, <1>5 DEF CallShape
<1>9. Reach(pos')
  <2>1. pos' \in Nat /\ pos' <= Len(file)
    BY <1>1, <1>a, <1>b DEF FileCall
  <2> QED BY Zenon, <2>1, <1>b, ReachLess
<1>10. Holds(t, d)
  BY Zenon, <1>1, <1>b, <1>5, <1>6, <1>7, <1>8, <1>9 DEF Holds
<1>11. DbTypes' /\ Shapes' /\ FileMode' /\ MemoryMode'
  BY Zenon, <1>10, HolderKeeps
<1>12. \A p \in Pages : Writing(p)' <=> Writing(p)
  <2>1. d.at = c.at /\ d.op = c.op /\ d.page = c.page
    BY Zenon, <1>a, <1>5
  <2> QED BY Zenon, <2>1, <1>6, SameWriting
<1>13. Intact'
  BY Zenon, <1>1, <1>12 DEF DbInv, Intact, Stored
<1> QED BY Zenon, <1>11, <1>13 DEF DbInv

(* A cell is written: only the page that is being written changes. *)
LEMMA WriteKeeps ==
  ASSUME DbInv, NEW t \in Threads, Sending(t), call[t].op = "write", TransferWrite(t),
         UNCHANGED <<in_memory, bad, data_, latch, page_latch, last, torn>>
  PROVE  DbInv'
<1> DEFINE c == call[t]
           n == c.n
           q == c.page * PAGE_SIZE
           x == c.buf[n + 1]
           d == With(c, "transfer", n + 1, c.buf)
<1>a. /\ c \in Calls /\ c.at = "transfer" /\ c.page \in Pages /\ c.page \in Nat /\ c.buf \in Pagefuls
      /\ n \in 0 .. PAGE_SIZE - 1 /\ PAGE_SIZE \in Nat \ {0} /\ q \in Nat
  BY Zenon DEF Sending
<1>b. /\ ~in_memory /\ latch = t /\ call \in [Threads -> Calls]
      /\ file \in Seq(Cells) /\ Len(file) \in Nat /\ pos \in Nat
      /\ Reach(Len(file)) /\ Reach(pos) /\ bad = FALSE /\ torn \in SUBSET Pages /\ FileCall(c, file, pos, bad)
  BY Zenon DEF Sending
<1>0. pos = q + n /\ \A i \in 1 .. n : CellAt(file, q + i) = c.buf[i]
  BY Zenon, <1>a, <1>b DEF FileCall
<1>1. file' = PutAt(file, q + (n + 1), x) /\ pos' = q + (n + 1) /\ call' = [call EXCEPT ![t] = d]
  <2>1. pos + 1 = q + (n + 1)
    BY <1>0, <1>a
  <2>2. Goto(t, "transfer", n + 1)
    BY Zenon DEF TransferWrite
  <2>3. call' = [call EXCEPT ![t] = d]
    BY Zenon, <2>2, GotoIs DEF DbInv
  <2> QED BY Zenon, <2>1, <2>3 DEF TransferWrite
<1>2. n + 1 \in 1 .. PAGE_SIZE /\ x \in Cells
  BY <1>a DEF Pagefuls
<1>3. d \in Calls /\ d.at = "transfer" /\ d.n = n + 1 /\ d.buf = c.buf /\ d.op = "write" /\ d.page = c.page
  <2> DEFINE m == n + 1
  <2>1. m \in 0 .. PAGE_SIZE /\ "transfer" \in {"idle", "enter", "latch", "transfer", "leave"}
        /\ c \in Calls /\ c.buf \in Pagefuls /\ c.op = "write"
    BY <1>2, <1>a
  <2> DEFINE e == With(c, "transfer", m, c.buf)
  <2>2. d = e
    BY Zenon
  <2>3. e \in Calls /\ e.at = "transfer" /\ e.n = m /\ e.buf = c.buf /\ e.op = c.op /\ e.page = c.page
    <3> HIDE DEF m, c
    <3>1. Becomes(c, e, "transfer", m, c.buf)
      BY Zenon, <2>1, CallWith
    <3> QED BY Zenon, <3>1 DEF Becomes
  <2> HIDE DEF d, e
  <2> QED BY Zenon, <2>1, <2>2, <2>3
<1> HIDE DEF d
<1>4. Moves(t, d)
  BY Zenon, <1>1, <1>3, MovesTo DEF DbInv
<1>5. /\ file' \in Seq(Cells)
      /\ Len(file') = IF q + (n + 1) > Len(file) THEN q + (n + 1) ELSE Len(file)
      /\ \A k \in Nat \ {0} : CellAt(file', k) = IF k = q + (n + 1) THEN x ELSE CellAt(file, k)
  <2> DEFINE k == q + (n + 1)
  <2>1. k \in Nat \ {0}
    BY <1>a
  <2>2. file' = PutAt(file, k, x)
    BY Zenon, <1>1
  <2>3. file \in Seq(Cells) /\ x \in Cells
    BY Zenon, <1>2, <1>b
  <2> HIDE DEF k, x
  <2>4. Put(file, PutAt(file, k, x), k, x)
    BY Zenon, <2>1, <2>3, CellPut
  <2>5. Put(file, file', k, x)
    BY Zenon, <2>2, <2>4
  <2> QED BY Zenon, <2>5 DEF k, Put
<1>6. q + (n + 1) \in Nat /\ Reach(q + (n + 1))
  <2>1. q + (n + 1) \in Nat /\ q + (n + 1) <= PAGE_SIZE * (1 + c.page)
    BY <1>a
  <2> QED BY Zenon, <1>a, <2>1 DEF Reach
<1>7. Reach(Len(file')) /\ Reach(pos')
  BY Zenon, <1>1, <1>5, <1>6, <1>b
<1>8. FileCall(d, file', pos', bad')
  <2>1. ASSUME NEW i \in 1 .. n + 1 PROVE CellAt(file', q + i) = c.buf[i]
    <3>1. q + i \in Nat \ {0}
      BY <1>a
    <3>2. CASE i = n + 1
      BY Zenon, <3>1, <3>2, <1>5
    <3>3. CASE i # n + 1
      <4>1. i \in 1 .. n /\ q + i # q + (n + 1)
        <5>1. n \in Nat /\ q \in Nat
          BY <1>a
        <5> HIDE DEF n, q
        <5> QED BY <3>3, <5>1
      <4> QED BY Zenon, <3>1, <4>1, <1>0, <1>5
    <3> QED BY Zenon, <3>2, <3>3
  <2> QED BY Zenon, <1>1, <1>3, <1>b, <2>1 DEF FileCall
<1>9. CallShape(d)
  BY Zenon, <1>3 DEF CallShape
<1>10. Holds(t, d)
  BY Zenon, <1>1, <1>b, <1>3, <1>4, <1>5, <1>7, <1>8, <1>9 DEF Holds
<1>11. DbTypes' /\ Shapes' /\ FileMode' /\ MemoryMode'
  BY Zenon, <1>10, HolderKeeps
<1>12. \A p \in Pages : Writing(p)' <=> Writing(p)
  <2>1. d.at = c.at /\ d.op = c.op /\ d.page = c.page
    BY Zenon, <1>a, <1>3
  <2> QED BY Zenon, <2>1, <1>4, SameWriting
<1>13. Writing(c.page)
  BY Zenon, <1>a DEF Writing, At, Op
<1>14. ASSUME NEW p \in Pages, p # c.page PROVE PageIn(file', p) = PageIn(file, p)
  <2>1. p \in Nat
    BY Zenon, PagesAssumption
  <2> DEFINE m == n + 1
             r == c.page
  <2>2. m \in 1 .. PAGE_SIZE /\ r \in Nat /\ r # p /\ file \in Seq(Cells) /\ file' = PutAt(file, r * PAGE_SIZE + m, x)
    BY Zenon, <1>1, <1>2, <1>14, <1>a, <1>b
  <2> HIDE DEF x, m, r
  <2> QED BY Zenon, <1>2, <2>1, <2>2, PagePut
<1>15. Intact'
  BY Zenon, <1>1, <1>b, <1>12, <1>13, <1>14 DEF DbInv, Intact, Stored
<1> QED BY Zenon, <1>11, <1>15 DEF DbInv

(* An I/O error: the page that was being written is torn. *)
LEMMA FailKeeps ==
  ASSUME DbInv, NEW t \in Threads, Fails(t)
  PROVE  DbInv'
<1> DEFINE c == call[t]
           d == With(c, "leave", c.n, c.buf)
<1>0. Sending(t)
  BY Zenon, SendingIs DEF Fails
<1> USE DEF Sending
<1>1. /\ bad' = TRUE /\ call' = [call EXCEPT ![t] = d]
      /\ torn' = IF c.op = "write" THEN torn \cup {c.page} ELSE torn
      /\ UNCHANGED <<in_memory, file, pos, data_, latch, page_latch, last>>
  <2>1. call' = [call EXCEPT ![t] = d]
    BY Zenon, GotoIs DEF DbInv, Fails
  <2> QED BY Zenon, <2>1 DEF Fails, Op
<1>2. d \in Calls /\ d.at = "leave" /\ d.n = c.n /\ d.buf = c.buf /\ d.op = c.op /\ d.page = c.page
  <2>1. c.n \in 0 .. PAGE_SIZE /\ "leave" \in {"idle", "enter", "latch", "transfer", "leave"}
        /\ c \in Calls /\ c.buf \in Pagefuls
    BY <1>0
  <2> HIDE DEF c
  <2>2. Becomes(c, d, "leave", c.n, c.buf)
    BY Zenon, <2>1, CallWith
  <2> QED BY Zenon, <2>2 DEF Becomes
<1> HIDE DEF d
<1>3. Moves(t, d)
  BY Zenon, <1>1, <1>2, MovesTo DEF DbInv
<1>4. FileCall(d, file', pos', bad') /\ CallShape(d)
  BY <1>0, <1>2 DEF FileCall, CallShape
<1>5. Holds(t, d)
  BY Zenon, <1>0, <1>1, <1>2, <1>3, <1>4 DEF Holds
<1>6. DbTypes' /\ Shapes' /\ FileMode' /\ MemoryMode'
  BY Zenon, <1>5, HolderKeeps
<1>7. ASSUME NEW p \in Pages, p \notin torn', Writing(p) PROVE Writing(p)'
  <2>1. PICK u \in Threads : Op(u) = "write" /\ call[u].page = p /\ At(u) = "transfer"
    BY Zenon, <1>7 DEF Writing
  <2>2. u # t
    BY Zenon, <1>1, <1>7, <2>1 DEF Op
  <2>3. call'[u] = call[u]
    BY Zenon, <1>3, <2>2 DEF Moves
  <2> QED BY Zenon, <2>1, <2>3 DEF Writing, At, Op
<1>8. Intact'
  BY Zenon, <1>1, <1>7 DEF DbInv, Intact, Stored
<1> QED BY Zenon, <1>6, <1>8 DEF DbInv

(* Transfer keeps the invariant. *)
LEMMA TransferKeeps ==
  ASSUME DbInv, NEW t \in Threads, Transfer(t)
  PROVE  DbInv'
<1>1. Sending(t)
  BY Zenon, SendingIs DEF Transfer
<1>2. UNCHANGED <<in_memory, bad, data_, latch, page_latch, last, torn>>
  BY Zenon DEF Transfer
<1>3. CASE call[t].op = "read"
  BY Zenon, <1>1, <1>2, <1>3, ReadKeeps DEF Transfer, Op
<1>4. CASE call[t].op = "write"
  BY Zenon, <1>1, <1>2, <1>4, WriteKeeps DEF Transfer, Op
<1> QED BY Zenon, <1>1, <1>3, <1>4 DEF Sending

-----------------------------------------------------------------------------
(* An idle call. *)
LEMMA IdleCall ==
  ASSUME NEW b \in Pagefuls
  PROVE  /\ Idle(b) \in Calls /\ CallShape(Idle(b)) /\ Idle(b).at = "idle" /\ Idle(b).op = "none" /\ Idle(b).buf = b
         /\ Idle(b).n = 0 /\ Idle(b).page = 0
<1>1. 0 \in Pages /\ 0 \in 0 .. PAGE_SIZE
  BY OwnerAssumption, PagesAssumption DEF HEADER_PAGE_ID
<1> QED BY Zenon, <1>1 DEF Idle, Calls, CallShape

(* A write that is done has the page stored, and it is the last one. *)
LEMMA LeaveKeeps ==
  ASSUME DbInv, NEW t \in Threads, Leave(t)
  PROVE  DbInv'
<1> DEFINE c == call[t]
           d == Idle(c.buf)
           whole == c.op = "write" /\ c.n = PAGE_SIZE
<1>0. DbTypes /\ CallShape(c) /\ FileMode /\ MemoryMode /\ Intact
  BY Zenon DEF DbInv, Shapes
<1>1. /\ c \in Calls /\ c.page \in Pages /\ c.page \in Nat /\ c.n \in 0 .. PAGE_SIZE /\ c.buf \in Pagefuls
      /\ c.op \in {"none", "read", "write"} /\ PAGE_SIZE \in Nat \ {0}
  BY Zenon, <1>0, CallFields, PagesAssumption
<1>2. /\ c.at = "leave" \/ (c.at = "transfer" /\ c.n = PAGE_SIZE)
      /\ call' = [call EXCEPT ![t] = d]
      /\ latch' = IF latch = t THEN NoOne ELSE latch
      /\ page_latch' = [p \in Pages |-> page_latch[p] \ {t}]
      /\ whole => last' = [last EXCEPT ![c.page] = c.buf] /\ torn' = torn \ {c.page}
      /\ ~whole => last' = last /\ torn' = torn
      /\ UNCHANGED <<in_memory, file, pos, bad, data_>>
  BY Zenon DEF Leave, At, Op
<1>3. d \in Calls /\ CallShape(d) /\ d.at = "idle" /\ d.op = "none"
  BY Zenon, <1>1, IdleCall
<1> HIDE DEF d
<1>4. Moves(t, d)
  BY Zenon, <1>0, <1>2, <1>3, MovesTo
<1>5. whole => c.at = "transfer"
  BY <1>0, <1>1, <1>2 DEF CallShape
<1>6. DbTypes'
  <2>1. last' \in [Pages -> Pagefuls] /\ torn' \in SUBSET Pages
    BY Zenon, <1>0, <1>1, <1>2 DEF DbTypes
  <2>2. page_latch' \in [Pages -> SUBSET Threads] /\ latch' \in Threads \cup {NoOne}
    BY Zenon, <1>0, <1>2 DEF DbTypes
  <2> QED BY Zenon, <1>0, <1>2, <1>4, <2>1, <2>2 DEF DbTypes, Reach, Moves
<1>7. Shapes'
  BY Zenon, <1>3, <1>4 DEF DbInv, Shapes, Moves
<1>8. FileMode'
  <2>1. ASSUME ~in_memory
        PROVE  FileMode'
    <3>1. latch = t /\ latch' = NoOne
      BY Zenon, <1>0, <1>2, <2>1 DEF FileMode, At
    <3>2. ASSUME NEW u \in Threads
          PROVE  At(u)' \notin {"transfer", "leave"} /\ FileCall(call'[u], file', pos', bad') /\ latch' # u
      <4>1. CASE u = t
        BY Zenon, <4>1, <1>3, <1>4, <3>1, ThreadsAssumption DEF Moves, At, FileCall
      <4>2. CASE u # t
        BY Zenon, <4>2, <1>0, <1>2, <1>4, <2>1, <3>1, ThreadsAssumption DEF Moves, At, FileMode
      <4> QED BY Zenon, <4>1, <4>2
    <3> QED BY Zenon, <3>2 DEF FileMode
  <2> QED BY Zenon, <1>2, <2>1 DEF FileMode
<1>9. MemoryMode'
  <2>1. ASSUME in_memory
        PROVE  MemoryMode'
    <3> USE <1>0, <1>2, <2>1 DEF Moves, MemoryMode
    <3>1. torn' = {} /\ ~bad' /\ latch' = latch
      BY Zenon DEF At
    <3>2. ASSUME NEW u \in Threads
          PROVE  /\ latch' = u <=> At(u)' = "latch"
                 /\ MemoryCall(call'[u], data_')
                 /\ \A p \in Pages : u \in page_latch'[p] <=> Under(u)' /\ call'[u].page = p
      <4>1. CASE u = t
        BY Zenon, <4>1, <1>3, <1>4, <3>1 DEF At, Under, MemoryCall, DbTypes
      <4>2. CASE u # t
        BY <4>2, <1>4, <3>1 DEF At, Under, DbTypes
      <4> QED BY Zenon, <4>1, <4>2
    <3>3. ASSUME NEW u \in Threads, NEW v \in Threads, u # v, Under(u)', Under(v)', call'[u].page = call'[v].page
          PROVE  Op(u)' = "read"
      <4>1. u # t /\ v # t
        BY Zenon, <1>3, <1>4, <3>3 DEF Under, At
      <4>2. call'[u] = call[u] /\ call'[v] = call[v]
        BY Zenon, <1>4, <4>1
      <4> QED BY <3>3, <4>2 DEF Under, At, Op
    <3> QED BY Zenon, <3>1, <3>2, <3>3
  <2> QED BY Zenon, <1>2, <2>1 DEF MemoryMode
<1>10. whole => c.buf = Stored(c.page)
  <2>1. ASSUME whole, in_memory PROVE c.buf = data_[c.page] /\ c.page \in DOMAIN data_
    <3>1. MemoryCall(c, data_)
      BY Zenon, <1>0, <2>1 DEF MemoryMode
    <3>2. c.page \in DOMAIN data_ /\ \A i \in 1 .. PAGE_SIZE : c.buf[i] = data_[c.page][i]
      BY Zenon, <1>5, <2>1, <3>1 DEF MemoryCall
    <3>3. data_[c.page] \in Pagefuls
      BY Zenon, <1>0, <3>2 DEF DbTypes
    <3> QED BY <1>1, <3>2, <3>3 DEF Pagefuls
  <2>2. ASSUME whole, ~in_memory PROVE c.buf = PageIn(file, c.page)
    <3>1. FileCall(c, file, pos, bad)
      BY Zenon, <1>0, <2>2 DEF FileMode
    <3>2. \A i \in 1 .. PAGE_SIZE : CellAt(file, c.page * PAGE_SIZE + i) = c.buf[i]
      BY Zenon, <1>5, <2>2, <3>1 DEF FileCall
    <3>3. \A i \in 1 .. PAGE_SIZE : PageIn(file, c.page)[i] = c.buf[i]
      BY Zenon, <3>2 DEF PageIn
    <3> QED BY Zenon, <1>1, <3>3 DEF PageIn, Pagefuls
  <2> QED BY Zenon, <2>1, <2>2 DEF Stored
<1>11. Intact'
  <2> SUFFICES ASSUME NEW p \in Pages, p \notin torn', ~Writing(p)'
               PROVE  last'[p] = Stored(p)'
    BY Zenon DEF Intact
  <2>0. Stored(p)' = Stored(p)
    BY Zenon, <1>2 DEF Stored
  <2>1. CASE whole /\ p = c.page
    <3>1. last'[p] = c.buf
      BY Zenon, <1>0, <1>2, <2>1 DEF DbTypes
    <3> QED BY Zenon, <1>10, <2>0, <2>1, <3>1
  <2>2. CASE ~(whole /\ p = c.page)
    <3>1. ~Writing(p)
      <4> SUFFICES ASSUME Writing(p) PROVE FALSE
        BY Zenon
      <4>1. PICK u \in Threads : Op(u) = "write" /\ call[u].page = p /\ At(u) = "transfer"
        BY Zenon DEF Writing
      <4>2. CASE u = t
        BY Zenon, <1>2, <2>2, <4>1, <4>2 DEF Op, At
      <4>3. CASE u # t
        <5>1. call'[u] = call[u]
          BY Zenon, <1>4, <4>3 DEF Moves
        <5> QED BY Zenon, <4>1, <5>1 DEF Writing, Op, At
      <4> QED BY Zenon, <4>2, <4>3
    <3>2. p \notin torn /\ last'[p] = last[p]
      BY Zenon, <1>0, <1>2, <2>2 DEF DbTypes
    <3> QED BY Zenon, <1>0, <2>0, <3>1, <3>2 DEF Intact
  <2> QED BY Zenon, <2>1, <2>2
<1> QED BY Zenon, <1>6, <1>7, <1>8, <1>9, <1>11 DEF DbInv

(* A page that is not in memory is added with zeros by a write, and is       *)
(* reported missing by a read.                                               *)
LEMMA EnterMemoryKeeps ==
  ASSUME DbInv, NEW t \in Threads, EnterMemory(t)
  PROVE  DbInv'
<1> DEFINE c == call[t]
           p == c.page
           gone == c.op = "read" /\ p \notin DOMAIN data_
           at == IF gone THEN "leave" ELSE "latch"
           d == With(c, at, 0, c.buf)
<1>0. DbTypes /\ CallShape(c) /\ FileMode /\ MemoryMode /\ Intact
  BY Zenon DEF DbInv, Shapes
<1>1. /\ c \in Calls /\ p \in Pages /\ c.n \in 0 .. PAGE_SIZE /\ c.buf \in Pagefuls /\ PAGE_SIZE \in Nat \ {0}
  BY Zenon, <1>0, CallFields, PagesAssumption
<1>2. /\ in_memory /\ c.at = "enter" /\ latch = NoOne /\ Goto(t, at, 0)
      /\ gone => data_' = data_ /\ latch' = NoOne
      /\ ~gone => latch' = t /\ data_' = [q \in DOMAIN data_ \cup {p} |-> IF q \in DOMAIN data_ THEN data_[q] ELSE ZeroPage]
      /\ UNCHANGED <<in_memory, file, pos, bad, page_latch, last, torn>>
  BY Zenon DEF EnterMemory, At, Op
<1>3. call' = [call EXCEPT ![t] = d]
  BY Zenon, <1>0, <1>2, GotoIs
<1>4. d \in Calls /\ d.at = at /\ d.n = 0 /\ d.buf = c.buf /\ d.op = c.op /\ d.page = p
  <2>1. at \in {"idle", "enter", "latch", "transfer", "leave"} /\ 0 \in 0 .. PAGE_SIZE /\ c \in Calls /\ c.buf \in Pagefuls
    BY <1>1
  <2> DEFINE z == 0
  <2>2. z \in 0 .. PAGE_SIZE
    BY Zenon, <2>1
  <2> HIDE DEF at, c, z
  <2> DEFINE e == With(c, at, z, c.buf)
  <2>3. e \in Calls /\ e.at = at /\ e.n = z /\ e.buf = c.buf /\ e.op = c.op /\ e.page = c.page
    <3>1. Becomes(c, e, at, z, c.buf)
      BY Zenon, <2>1, <2>2, CallWith
    <3> QED BY Zenon, <3>1 DEF Becomes
  <2>4. d = e
    BY Zenon DEF z
  <2> HIDE DEF d, e
  <2> QED BY Zenon, <2>3, <2>4 DEF p, z
<1> HIDE DEF d
<1>5. Moves(t, d)
  BY Zenon, <1>0, <1>3, <1>4, MovesTo
<1>6. /\ DOMAIN data_' \subseteq Pages /\ data_' \in [DOMAIN data_' -> Pagefuls]
      /\ DOMAIN data_ \subseteq DOMAIN data_' /\ (~gone => p \in DOMAIN data_')
      /\ \A q \in DOMAIN data_ : data_'[q] = data_[q]
      /\ \A q \in DOMAIN data_' : q \notin DOMAIN data_ => data_'[q] = ZeroPage
  <2>1. DOMAIN data_ \subseteq Pages /\ data_ \in [DOMAIN data_ -> Pagefuls]
    BY Zenon, <1>0 DEF DbTypes
  <2>2. CASE gone
    BY Zenon, <1>2, <2>1, <2>2
  <2>3. CASE ~gone
    BY Zenon, <1>1, <1>2, <2>1, <2>3, ZeroTyped
  <2> QED BY Zenon, <2>2, <2>3
<1>7. DbTypes'
  <2>1. latch' \in Threads \cup {NoOne}
    BY Zenon, <1>2
  <2> QED BY Zenon, <1>0, <1>2, <1>5, <1>6, <2>1 DEF DbTypes, Reach, Moves
<1>8. CallShape(d)
  BY Zenon, <1>0, <1>1, <1>2, <1>4 DEF CallShape
<1>9. Shapes'
  BY Zenon, <1>8, <1>5 DEF DbInv, Shapes, Moves
<1>10. FileMode'
  BY Zenon, <1>2 DEF FileMode
<1>11. c.op \in {"read", "write"}
  <2>1. c.op \in {"none", "read", "write"}
    BY Zenon, <1>0, CallFields
  <2> QED BY Zenon, <1>0, <1>2, <2>1 DEF CallShape
<1>12. MemoryMode'
  <2> USE DEF Moves, MemoryMode
  <2>1. MemoryCall(d, data_')
    BY Zenon, <1>4, <1>6 DEF MemoryCall
  <2>2. ASSUME NEW u \in Threads PROVE MemoryCall(call'[u], data_')
    <3>1. CASE u = t
      BY Zenon, <3>1, <2>1, <1>5
    <3>2. CASE u # t
      <4>1. MemoryCall(call[u], data_) /\ call'[u] = call[u]
        BY Zenon, <1>0, <1>2, <1>5, <3>2
      <4>2. call[u].at \in {"latch", "transfer"} => data_'[call[u].page] = data_[call[u].page]
        BY Zenon, <1>6, <4>1 DEF MemoryCall
      <4> QED BY Zenon, <1>6, <4>1, <4>2 DEF MemoryCall
    <3> QED BY Zenon, <3>1, <3>2
  <2>3. ASSUME NEW u \in Threads PROVE (latch' = u <=> At(u)' = "latch") /\ Under(u)' = Under(u) /\ (Under(u) => call'[u] = call[u])
    <3>1. CASE u = t
      BY Zenon, <3>1, <1>2, <1>4, <1>5, ThreadsAssumption DEF At, Under
    <3>2. CASE u # t
      BY <3>2, <1>0, <1>2, <1>5, ThreadsAssumption DEF At, Under
    <3> QED BY Zenon, <3>1, <3>2
  <2>4. \A u \in Threads, q \in Pages : u \in page_latch'[q] <=> Under(u)' /\ call'[u].page = q
    BY <1>0, <1>2, <2>3
  <2>5. \A u, v \in Threads : u # v /\ Under(u)' /\ Under(v)' /\ call'[u].page = call'[v].page => Op(u)' = "read"
    BY <1>0, <1>2, <2>3 DEF Op
  <2> QED BY Zenon, <1>0, <1>2, <2>2, <2>3, <2>4, <2>5
<1>13. Intact'
  <2>1. ASSUME NEW q \in Pages, Writing(q) PROVE Writing(q)'
    <3>1. PICK u \in Threads : Op(u) = "write" /\ call[u].page = q /\ At(u) = "transfer"
      BY Zenon, <2>1 DEF Writing
    <3>2. call'[u] = call[u]
      BY Zenon, <1>2, <1>5, <3>1 DEF Moves, At
    <3> QED BY Zenon, <3>1, <3>2 DEF Writing, Op, At
  <2>2. ASSUME NEW q \in Pages PROVE Stored(q)' = Stored(q)
    BY Zenon, <1>2, <1>6 DEF Stored
  <2> QED BY Zenon, <1>0, <1>2, <2>1, <2>2 DEF Intact
<1> QED BY Zenon, <1>7, <1>9, <1>10, <1>12, <1>13 DEF DbInv

(* The latch of a page is given to readers together or to one writer. *)
LEMMA LatchKeeps ==
  ASSUME DbInv, NEW t \in Threads, LatchPage(t)
  PROVE  DbInv'
<1> DEFINE c == call[t]
           p == c.page
           d == With(c, "transfer", 0, c.buf)
<1>0. DbTypes /\ CallShape(c) /\ FileMode /\ MemoryMode /\ Intact
  BY Zenon DEF DbInv, Shapes
<1>1. /\ c \in Calls /\ p \in Pages /\ c.n \in 0 .. PAGE_SIZE /\ c.buf \in Pagefuls /\ PAGE_SIZE \in Nat \ {0}
  BY Zenon, <1>0, CallFields, PagesAssumption
<1>2. /\ c.at = "latch" /\ \A u \in page_latch[p] : c.op = "read" /\ call[u].op = "read"
      /\ page_latch' = [page_latch EXCEPT ![p] = @ \cup {t}] /\ latch' = NoOne
      /\ Goto(t, "transfer", 0)
      /\ UNCHANGED <<in_memory, file, pos, bad, data_, last, torn>>
  BY Zenon DEF LatchPage, At, Op
<1>3. in_memory
  BY Zenon, <1>0, <1>2 DEF DbTypes, FileMode, FileCall
<1>4. call' = [call EXCEPT ![t] = d]
  BY Zenon, <1>0, <1>2, GotoIs
<1>5. d \in Calls /\ d.at = "transfer" /\ d.n = 0 /\ d.buf = c.buf /\ d.op = c.op /\ d.page = p
  <2>1. "transfer" \in {"idle", "enter", "latch", "transfer", "leave"} /\ 0 \in 0 .. PAGE_SIZE /\ c \in Calls /\ c.buf \in Pagefuls
    BY <1>1
  <2> HIDE DEF c
  <2>2. Becomes(c, d, "transfer", 0, c.buf)
    BY Zenon, <2>1, CallWith
  <2> QED BY Zenon, <2>2 DEF p, Becomes
<1> HIDE DEF d
<1>6. Moves(t, d)
  BY Zenon, <1>0, <1>4, <1>5, MovesTo
<1>7. DbTypes'
  <2>1. page_latch' \in [Pages -> SUBSET Threads]
    BY Zenon, <1>0, <1>1, <1>2 DEF DbTypes
  <2> QED BY Zenon, <1>0, <1>2, <1>6, <2>1 DEF DbTypes, Reach, Moves
<1>8. Shapes'
  <2>1. CallShape(d)
    BY Zenon, <1>0, <1>2, <1>5 DEF CallShape
  <2> QED BY Zenon, <2>1, <1>6 DEF DbInv, Shapes, Moves
<1>9. FileMode'
  BY Zenon, <1>2, <1>3 DEF FileMode
<1>10. MemoryMode'
  <2> USE DEF Moves, MemoryMode
  <2>0. latch = t /\ MemoryCall(c, data_)
    BY Zenon, <1>0, <1>2, <1>3 DEF At
  <2>1. ASSUME NEW u \in Threads PROVE MemoryCall(call'[u], data_')
    <3>1. MemoryCall(d, data_)
      BY <1>2, <1>5, <2>0 DEF MemoryCall
    <3> QED BY Zenon, <1>0, <1>2, <1>3, <1>6, <3>1
  <2>2. ASSUME NEW u \in Threads PROVE (latch' = u <=> At(u)' = "latch") /\ (u # t => Under(u)' = Under(u) /\ call'[u] = call[u])
    <3>1. CASE u = t
      BY Zenon, <3>1, <1>2, <1>5, <1>6, ThreadsAssumption DEF At, Under
    <3>2. CASE u # t
      BY Zenon, <3>2, <1>0, <1>2, <1>3, <1>6, <2>0, ThreadsAssumption DEF At, Under
    <3> QED BY Zenon, <3>1, <3>2
  <2>3. Under(t)' /\ call'[t].page = p /\ Op(t)' = c.op /\ ~Under(t)
    BY Zenon, <1>2, <1>5, <1>6 DEF Under, At, Op
  <2>4. \A q \in Pages : page_latch'[q] = IF q = p THEN page_latch[q] \cup {t} ELSE page_latch[q]
    BY Zenon, <1>0, <1>1, <1>2 DEF DbTypes
  <2>5. \A u \in Threads, q \in Pages : u \in page_latch[q] <=> Under(u) /\ call[u].page = q
    BY Zenon, <1>0, <1>3
  <2>6. ASSUME NEW u \in Threads, NEW q \in Pages PROVE u \in page_latch'[q] <=> Under(u)' /\ call'[u].page = q
    <3>1. CASE u = t /\ q = p
      <4>1. t \in page_latch'[q]
        BY Zenon, <3>1, <2>4
      <4> QED BY Zenon, <3>1, <4>1, <2>3
    <3>2. CASE u = t /\ q # p
      <4>1. t \notin page_latch'[q]
        BY Zenon, <3>2, <2>3, <2>4, <2>5
      <4> QED BY Zenon, <3>2, <4>1, <2>3
    <3>3. CASE u # t
      <4>1. u \in page_latch'[q] <=> u \in page_latch[q]
        BY Zenon, <3>3, <2>4
      <4> QED BY Zenon, <3>3, <4>1, <2>2, <2>5
    <3> QED BY Zenon, <3>1, <3>2, <3>3
  <2>7. ASSUME NEW u \in Threads, NEW v \in Threads, u # v, Under(u)', Under(v)', call'[u].page = call'[v].page
        PROVE  Op(u)' = "read"
    <3>1. CASE u = t
      <4>1. v \in page_latch[p]
        BY <3>1, <2>2, <2>3, <2>5, <2>7, <1>1
      <4> QED BY Zenon, <3>1, <4>1, <1>2, <2>3
    <3>2. CASE v = t
      <4>1. u \in page_latch[p] /\ call'[u] = call[u]
        BY <3>2, <2>2, <2>3, <2>5, <2>7, <1>1
      <4> QED BY Zenon, <4>1, <1>2 DEF Op
    <3>3. CASE u # t /\ v # t
      <4>1. call'[u] = call[u] /\ call'[v] = call[v] /\ Under(u) /\ Under(v)
        BY Zenon, <3>3, <2>2, <2>7
      <4> QED BY Zenon, <4>1, <2>7, <1>0, <1>3 DEF Op
    <3> QED BY Zenon, <3>1, <3>2, <3>3
  <2> QED BY Zenon, <1>0, <1>2, <1>3, <2>1, <2>2, <2>6, <2>7
<1>11. Intact'
  <2>1. ASSUME NEW q \in Pages, Writing(q) PROVE Writing(q)'
    <3>1. PICK u \in Threads : Op(u) = "write" /\ call[u].page = q /\ At(u) = "transfer"
      BY Zenon, <2>1 DEF Writing
    <3>2. call'[u] = call[u]
      BY Zenon, <1>2, <1>6, <3>1 DEF Moves, At
    <3> QED BY Zenon, <3>1, <3>2 DEF Writing, Op, At
  <2>2. ASSUME NEW q \in Pages PROVE Stored(q)' = Stored(q)
    BY Zenon, <1>2 DEF Stored
  <2> QED BY Zenon, <1>0, <1>2, <2>1, <2>2 DEF Intact
<1> QED BY Zenon, <1>7, <1>8, <1>9, <1>10, <1>11 DEF DbInv

-----------------------------------------------------------------------------
(* A thread that moves cells of a page in memory, and what is known of it. *)
Copying(t) ==
  LET c == call[t]
  IN /\ in_memory /\ c.at = "transfer" /\ c.n + 1 \in 1 .. PAGE_SIZE
     /\ c \in Calls /\ c.op \in {"read", "write"} /\ c.page \in Pages /\ c.n \in Nat /\ c.buf \in Pagefuls
     /\ call \in [Threads -> Calls] /\ c.page \in DOMAIN data_
     /\ DOMAIN data_ \subseteq Pages /\ data_ \in [DOMAIN data_ -> Pagefuls]
     /\ MemoryCall(c, data_) /\ PAGE_SIZE \in Nat \ {0}

(* TransferMemory finds a thread that is copying. *)
LEMMA CopyingIs ==
  ASSUME DbInv, NEW t \in Threads, in_memory, At(t) = "transfer", call[t].n + 1 <= PAGE_SIZE
  PROVE  Copying(t)
<1> DEFINE c == call[t]
<1>1. DbTypes /\ CallShape(c) /\ MemoryCall(c, data_)
  BY Zenon DEF DbInv, Shapes, MemoryMode
<1>2. c \in Calls /\ c.at = "transfer" /\ c.op \in {"none", "read", "write"} /\ c.page \in Pages
      /\ c.n \in 0 .. PAGE_SIZE /\ c.buf \in Pagefuls
  BY Zenon, <1>1, CallFields DEF At
<1>3. c.op \in {"read", "write"}
  BY Zenon, <1>1, <1>2 DEF CallShape
<1>4. PAGE_SIZE \in Nat \ {0} /\ c.n + 1 \in 1 .. PAGE_SIZE /\ c.n \in Nat
  BY <1>2, PagesAssumption
<1>5. c.page \in DOMAIN data_
  BY Zenon, <1>1, <1>2 DEF MemoryCall
<1> QED BY Zenon, <1>1, <1>2, <1>3, <1>4, <1>5 DEF Copying, DbTypes

(* Moving a cell under the latch of the page. *)
LEMMA CopyTo ==
  ASSUME DbInv, NEW t \in Threads, NEW d \in Calls, Moves(t, d), in_memory, CallShape(d), Under(t),
         d.at = call[t].at, d.op = call[t].op, d.page = call[t].page,
         DOMAIN data_' = DOMAIN data_, data_' \in [DOMAIN data_ -> Pagefuls], MemoryCall(d, data_'),
         \A q \in DOMAIN data_ : q # d.page => data_'[q] = data_[q],
         d.op = "read" => data_' = data_,
         d.op \in {"read", "write"},
         UNCHANGED <<in_memory, file, pos, bad, latch, page_latch, last, torn>>
  PROVE  DbInv'
<1>0. DbTypes /\ Shapes /\ FileMode /\ MemoryMode /\ Intact
  BY Zenon DEF DbInv
<1>1. DbTypes'
  BY Zenon, <1>0 DEF DbTypes, Reach, Moves
<1>2. Shapes'
  BY Zenon, <1>0 DEF Shapes, Moves
<1>3. FileMode'
  BY Zenon DEF FileMode
<1>4. \A u \in Threads : call'[u].at = call[u].at /\ call'[u].op = call[u].op /\ call'[u].page = call[u].page
  BY Zenon DEF Moves
<1>5. MemoryMode'
  <2> USE DEF MemoryMode
  <2>1. ASSUME NEW u \in Threads PROVE MemoryCall(call'[u], data_')
    <3>1. CASE u = t
      BY Zenon, <3>1 DEF Moves
    <3>2. CASE u # t
      <4>1. MemoryCall(call[u], data_) /\ call'[u] = call[u]
        BY Zenon, <1>0, <3>2 DEF Moves
      <4>2. call[u].at = "transfer" => d.op = "read" \/ call[u].page # d.page
        BY <1>0, <3>2 DEF Under, At, Op
      <4>3. call[u].at = "transfer" => data_'[call[u].page] = data_[call[u].page]
        BY Zenon, <4>1, <4>2 DEF MemoryCall
      <4> QED BY Zenon, <4>1, <4>3 DEF MemoryCall
    <3> QED BY Zenon, <3>1, <3>2
  <2>2. ASSUME NEW u \in Threads PROVE At(u)' = At(u) /\ Op(u)' = Op(u) /\ (Under(u)' <=> Under(u))
    BY Zenon, <1>4 DEF At, Op, Under
  <2> QED BY <1>0, <1>4, <2>1, <2>2
<1>6. \A p \in Pages : Writing(p)' <=> Writing(p)
  BY Zenon, SameWriting
<1>7. ASSUME NEW p \in Pages, ~Writing(p) PROVE Stored(p)' = Stored(p)
  <2>1. d.op = "read" \/ p # d.page
    BY Zenon, <1>7 DEF Writing, Under, Op
  <2> QED BY Zenon, <2>1 DEF Stored
<1>8. Intact'
  BY Zenon, <1>0, <1>6, <1>7 DEF Intact
<1> QED BY Zenon, <1>1, <1>2, <1>3, <1>5, <1>8 DEF DbInv

(* TransferMemory keeps the invariant. *)
LEMMA CopyKeeps ==
  ASSUME DbInv, NEW t \in Threads, TransferMemory(t)
  PROVE  DbInv'
<1> DEFINE c == call[t]
           p == c.page
           n == c.n + 1
<1>0. Copying(t)
  BY Zenon, CopyingIs DEF TransferMemory
<1>1. /\ in_memory /\ c.at = "transfer" /\ n \in 1 .. PAGE_SIZE /\ c.n \in Nat
      /\ c \in Calls /\ c.op \in {"read", "write"} /\ p \in Pages /\ c.buf \in Pagefuls
      /\ call \in [Threads -> Calls] /\ p \in DOMAIN data_
      /\ DOMAIN data_ \subseteq Pages /\ data_ \in [DOMAIN data_ -> Pagefuls]
      /\ \A i \in 1 .. c.n : c.buf[i] = data_[p][i]
  BY Zenon, <1>0 DEF Copying, MemoryCall
<1>2. Under(t) /\ UNCHANGED <<in_memory, file, pos, bad, latch, page_latch, last, torn>> /\ data_[p] \in Pagefuls
  BY Zenon, <1>1 DEF Under, At, TransferMemory
<1>3. CASE c.op = "read"
  <2> DEFINE b == [c.buf EXCEPT ![n] = data_[p][n]]
             d == With(c, "transfer", n, b)
  <2>1. data_' = data_ /\ call' = [call EXCEPT ![t] = d]
    <3>1. d = [c EXCEPT !.buf = b, !.n = n]
      BY Zenon, <1>1 DEF With, Calls
    <3> HIDE DEF d
    <3>2. call' = [call EXCEPT ![t] = [c EXCEPT !.buf = b, !.n = n]]
      BY Zenon, <1>1, <1>3 DEF TransferMemory, Op
    <3> QED BY Zenon, <1>3, <3>1, <3>2 DEF TransferMemory, Op
  <2>2. b \in Pagefuls /\ \A i \in 1 .. n : b[i] = data_[p][i]
    <3>1. b \in Pagefuls /\ \A i \in 1 .. PAGE_SIZE : b[i] = IF i = n THEN data_[p][n] ELSE c.buf[i]
      BY Zenon, <1>1, <1>2 DEF Pagefuls
    <3>2. ASSUME NEW i \in 1 .. n PROVE b[i] = data_[p][i]
      <4>0. c.n \in Nat /\ c.n + 1 \in 1 .. PAGE_SIZE /\ PAGE_SIZE \in Nat
        BY Zenon, <1>1, PagesAssumption
      <4>1. i \in 1 .. PAGE_SIZE /\ (i # n => i \in 1 .. c.n)
        BY <4>0
      <4> HIDE DEF b
      <4> QED BY Zenon, <1>1, <3>1, <4>1
    <3> QED BY Zenon, <3>1, <3>2
  <2>3. Becomes(c, d, "transfer", n, b)
    <3>1. n \in 0 .. PAGE_SIZE /\ "transfer" \in {"idle", "enter", "latch", "transfer", "leave"} /\ c \in Calls
      BY <1>1
    <3> HIDE DEF n, b, c
    <3> QED BY Zenon, <2>2, <3>1, CallWith
  <2> HIDE DEF d, b
  <2>4. d \in Calls /\ d.at = c.at /\ d.n = n /\ d.buf = b /\ d.op = "read" /\ d.page = p
    BY Zenon, <1>1, <1>3, <2>3 DEF Becomes
  <2>5. Moves(t, d)
    BY Zenon, <2>1, <2>4, MovesTo DEF DbInv
  <2>6. CallShape(d) /\ MemoryCall(d, data_')
    BY Zenon, <1>1, <2>1, <2>2, <2>4 DEF CallShape, MemoryCall
  <2> QED BY Zenon, <1>1, <1>2, <1>3, <2>1, <2>4, <2>5, <2>6, CopyTo
<1>4. CASE c.op = "write"
  <2> DEFINE b == [data_[p] EXCEPT ![n] = c.buf[n]]
             d == With(c, "transfer", n, c.buf)
  <2>1. data_' = [data_ EXCEPT ![p] = b] /\ call' = [call EXCEPT ![t] = d]
    <3>1. Goto(t, "transfer", n)
      BY Zenon, <1>4 DEF TransferMemory, Op
    <3>2. call' = [call EXCEPT ![t] = d]
      BY Zenon, <3>1, GotoIs DEF DbInv
    <3>3. data_' = [data_ EXCEPT ![p] = b]
      BY Zenon, <1>1, <1>4 DEF TransferMemory, Op
    <3> QED BY Zenon, <3>2, <3>3
  <2>2. b \in Pagefuls /\ \A i \in 1 .. n : c.buf[i] = b[i]
    <3>1. b \in Pagefuls /\ \A i \in 1 .. PAGE_SIZE : b[i] = IF i = n THEN c.buf[n] ELSE data_[p][i]
      BY Zenon, <1>1, <1>2 DEF Pagefuls
    <3>2. ASSUME NEW i \in 1 .. n PROVE c.buf[i] = b[i]
      <4>0. c.n \in Nat /\ c.n + 1 \in 1 .. PAGE_SIZE /\ PAGE_SIZE \in Nat
        BY Zenon, <1>1, PagesAssumption
      <4>1. i \in 1 .. PAGE_SIZE /\ (i # n => i \in 1 .. c.n)
        BY <4>0
      <4> HIDE DEF b
      <4> QED BY Zenon, <1>1, <3>1, <4>1
    <3> QED BY Zenon, <3>1, <3>2
  <2>3. Becomes(c, d, "transfer", n, c.buf)
    <3>1. n \in 0 .. PAGE_SIZE /\ "transfer" \in {"idle", "enter", "latch", "transfer", "leave"} /\ c \in Calls
          /\ c.buf \in Pagefuls
      BY <1>1
    <3> HIDE DEF n, c
    <3> QED BY Zenon, <3>1, CallWith
  <2> HIDE DEF d, b
  <2>4. d \in Calls /\ d.at = c.at /\ d.n = n /\ d.buf = c.buf /\ d.op = "write" /\ d.page = p
    BY Zenon, <1>1, <1>4, <2>3 DEF Becomes
  <2>5. Moves(t, d)
    BY Zenon, <2>1, <2>4, MovesTo DEF DbInv
  <2>6. /\ DOMAIN data_' = DOMAIN data_ /\ data_' \in [DOMAIN data_ -> Pagefuls] /\ data_'[p] = b
        /\ \A q \in DOMAIN data_ : q # p => data_'[q] = data_[q]
    BY Zenon, <1>1, <2>1, <2>2
  <2>7. CallShape(d) /\ MemoryCall(d, data_')
    BY Zenon, <1>1, <2>2, <2>4, <2>6 DEF CallShape, MemoryCall
  <2> QED BY Zenon, <1>1, <1>2, <1>4, <2>4, <2>5, <2>6, <2>7, CopyTo
<1> QED BY Zenon, <1>1, <1>3, <1>4

(* A process that has just started. *)
Fresh ==
  /\ call = [t \in Threads |-> Idle(ZeroPage)] /\ latch = NoOne /\ page_latch = [p \in Pages |-> {}]
  /\ pos = 0 /\ bad = FALSE /\ in_memory \in BOOLEAN /\ data_ = <<>>
  /\ file \in Seq(Cells) /\ Reach(Len(file)) /\ last \in [Pages -> Pagefuls] /\ torn \in SUBSET Pages
  /\ in_memory => torn = {}
  /\ \A p \in Pages \ torn : last[p] = Stored(p)

(* Then the invariant holds. *)
LEMMA FreshIs == Fresh => DbInv
<1> SUFFICES ASSUME Fresh PROVE DbInv
  BY Zenon
<1> USE DEF Fresh
<1>1. /\ Idle(ZeroPage) \in Calls /\ CallShape(Idle(ZeroPage)) /\ Idle(ZeroPage).at = "idle"
      /\ Idle(ZeroPage).op = "none"
  BY Zenon, ZeroTyped, IdleCall
<1>2. \A t \in Threads : call[t] = Idle(ZeroPage) /\ At(t) = "idle"
  BY Zenon, <1>1 DEF At
<1>3. Reach(0)
  <2>1. 0 \in Pages /\ 0 <= PAGE_SIZE * (1 + 0)
    BY OwnerAssumption, PagesAssumption DEF HEADER_PAGE_ID
  <2> QED BY Zenon, <2>1 DEF Reach
<1>4. DOMAIN data_ = {} /\ data_ \in [DOMAIN data_ -> Pagefuls]
  OBVIOUS
<1>5. DbTypes
  BY Zenon, <1>1, <1>3, <1>4 DEF DbTypes
<1>6. Shapes
  BY Zenon, <1>1, <1>2 DEF Shapes
<1>7. FileMode
  BY Zenon, <1>1, <1>2, ThreadsAssumption DEF FileMode, FileCall
<1>8. MemoryMode
  BY Zenon, <1>1, <1>2, ThreadsAssumption DEF MemoryMode, MemoryCall, Under
<1>9. Intact
  BY Zenon DEF Intact
<1> QED BY Zenon, <1>5, <1>6, <1>7, <1>8, <1>9 DEF DbInv

(* A crash leaves such a state: what was being written is torn, what was in  *)
(* memory is gone.                                                           *)
LEMMA CrashKeeps ==
  ASSUME DbInv, Crash
  PROVE  DbInv'
<1>0. DbTypes /\ MemoryMode /\ Intact
  BY Zenon DEF DbInv
<1>1. /\ call' = [t \in Threads |-> Idle(ZeroPage)] /\ latch' = NoOne /\ page_latch' = [p \in Pages |-> {}]
      /\ pos' = 0 /\ bad' = FALSE /\ data_' = <<>> /\ in_memory' = in_memory /\ file' = file
      /\ last' = IF in_memory THEN [p \in Pages |-> ZeroPage] ELSE last
      /\ torn' = torn \cup {call[t].page : t \in {u \in Threads : ~in_memory /\ At(u) = "transfer" /\ Op(u) = "write"}}
  BY Zenon DEF Crash, Start
<1>2. last' \in [Pages -> Pagefuls] /\ in_memory' \in BOOLEAN /\ file' \in Seq(Cells) /\ Reach(Len(file'))
  BY Zenon, <1>0, <1>1, ZeroTyped DEF DbTypes
<1>3. torn' \in SUBSET Pages
  <2>1. \A t \in Threads : call[t].page \in Pages
    BY Zenon, <1>0, CallFields
  <2> QED BY Zenon, <1>0, <1>1, <2>1 DEF DbTypes
<1>4. in_memory => torn' = {}
  BY Zenon, <1>0, <1>1 DEF MemoryMode
<1>5. ASSUME NEW p \in Pages \ torn' PROVE last'[p] = Stored(p)'
  <2>1. CASE in_memory
    BY <1>1, <2>1 DEF Stored
  <2>2. CASE ~in_memory
    <3>1. p \notin torn /\ ~Writing(p)
      BY Zenon, <1>1, <2>2 DEF Writing
    <3> QED BY Zenon, <1>0, <1>1, <2>2, <3>1 DEF Intact, Stored
  <2> QED BY Zenon, <2>1, <2>2
<1>6. Fresh'
  BY Zenon, <1>1, <1>2, <1>3, <1>4, <1>5 DEF Fresh
<1> QED BY <1>6, FreshIs, PTL

(* So does the first start. *)
LEMMA StartsIntact == Init => DbInv
<1> SUFFICES ASSUME Init PROVE Fresh
  BY Zenon, FreshIs
<1>1. file \in Seq(Cells) /\ Len(file) = 0
  BY DEF Init
<1>2. Reach(0)
  <2>1. 0 \in Pages /\ 0 <= PAGE_SIZE * (1 + 0)
    BY OwnerAssumption, PagesAssumption DEF HEADER_PAGE_ID
  <2> QED BY Zenon, <2>1 DEF Reach
<1>3. ASSUME NEW p \in Pages PROVE last[p] = Stored(p) /\ last[p] = ZeroPage
  <2>1. PageIn(file, p) = ZeroPage
    <3>1. \A i \in 1 .. PAGE_SIZE : ~(p * PAGE_SIZE + i <= Len(file))
      <4>1. p * PAGE_SIZE \in Nat
        BY PagesAssumption
      <4> QED BY <1>1, <4>1
    <3> QED BY Zenon, <3>1 DEF PageIn, CellAt, ZeroPage
  <2> QED BY <2>1 DEF Stored, Init
<1>4. last \in [Pages -> Pagefuls]
  BY Zenon, ZeroTyped DEF Init
<1> QED BY Zenon, <1>1, <1>2, <1>3, <1>4 DEF Fresh, Init

(* The disk managers are left alone. *)
LEMMA DbUnchanged ==
  ASSUME DbInv, UNCHANGED db
  PROVE  DbInv'
BY Zenon DEF DbInv, db, DbTypes, Shapes, FileMode, MemoryMode, Intact, Stored, Writing, Under, At, Op

-----------------------------------------------------------------------------
(* The header page is page 0. *)
LEMMA ZeroInPages == HEADER_PAGE_ID \in Pages /\ Owner \in Threads /\ HEADER_PAGE_ID = 0
BY Zenon, OwnerAssumption DEF HEADER_PAGE_ID

(* A step of another thread, seen from the owner of the header page. *)
Aside(t) ==
  /\ t # Owner
  /\ call'[Owner] = call[Owner] /\ roots' = roots /\ in_memory' = in_memory
  /\ last'[HEADER_PAGE_ID] = last[HEADER_PAGE_ID]
  /\ HEADER_PAGE_ID \in torn' => HEADER_PAGE_ID \in torn
  /\ bad => bad'
  /\ Len(file') >= Len(file)
  /\ \A u \in Threads : u # t => call'[u] = call[u]
  /\ call'[t].op = "write" => call'[t].page # HEADER_PAGE_ID

(* It leaves what the owner knows. *)
LEMMA AsideKeeps ==
  ASSUME DbInv, DbInv', HeaderInv, NEW t \in Threads, Aside(t)
  PROVE  HeaderInv'
<1> USE DEF Aside
<1>1. Trusted' => Trusted
  <2>1. Len(file) \in Nat /\ Len(file') \in Nat
    BY DEF DbInv, DbTypes
  <2>2. Fits' => Fits
    BY <2>1, PagesAssumption DEF Fits
  <2> QED BY Zenon, <2>2 DEF Trusted
<1>2. \A u \in Threads : Op(u)' = "write" /\ call'[u].page = HEADER_PAGE_ID => u = Owner
  BY Zenon DEF HeaderInv, Op
<1>3. OwnerReads'
  BY Zenon, <1>1 DEF HeaderInv, OwnerReads
<1>4. OwnerHas'
  BY Zenon, <1>1 DEF HeaderInv, OwnerHas
<1> QED BY Zenon, <1>2, <1>3, <1>4 DEF HeaderInv

(* No step makes the file shorter. *)
LEMMA Lengthens ==
  ASSUME DbInv, NEW t \in Threads, Step(t)
  PROVE  Len(file') >= Len(file)
<1>1. Len(file) \in Nat
  BY DEF DbInv, DbTypes
<1>2. CASE file' = file
  BY <1>1, <1>2
<1>3. CASE Transfer(t) /\ Op(t) # "read"
  <2>1. Sending(t)
    BY Zenon, <1>3, SendingIs DEF Transfer
  <2> DEFINE x == call[t].buf[call[t].n + 1]
             k == pos + 1
  <2>2. x \in Cells /\ k \in Nat \ {0} /\ file \in Seq(Cells)
    <3>1. /\ call[t].buf \in Pagefuls /\ call[t].n \in 0 .. PAGE_SIZE - 1 /\ PAGE_SIZE \in Nat \ {0}
          /\ pos \in Nat /\ file \in Seq(Cells)
      BY Zenon, <2>1 DEF Sending
    <3>2. call[t].n + 1 \in 1 .. PAGE_SIZE /\ k \in Nat \ {0}
      BY <3>1
    <3>3. x \in Cells
      BY Zenon, <3>1, <3>2 DEF Pagefuls
    <3> QED BY Zenon, <3>1, <3>2, <3>3
  <2>3. file' = PutAt(file, k, x)
    BY Zenon, <1>3 DEF Transfer, TransferWrite
  <2> HIDE DEF x, k
  <2>4. Put(file, file', k, x)
    BY Zenon, <2>2, <2>3, CellPut
  <2> QED BY <1>1, <2>2, <2>4 DEF Put
<1> QED BY Zenon, <1>2, <1>3 DEF Step, Enter, Transfer, TransferRead, Fails, Leave, EnterMemory, LatchPage, TransferMemory

(* A step of a thread is about its own call, which goes on or returns. *)
LEMMA OnlyMoves ==
  ASSUME DbInv, NEW t \in Threads, Step(t)
  PROVE  /\ \A u \in Threads : u # t => call'[u] = call[u]
         /\ call'[t].op \in {call[t].op, "none"}
         /\ call'[t].op = call[t].op => call'[t].page = call[t].page
         /\ At(t) # "idle"
         /\ bad => bad'
         /\ in_memory' = in_memory
<1>1. call \in [Threads -> Calls] /\ call[t] \in Calls
  BY Zenon DEF DbInv, DbTypes
<1> DEFINE Same == /\ \A u \in Threads : u # t => call'[u] = call[u]
                   /\ call'[t].op = call[t].op /\ call'[t].page = call[t].page
<1>2. ASSUME NEW at, NEW n, Goto(t, at, n) PROVE Same
  BY Zenon, <1>1, <1>2 DEF Goto, Calls
<1>3. CASE Enter(t)
  <2>1. Same
    BY <1>1, <1>2, <1>3 DEF Enter, SeekRead, SeekWrite, Calls
  <2> QED BY Zenon, <1>3, <2>1 DEF Enter
<1>4. CASE Transfer(t)
  <2>1. Same
    BY <1>1, <1>2, <1>4 DEF Transfer, TransferRead, TransferWrite, Calls
  <2> QED BY Zenon, <1>4, <2>1 DEF Transfer
<1>5. CASE Fails(t)
  BY Zenon, <1>2, <1>5 DEF Fails
<1>6. CASE Leave(t)
  <2>1. call' = [call EXCEPT ![t] = Idle(call[t].buf)] /\ Idle(call[t].buf).op = "none" /\ Idle(call[t].buf).page = 0
    BY Zenon, <1>6 DEF Leave, Idle
  <2>2. (\A u \in Threads : u # t => call'[u] = call[u]) /\ call'[t] = Idle(call[t].buf)
    BY Zenon, <1>1, <2>1
  <2>3. At(t) # "idle" /\ bad' = bad /\ in_memory' = in_memory
    BY Zenon, <1>6 DEF Leave
  <2>4. call[t].op # "none"
    BY Zenon, <2>3 DEF DbInv, Shapes, CallShape, At
  <2> QED BY Zenon, <2>1, <2>2, <2>3, <2>4
<1>7. CASE EnterMemory(t)
  <2>1. Same
    BY Zenon, <1>2, <1>7 DEF EnterMemory
  <2> QED BY Zenon, <1>7, <2>1 DEF EnterMemory
<1>8. CASE LatchPage(t)
  BY Zenon, <1>2, <1>8 DEF LatchPage
<1>9. CASE TransferMemory(t)
  <2>1. Same
    BY <1>1, <1>2, <1>9 DEF TransferMemory, Calls
  <2> QED BY Zenon, <1>9, <2>1 DEF TransferMemory
<1> QED BY Zenon, <1>3, <1>4, <1>5, <1>6, <1>7, <1>8, <1>9 DEF Step

(* The steps of other threads keep the invariant of the header page. *)
LEMMA OtherRuns ==
  ASSUME DbInv, DbInv', HeaderInv, NEW t \in Threads, t # Owner, Running(t)
  PROVE  HeaderInv'
<1>0. Step(t) /\ roots' = roots
  BY Zenon DEF Running
<1>1. /\ \A u \in Threads : u # t => call'[u] = call[u]
      /\ call'[t].op \in {call[t].op, "none"}
      /\ call'[t].op = call[t].op => call'[t].page = call[t].page
      /\ (bad => bad') /\ in_memory' = in_memory /\ Len(file') >= Len(file)
  BY Zenon, <1>0, OnlyMoves, Lengthens
<1>2. call[t].op = "write" => call[t].page # HEADER_PAGE_ID
  BY Zenon DEF HeaderInv, Op
<1>3. last'[HEADER_PAGE_ID] = last[HEADER_PAGE_ID] /\ (HEADER_PAGE_ID \in torn' => HEADER_PAGE_ID \in torn)
  <2>1. last \in [Pages -> Pagefuls] /\ call[t].page \in Pages
    BY Zenon, CallFields DEF DbInv, DbTypes
  <2>2. CASE Leave(t)
    BY Zenon, <1>2, <2>1, <2>2, ZeroInPages DEF Leave, Op
  <2>3. CASE Fails(t)
    BY Zenon, <1>2, <2>3 DEF Fails, Op
  <2>4. CASE UNCHANGED <<last, torn>>
    BY Zenon, <2>4
  <2>5. Leave(t) \/ Fails(t) \/ UNCHANGED <<last, torn>>
    BY Zenon, <1>0 DEF Step, Enter, Transfer, EnterMemory, LatchPage, TransferMemory
  <2> QED BY Zenon, <2>2, <2>3, <2>4, <2>5
<1>4. call'[Owner] = call[Owner] /\ (call'[t].op = "write" => call'[t].page # HEADER_PAGE_ID)
  BY Zenon, <1>1, <1>2, ZeroInPages
<1>5. roots' = roots /\ in_memory' = in_memory /\ Len(file') >= Len(file)
  BY Zenon, <1>0, <1>1
<1>6. bad => bad'
  BY Zenon, <1>1
<1>7. \A u \in Threads : u # t => call'[u] = call[u]
  BY Zenon, <1>1
<1>8. Aside(t)
  BY <1>3, <1>4, <1>5, <1>6, <1>7, Zenon DEF Aside
<1> QED BY Zenon, <1>8, AsideKeeps

(* So do their new calls, which do not write the header page. *)
LEMMA OtherStarts ==
  ASSUME DbInv, DbInv', HeaderInv, NEW t \in Threads, t # Owner, Other(t)
  PROVE  HeaderInv'
<1>1. call \in [Threads -> Calls] /\ call[t] \in Calls /\ Len(file) \in Nat
  BY DEF DbInv, DbTypes
<1>2. CASE \E p \in Pages : StartRead(t, p)
  <2>1. PICK p \in Pages : StartRead(t, p)
    BY Zenon, <1>2
  <2>2. call'[t].op = "read" /\ \A u \in Threads : u # t => call'[u] = call[u]
    BY Zenon, <1>1, <2>1 DEF StartRead, Calls
  <2>3. Aside(t)
    <3>1. UNCHANGED <<in_memory, file, bad, last, torn, roots>>
      BY Zenon, <2>1 DEF StartRead, Other
    <3>2. Len(file') >= Len(file) /\ call'[Owner] = call[Owner]
      BY <1>1, <2>2, <3>1, ZeroInPages
    <3> QED BY Zenon, <2>2, <3>1, <3>2 DEF Aside
  <2> QED BY Zenon, <2>3, AsideKeeps
<1>3. CASE \E p \in Pages \ {HEADER_PAGE_ID}, page \in Contents : StartWrite(t, p, page)
  <2>1. PICK p \in Pages \ {HEADER_PAGE_ID}, page \in Contents : StartWrite(t, p, page)
    BY Zenon, <1>3
  <2>2. call'[t].page = p /\ \A u \in Threads : u # t => call'[u] = call[u]
    BY Zenon, <1>1, <2>1 DEF StartWrite, Calls
  <2>3. Aside(t)
    <3>1. UNCHANGED <<in_memory, file, bad, last, torn, roots>>
      BY Zenon, <2>1 DEF StartWrite, Other
    <3>2. Len(file') >= Len(file) /\ call'[Owner] = call[Owner]
      BY <1>1, <2>2, <3>1, ZeroInPages
    <3> QED BY Zenon, <2>2, <3>1, <3>2 DEF Aside
  <2> QED BY Zenon, <2>3, AsideKeeps
<1> QED BY Zenon, <1>2, <1>3 DEF Other

-----------------------------------------------------------------------------
(* A step of the owner: what it leaves alone. *)
Own ==
  /\ roots' = roots /\ in_memory' = in_memory
  /\ (bad => bad') /\ (Trusted' => Trusted)
  /\ \A u \in Threads : u # Owner => call'[u] = call[u]
  /\ call[Owner].op # "none" /\ roots # NotFetched

(* The running steps of the owner are such steps. *)
LEMMA OwnIs ==
  ASSUME DbInv, DbInv', HeaderInv, Running(Owner)
  PROVE  Own
<1>0. Step(Owner) /\ roots' = roots /\ Owner \in Threads
  BY Zenon, ZeroInPages DEF Running
<1>1. /\ \A u \in Threads : u # Owner => call'[u] = call[u]
      /\ At(Owner) # "idle"
      /\ (bad => bad') /\ in_memory' = in_memory /\ Len(file') >= Len(file)
  BY Zenon, <1>0, OnlyMoves, Lengthens
<1>2. Len(file) \in Nat /\ Len(file') \in Nat
  BY DEF DbInv, DbTypes
<1>3. Fits' => Fits
  BY <1>1, <1>2, PagesAssumption DEF Fits
<1>4. Trusted' => Trusted
  BY Zenon, <1>1, <1>3 DEF Trusted
<1>5. call[Owner].op # "none"
  BY Zenon, <1>0, <1>1 DEF DbInv, Shapes, CallShape, At
<1>6. roots # NotFetched
  <2>1. Idle(ZeroPage).op = "none"
    BY Zenon DEF Idle
  <2> QED BY Zenon, <1>5, <2>1 DEF HeaderInv
<1> QED BY Zenon, <1>0, <1>1, <1>4, <1>5, <1>6 DEF Own

(* The owner reads on. *)
LEMMA ReadsOn ==
  ASSUME DbInv, DbInv', HeaderInv, Own, call[Owner].op = "read",
         call'[Owner].op = "read", call'[Owner].page = call[Owner].page,
         last' = last, torn' = torn,
         \A i \in 1 .. PAGE_SIZE : i > call'[Owner].n => call'[Owner].buf[i] = Zero,
         \A i \in 1 .. call'[Owner].n : call'[Owner].buf[i] = last[HEADER_PAGE_ID][i],
         call'[Owner].at = "leave" => (~bad' => call'[Owner].n = 0) /\ (Trusted' => last[HEADER_PAGE_ID] = ZeroPage)
  PROVE  HeaderInv'
<1> DEFINE d == call'[Owner]
<1>1. d.n \in 0 .. PAGE_SIZE
  BY Zenon, ZeroInPages DEF DbInv, DbTypes, Calls
<1>2. ASSUME NEW i \in 1 .. PAGE_SIZE PROVE d.buf[i] = IF i <= d.n THEN last[HEADER_PAGE_ID][i] ELSE Zero
  <2>1. i \in Nat /\ d.n \in Nat
    BY <1>1
  <2>2. CASE i <= d.n
    BY <2>1, <2>2
  <2>3. CASE ~(i <= d.n)
    <3>1. i > d.n
      BY <2>1, <2>3
    <3> QED BY Zenon, <2>3, <3>1
  <2> QED BY Zenon, <2>2, <2>3
<1>3. OwnerReads'
  BY Zenon, <1>2 DEF HeaderInv, OwnerReads, Own
<1>4. OwnerHas'
  BY Zenon DEF OwnerHas
<1>5. \A t \in Threads : Op(t)' = "write" /\ call'[t].page = HEADER_PAGE_ID => t = Owner
  BY Zenon DEF HeaderInv, Own, Op
<1> QED BY Zenon, <1>3, <1>4, <1>5 DEF HeaderInv, Own

(* The owner writes on, or is done. *)
LEMMA WritesOn ==
  ASSUME DbInv, DbInv', HeaderInv, Own, call[Owner].op = "write",
         call'[Owner].op # "read", call'[Owner].op = "write" => call'[Owner].page = call[Owner].page,
         call'[Owner].buf = call[Owner].buf,
         last'[HEADER_PAGE_ID] \in {last[HEADER_PAGE_ID], call[Owner].buf},
         last'[HEADER_PAGE_ID] # last[HEADER_PAGE_ID] => ~bad
  PROVE  HeaderInv'
<1>1. OwnerReads'
  BY Zenon DEF OwnerReads
<1>2. OwnerHas'
  BY Zenon DEF HeaderInv, OwnerHas, Own
<1>3. \A t \in Threads : Op(t)' = "write" /\ call'[t].page = HEADER_PAGE_ID => t = Owner
  BY Zenon DEF HeaderInv, Own, Op
<1>4. IsHeader(last'[HEADER_PAGE_ID])
  BY Zenon DEF HeaderInv, OwnerHas, Own
<1> QED BY Zenon, <1>1, <1>2, <1>3, <1>4 DEF HeaderInv, Own

(* A cell of the header page in the file. *)
LEMMA HeaderCell ==
  ASSUME NEW f, NEW i \in 1 .. PAGE_SIZE
  PROVE  PageIn(f, HEADER_PAGE_ID)[i] = CellAt(f, HEADER_PAGE_ID * PAGE_SIZE + i)
BY Zenon DEF PageIn

(* The offset of the header page fits an int. *)
LEMMA HeaderAddressable == Addressable(HEADER_PAGE_ID)
<1>1. 0 * PAGE_SIZE = 0 /\ 0 < IntHalf
  BY PagesAssumption
<1> QED BY Zenon, <1>1 DEF Addressable, HEADER_PAGE_ID

(* The owner has read some of the header page, and no fault has torn it. *)
Reading ==
  /\ call[Owner].op = "read" /\ call[Owner].page = HEADER_PAGE_ID /\ HEADER_PAGE_ID \notin torn
  /\ \A t \in Threads : Op(t) = "write" /\ call[t].page = HEADER_PAGE_ID => t = Owner

(* What it has read is what was written last. *)
ReadSoFar ==
  /\ last[HEADER_PAGE_ID] = Stored(HEADER_PAGE_ID)
  /\ call[Owner].at = "transfer" => \A i \in 1 .. call[Owner].n : call[Owner].buf[i] = last[HEADER_PAGE_ID][i]

(* This follows from the invariant of the disk managers. *)
LEMMA ReadState == DbInv /\ Reading => ReadSoFar
<1> SUFFICES ASSUME DbInv, Reading PROVE ReadSoFar
  BY Zenon
<1> DEFINE c == call[Owner]
<1>0. DbTypes /\ Owner \in Threads /\ HEADER_PAGE_ID \in Pages
  BY Zenon, ZeroInPages DEF DbInv
<1>1. c.n \in 0 .. PAGE_SIZE /\ PAGE_SIZE \in Nat
  BY Zenon, <1>0, CallFields, PagesAssumption
<1>2. last[HEADER_PAGE_ID] = Stored(HEADER_PAGE_ID)
  <2>1. ~Writing(HEADER_PAGE_ID)
    BY Zenon DEF Reading, Writing, Op
  <2> QED BY Zenon, <1>0, <2>1 DEF DbInv, Intact, Reading
<1>3. ASSUME c.at = "transfer" PROVE \A i \in 1 .. c.n : c.buf[i] = Stored(HEADER_PAGE_ID)[i]
  <2>1. CASE in_memory
    <3>1. MemoryCall(c, data_)
      BY Zenon, <1>0, <2>1 DEF DbInv, MemoryMode
    <3> QED BY Zenon, <1>3, <2>1, <3>1 DEF MemoryCall, Stored, Reading
  <2>2. CASE ~in_memory
    <3>1. FileCall(c, file, pos, bad)
      BY Zenon, <1>0, <2>2 DEF DbInv, FileMode
    <3>2. \A i \in 1 .. c.n : c.buf[i] = CellAt(file, HEADER_PAGE_ID * PAGE_SIZE + i)
      BY Zenon, <1>3, <3>1, HeaderAddressable DEF FileCall, Reading
    <3>3. \A i \in 1 .. c.n : i \in 1 .. PAGE_SIZE
      BY <1>1
    <3> QED BY Zenon, <2>2, <3>2, <3>3, HeaderCell DEF Stored
  <2> QED BY Zenon, <2>1, <2>2
<1> QED BY Zenon, <1>2, <1>3 DEF ReadSoFar

(* A step of the owner that goes on reading. *)
ReadStep ==
  LET d == call'[Owner]
  IN /\ d.op = "read" /\ d.page = call[Owner].page /\ last' = last /\ torn' = torn
     /\ \A i \in 1 .. PAGE_SIZE : i > d.n => d.buf[i] = Zero
     /\ d.at # "transfer" => \A i \in 1 .. d.n : d.buf[i] = last[HEADER_PAGE_ID][i]
     /\ d.at = "leave" => (~bad' => d.n = 0) /\ (Trusted' => last[HEADER_PAGE_ID] = ZeroPage)

(* A step of this kind keeps the invariant of the header page. *)
LEMMA ReadsOnBy ==
  ASSUME DbInv, DbInv', HeaderInv, Own, call[Owner].op = "read", ReadStep
  PROVE  HeaderInv'
<1>1. Reading'
  BY Zenon DEF ReadStep, Reading, HeaderInv, OwnerReads, Own, Op
<1>2. ReadSoFar'
  BY <1>1, ReadState, PTL
<1>3. \A i \in 1 .. call'[Owner].n : call'[Owner].buf[i] = last[HEADER_PAGE_ID][i]
  BY Zenon, <1>2 DEF ReadSoFar, ReadStep
<1> QED BY Zenon, <1>3, ReadsOn DEF ReadStep

(* The owner while it reads. *)
LEMMA OwnerNow ==
  ASSUME DbInv, HeaderInv, call[Owner].op = "read"
  PROVE  LET c == call[Owner]
         IN  /\ call \in [Threads -> Calls] /\ Owner \in Threads /\ c \in Calls /\ c.page = HEADER_PAGE_ID
             /\ c.n \in 0 .. PAGE_SIZE /\ PAGE_SIZE \in Nat \ {0} /\ c.buf \in Pagefuls
             /\ \A i \in 1 .. PAGE_SIZE : c.buf[i] = IF i <= c.n THEN last[HEADER_PAGE_ID][i] ELSE Zero
             /\ c.at \in {"enter", "latch"} => c.n = 0
             /\ ReadSoFar /\ DbTypes
<1>1. DbTypes /\ Owner \in Threads
  BY Zenon, ZeroInPages DEF DbInv
<1>2. Reading
  BY Zenon DEF HeaderInv, OwnerReads, Reading
<1>3. ReadSoFar
  BY Zenon, <1>2, ReadState
<1> QED BY Zenon, <1>1, <1>3, CallFields, PagesAssumption DEF HeaderInv, OwnerReads, DbInv, Shapes, CallShape, DbTypes

(* The fields after Goto. *)
LEMMA GotoFields ==
  ASSUME call \in [Threads -> Calls], NEW t \in Threads, NEW at, NEW n, Goto(t, at, n)
  PROVE  /\ call'[t].at = at /\ call'[t].n = n /\ call'[t].buf = call[t].buf
         /\ call'[t].op = call[t].op /\ call'[t].page = call[t].page
BY Zenon DEF Goto, Calls

(* The owner takes the latch: a page beyond the end of the file was never    *)
(* written.                                                                  *)
LEMMA OwnerEnters ==
  ASSUME DbInv, DbInv', HeaderInv, call[Owner].op = "read", Enter(Owner)
  PROVE  ReadStep
<1> DEFINE c == call[Owner]
           d == call'[Owner]
<1>1. /\ call \in [Threads -> Calls] /\ Owner \in Threads /\ c \in Calls /\ c.page = HEADER_PAGE_ID
      /\ \A i \in 1 .. PAGE_SIZE : c.buf[i] = IF i <= c.n THEN last[HEADER_PAGE_ID][i] ELSE Zero
      /\ c.n = 0
  BY Zenon, OwnerNow DEF Enter, At
<1>2. SeekRead(Owner) /\ last' = last /\ torn' = torn /\ bad' = bad /\ file' = file /\ ~in_memory /\ in_memory' = in_memory
  BY Zenon DEF Enter, Op
<1>3. AsInt(c.page * PAGE_SIZE) = 0
  <2>1. c.page * PAGE_SIZE = 0
    BY <1>1, PagesAssumption DEF HEADER_PAGE_ID
  <2> QED BY <2>1, IntIs, PagesAssumption
<1>4. d.at \in {"leave", "transfer"} /\ d.n = 0 /\ d.buf = c.buf /\ d.op = c.op /\ d.page = c.page
      /\ (d.at = "leave" => 0 > GetFileSize(file) \/ bad)
  <2>1. CASE 0 > GetFileSize(file) \/ bad
    <3>1. Goto(Owner, "leave", 0)
      BY Zenon, <1>2, <1>3, <2>1 DEF SeekRead
    <3> QED BY <1>1, <2>1, <3>1, GotoFields
  <2>2. CASE ~(0 > GetFileSize(file) \/ bad)
    <3>1. Goto(Owner, "transfer", 0)
      BY <1>2, <1>3, <2>2 DEF SeekRead
    <3> QED BY <1>1, <3>1, GotoFields
  <2> QED BY Zenon, <2>1, <2>2
<1>5. d.at = "leave" => ~Trusted'
  <2>1. Len(file) \in Nat
    BY DEF DbInv, DbTypes
  <2>2. Fits => GetFileSize(file) >= 0
    BY <2>1, IntIs DEF Fits, GetFileSize
  <2>3. GetFileSize(file) \in Int
    BY Zenon, <2>1, IntIs DEF GetFileSize
  <2> QED BY <1>2, <1>4, <2>2, <2>3 DEF Trusted, Fits
<1>6. \A i \in 1 .. PAGE_SIZE : d.buf[i] = Zero
  BY <1>1, <1>4
<1> QED BY <1>2, <1>4, <1>5, <1>6 DEF ReadStep

-----------------------------------------------------------------------------
(* The owner reads a cell. *)
LEMMA OwnerTransfers ==
  ASSUME DbInv, DbInv', HeaderInv, call[Owner].op = "read", Transfer(Owner)
  PROVE  ReadStep
<1> DEFINE c == call[Owner]
           d == call'[Owner]
           ends == pos >= Len(file)
<1>1. /\ call \in [Threads -> Calls] /\ Owner \in Threads /\ c \in Calls /\ c.n \in 0 .. PAGE_SIZE
      /\ PAGE_SIZE \in Nat \ {0} /\ c.buf \in Pagefuls
      /\ \A i \in 1 .. PAGE_SIZE : c.buf[i] = IF i <= c.n THEN last[HEADER_PAGE_ID][i] ELSE Zero
  BY Zenon, OwnerNow
<1>2. TransferRead(Owner) /\ last' = last /\ torn' = torn /\ c.at = "transfer"
  BY Zenon DEF Transfer, Op, At
<1>3. /\ d.at = "transfer" /\ d.op = c.op /\ d.page = c.page
      /\ d.n = (IF ends THEN PAGE_SIZE ELSE c.n + 1)
      /\ d.buf = [i \in 1 .. PAGE_SIZE |->
                    IF i = c.n + 1 \/ (i > c.n /\ ends) THEN CellAt(file, pos + 1) ELSE c.buf[i]]
  BY Zenon, <1>1, <1>2 DEF TransferRead, Calls
<1>4. ASSUME NEW i \in 1 .. PAGE_SIZE, i > d.n PROVE d.buf[i] = Zero
  <2>1. ~ends /\ i > c.n + 1
    BY <1>1, <1>3, <1>4
  <2>2. d.buf[i] = c.buf[i]
    BY <1>1, <1>3, <2>1
  <2>3. ~(i <= c.n)
    BY <1>1, <2>1
  <2> QED BY Zenon, <1>1, <2>2, <2>3
<1> QED BY Zenon, <1>2, <1>3, <1>4 DEF ReadStep

(* The owner meets an I/O error. *)
LEMMA OwnerFails ==
  ASSUME DbInv, DbInv', HeaderInv, call[Owner].op = "read", Fails(Owner)
  PROVE  ReadStep
<1> DEFINE c == call[Owner]
           d == call'[Owner]
<1>1. /\ call \in [Threads -> Calls] /\ Owner \in Threads /\ c.n \in 0 .. PAGE_SIZE /\ PAGE_SIZE \in Nat \ {0}
      /\ \A i \in 1 .. PAGE_SIZE : c.buf[i] = IF i <= c.n THEN last[HEADER_PAGE_ID][i] ELSE Zero
  BY Zenon, OwnerNow
<1>2. Goto(Owner, "leave", c.n) /\ bad' = TRUE /\ last' = last /\ torn' = torn
  BY Zenon DEF Fails, Op
<1>3. d.at = "leave" /\ d.n = c.n /\ d.buf = c.buf /\ d.op = c.op /\ d.page = c.page
  BY <1>1, <1>2, GotoFields
<1>4. \A i \in 1 .. PAGE_SIZE : i > d.n => d.buf[i] = Zero
  BY <1>1, <1>3
<1>5. \A i \in 1 .. d.n : d.buf[i] = last[HEADER_PAGE_ID][i]
  BY <1>1, <1>3
<1>6. ~Trusted'
  BY Zenon, <1>2 DEF Trusted
<1> QED BY Zenon, <1>2, <1>3, <1>4, <1>5, <1>6 DEF ReadStep

(* The owner looks for the page in memory. *)
LEMMA OwnerEntersMemory ==
  ASSUME DbInv, DbInv', HeaderInv, call[Owner].op = "read", EnterMemory(Owner)
  PROVE  ReadStep
<1> DEFINE c == call[Owner]
           d == call'[Owner]
<1>1. /\ call \in [Threads -> Calls] /\ Owner \in Threads /\ c.page = HEADER_PAGE_ID
      /\ \A i \in 1 .. PAGE_SIZE : c.buf[i] = IF i <= c.n THEN last[HEADER_PAGE_ID][i] ELSE Zero
      /\ c.n = 0 /\ ReadSoFar
  BY Zenon, OwnerNow DEF EnterMemory, At
<1>2. last' = last /\ torn' = torn /\ in_memory
  BY Zenon DEF EnterMemory
<1>3. d.n = 0 /\ d.buf = c.buf /\ d.op = c.op /\ d.page = c.page
      /\ (d.at = "leave" => c.page \notin DOMAIN data_)
  <2>1. CASE c.page \notin DOMAIN data_
    <3>1. Goto(Owner, "leave", 0)
      BY Zenon, <2>1 DEF EnterMemory, Op
    <3> QED BY <1>1, <2>1, <3>1, GotoFields
  <2>2. CASE c.page \in DOMAIN data_
    <3>1. Goto(Owner, "latch", 0)
      BY Zenon, <2>2 DEF EnterMemory, Op
    <3> QED BY <1>1, <3>1, GotoFields
  <2> QED BY Zenon, <2>1, <2>2
<1>4. d.at = "leave" => last[HEADER_PAGE_ID] = ZeroPage
  BY Zenon, <1>1, <1>2, <1>3 DEF ReadSoFar, Stored
<1>5. \A i \in 1 .. PAGE_SIZE : d.buf[i] = Zero
  BY <1>1, <1>3
<1> QED BY <1>2, <1>3, <1>4, <1>5 DEF ReadStep

(* The owner takes the latch of the page. *)
LEMMA OwnerLatches ==
  ASSUME DbInv, DbInv', HeaderInv, call[Owner].op = "read", LatchPage(Owner)
  PROVE  ReadStep
<1> DEFINE c == call[Owner]
           d == call'[Owner]
<1>1. /\ call \in [Threads -> Calls] /\ Owner \in Threads
      /\ \A i \in 1 .. PAGE_SIZE : c.buf[i] = IF i <= c.n THEN last[HEADER_PAGE_ID][i] ELSE Zero
      /\ c.n = 0
  BY Zenon, OwnerNow DEF LatchPage, At
<1>2. last' = last /\ torn' = torn /\ Goto(Owner, "transfer", 0)
  BY Zenon DEF LatchPage
<1>3. d.at = "transfer" /\ d.n = 0 /\ d.buf = c.buf /\ d.op = c.op /\ d.page = c.page
  BY <1>1, <1>2, GotoFields
<1>4. \A i \in 1 .. PAGE_SIZE : d.buf[i] = Zero
  BY <1>1, <1>3
<1> QED BY Zenon, <1>2, <1>3, <1>4 DEF ReadStep

(* The owner copies a cell. *)
LEMMA OwnerCopies ==
  ASSUME DbInv, DbInv', HeaderInv, call[Owner].op = "read", TransferMemory(Owner)
  PROVE  ReadStep
<1> DEFINE c == call[Owner]
           d == call'[Owner]
           n == c.n + 1
           x == data_[c.page][n]
<1>1. /\ call \in [Threads -> Calls] /\ Owner \in Threads /\ c \in Calls /\ c.n \in 0 .. PAGE_SIZE
      /\ PAGE_SIZE \in Nat \ {0} /\ c.buf \in Pagefuls
      /\ \A i \in 1 .. PAGE_SIZE : c.buf[i] = IF i <= c.n THEN last[HEADER_PAGE_ID][i] ELSE Zero
  BY Zenon, OwnerNow
<1>2. last' = last /\ torn' = torn /\ c.at = "transfer"
      /\ call' = [call EXCEPT ![Owner].buf[n] = x, ![Owner].n = n]
  BY Zenon DEF TransferMemory, Op, At
<1>3. d.at = "transfer" /\ d.op = c.op /\ d.page = c.page /\ d.n = n /\ d.buf = [c.buf EXCEPT ![n] = x]
  <2> HIDE DEF n, x
  <2> QED BY Zenon, <1>1, <1>2 DEF Calls
<1>4. ASSUME NEW i \in 1 .. PAGE_SIZE, i > d.n PROVE d.buf[i] = Zero
  <2>1. i # n /\ ~(i <= c.n)
    BY <1>1, <1>3, <1>4
  <2>2. d.buf[i] = c.buf[i]
    <3> HIDE DEF n, x
    <3> QED BY Zenon, <1>1, <1>3, <2>1 DEF Pagefuls
  <2> QED BY Zenon, <1>1, <2>1, <2>2
<1> QED BY Zenon, <1>2, <1>3, <1>4 DEF ReadStep

(* Two pages with the same cells are the same. *)
LEMMA SamePageful ==
  ASSUME NEW f \in Pagefuls, NEW g \in Pagefuls, \A i \in 1 .. PAGE_SIZE : f[i] = g[i]
  PROVE  f = g
<1>1. f = [i \in 1 .. PAGE_SIZE |-> f[i]] /\ g = [i \in 1 .. PAGE_SIZE |-> g[i]]
  BY Zenon DEF Pagefuls
<1> QED BY Zenon, <1>1

(* The owner returns: it has the whole page, or wrote it. *)
LEMMA OwnerLeaves ==
  ASSUME DbInv, DbInv', HeaderInv, Own, Leave(Owner)
  PROVE  HeaderInv'
<1> DEFINE c == call[Owner]
           h == last[HEADER_PAGE_ID]
           d == call'[Owner]
<1>0. /\ call \in [Threads -> Calls] /\ Owner \in Threads /\ c.buf \in Pagefuls /\ c.n \in 0 .. PAGE_SIZE
      /\ c.op \in {"none", "read", "write"} /\ last \in [Pages -> Pagefuls] /\ CallShape(c)
      /\ HEADER_PAGE_ID \in Pages /\ PAGE_SIZE \in Nat \ {0} /\ h \in Pagefuls
  BY Zenon, ZeroInPages, CallFields, PagesAssumption DEF DbInv, DbTypes, Shapes
<1>1. /\ c.at = "leave" \/ (c.at = "transfer" /\ c.n = PAGE_SIZE)
      /\ call' = [call EXCEPT ![Owner] = Idle(c.buf)] /\ bad' = bad
  BY Zenon DEF Leave, At
<1>2. d = Idle(c.buf) /\ d.op = "none" /\ d.buf = c.buf
  BY Zenon, <1>0, <1>1, IdleCall
<1>3. \A t \in Threads : Op(t)' = "write" /\ call'[t].page = HEADER_PAGE_ID => t = Owner
  BY Zenon DEF HeaderInv, Own, Op
<1>4. CASE c.op = "read"
  <2>1. last' = last /\ torn' = torn
    BY Zenon, <1>4 DEF Leave, Op
  <2>2. /\ Maps(h, roots) /\ IsHeader(h)
        /\ \A i \in 1 .. PAGE_SIZE : c.buf[i] = IF i <= c.n THEN h[i] ELSE Zero
        /\ c.at = "leave" /\ ~bad => c.n = 0
        /\ c.at = "leave" /\ Trusted => h = ZeroPage
    BY Zenon, <1>4 DEF HeaderInv, OwnerReads
  <2>3. CASE c.n = PAGE_SIZE
    <3>1. c.buf = h
      <4>1. \A i \in 1 .. PAGE_SIZE : i <= c.n
        BY <1>0, <2>3
      <4>2. \A i \in 1 .. PAGE_SIZE : c.buf[i] = h[i]
        BY Zenon, <2>2, <4>1
      <4>3. c.buf \in Pagefuls /\ h \in Pagefuls
        BY Zenon, <1>0
      <4> HIDE DEF c, h
      <4> QED BY Zenon, <4>2, <4>3, SamePageful
    <3>2. OwnerHas'
      BY Zenon, <1>2, <2>2, <3>1 DEF OwnerHas, Own, IsHeader
    <3> QED BY Zenon, <1>2, <1>3, <2>1, <2>2, <3>2 DEF HeaderInv, Own, OwnerReads
  <2>4. CASE c.n # PAGE_SIZE
    <3>1. c.at = "leave"
      BY Zenon, <1>1, <2>4
    <3>2. c.buf[1][1] \in 0 .. PAGE_SIZE - 1
      <4>1. c.buf[1] \in {h[1], Zero}
        BY <1>0, <2>2
      <4>2. Zero[1] = 0 /\ h[1][1] \in 0 .. PAGE_SIZE - 1
        BY Zenon, <2>2 DEF Zero, IsHeader
      <4>3. 0 \in 0 .. PAGE_SIZE - 1
        BY <1>0
      <4> QED BY Zenon, <4>1, <4>2, <4>3
    <3>3. ~bad => c.buf = ZeroPage
      BY <1>0, <2>2, <3>1 DEF Pagefuls, ZeroPage
    <3>4. Trusted => ~bad
      BY Zenon DEF Trusted
    <3>5. OwnerHas'
      BY Zenon, <1>1, <1>2, <2>2, <3>1, <3>2, <3>3, <3>4, ZeroHeader DEF OwnerHas, Own
    <3> QED BY Zenon, <1>2, <1>3, <2>1, <2>2, <3>5 DEF HeaderInv, Own, OwnerReads
  <2> QED BY Zenon, <2>3, <2>4
<1>5. CASE c.op = "write"
  <2>1. CASE c.n = PAGE_SIZE
    <3>1. c.at = "transfer"
      BY <1>0, <1>1, <1>5, <2>1 DEF CallShape
    <3>2. ~bad
      BY Zenon, <1>0, <3>1 DEF DbInv, DbTypes, FileMode, MemoryMode, FileCall
    <3>3. c.page = HEADER_PAGE_ID
      BY Zenon, <1>5 DEF HeaderInv, OwnerHas
    <3>4. last'[HEADER_PAGE_ID] = c.buf
      BY Zenon, <1>0, <1>5, <2>1, <3>3 DEF Leave, Op
    <3> QED BY Zenon, <1>2, <1>5, <3>2, <3>4, WritesOn
  <2>2. CASE c.n # PAGE_SIZE
    <3>1. last' = last
      BY Zenon, <1>5, <2>2 DEF Leave, Op
    <3> QED BY Zenon, <1>2, <1>5, <3>1, WritesOn
  <2> QED BY Zenon, <2>1, <2>2
<1> QED BY Zenon, <1>0, <1>4, <1>5 DEF Own

(* The running steps of the owner keep the invariant of the header page. *)
LEMMA OwnerRuns ==
  ASSUME DbInv, DbInv', HeaderInv, Running(Owner)
  PROVE  HeaderInv'
<1>0. Own /\ Step(Owner)
  BY Zenon, OwnIs DEF Running
<1>1. CASE Leave(Owner)
  BY Zenon, <1>0, <1>1, OwnerLeaves
<1>2. CASE ~Leave(Owner) /\ call[Owner].op = "read"
  <2>1. ReadStep
    BY Zenon, <1>0, <1>2, OwnerEnters, OwnerTransfers, OwnerFails, OwnerEntersMemory, OwnerLatches, OwnerCopies DEF Step
  <2> QED BY Zenon, <1>0, <1>2, <2>1, ReadsOnBy
<1>3. CASE ~Leave(Owner) /\ call[Owner].op # "read"
  <2>1. call[Owner].op = "write" /\ call \in [Threads -> Calls] /\ Owner \in Threads
    BY Zenon, <1>0, <1>3, ZeroInPages, CallFields DEF Own, DbInv, DbTypes
  <2>2. last' = last
    BY Zenon, <1>0, <1>3 DEF Step, Enter, Transfer, Fails, EnterMemory, LatchPage, TransferMemory
  <2>3. \E at, n : Goto(Owner, at, n)
    BY Zenon, <1>0, <1>3 DEF Step, Enter, SeekWrite, Transfer, TransferWrite, Fails, EnterMemory, LatchPage, TransferMemory, Op
  <2>4. PICK at, n : Goto(Owner, at, n)
    BY Zenon, <2>3
  <2>5. call'[Owner].buf = call[Owner].buf /\ call'[Owner].op = "write" /\ call'[Owner].page = call[Owner].page
    BY Zenon, <2>1, <2>4, GotoFields
  <2> QED BY Zenon, <1>0, <2>1, <2>2, <2>5, WritesOn
<1> QED BY Zenon, <1>1, <1>2, <1>3

-----------------------------------------------------------------------------
(* A thread that is idle. *)
LEMMA IdleIs ==
  ASSUME DbInv, NEW t \in Threads, At(t) = "idle"
  PROVE  call[t].op = "none" /\ call[t] \in Calls /\ call \in [Threads -> Calls] /\ call[t].buf \in Pagefuls
BY Zenon, CallFields DEF DbInv, DbTypes, Shapes, CallShape, At

(* A call of ReadPage starts. *)
LEMMA ReadStarts ==
  ASSUME DbInv, NEW t \in Threads, NEW p \in Pages, StartRead(t, p)
  PROVE  /\ DbInv'
         /\ call'[t].at = "enter" /\ call'[t].op = "read" /\ call'[t].page = p /\ call'[t].n = 0
         /\ call'[t].buf = call[t].buf /\ \A u \in Threads : u # t => call'[u] = call[u]
<1> DEFINE d == [call[t] EXCEPT !.at = "enter", !.op = "read", !.page = p, !.n = 0]
<1>1. call[t] \in Calls /\ call \in [Threads -> Calls] /\ At(t) = "idle" /\ DbTypes
  BY Zenon, IdleIs DEF StartRead, DbInv
<1>2. 0 \in 0 .. PAGE_SIZE
  BY PagesAssumption
<1>3. d \in Calls /\ d.at = "enter" /\ d.op = "read" /\ d.page = p /\ d.n = 0 /\ d.buf = call[t].buf
  BY Zenon, <1>1, <1>2 DEF Calls
<1>4. call' = [call EXCEPT ![t] = d]
  BY Zenon, <1>1 DEF StartRead
<1> HIDE DEF d
<1>5. Moves(t, d)
  BY Zenon, <1>1, <1>3, <1>4, MovesTo
<1>6. CallShape(d)
  BY Zenon, <1>3, PagesAssumption DEF CallShape
<1>7. UNCHANGED <<in_memory, file, pos, bad, data_, latch, page_latch, last, torn>>
  BY Zenon DEF StartRead
<1>8. DbInv'
  BY Zenon, <1>1, <1>3, <1>5, <1>6, <1>7, StartKeeps
<1> QED BY Zenon, <1>3, <1>5, <1>8 DEF Moves

(* A call of WritePage starts. *)
LEMMA WriteStarts ==
  ASSUME DbInv, NEW t \in Threads, NEW p \in Pages, NEW b \in Pagefuls, StartWrite(t, p, b)
  PROVE  /\ DbInv'
         /\ call'[t].at = "enter" /\ call'[t].op = "write" /\ call'[t].page = p /\ call'[t].n = 0
         /\ call'[t].buf = b /\ \A u \in Threads : u # t => call'[u] = call[u]
<1> DEFINE d == [call[t] EXCEPT !.at = "enter", !.op = "write", !.page = p, !.n = 0, !.buf = b]
<1>1. call[t] \in Calls /\ call \in [Threads -> Calls] /\ At(t) = "idle" /\ DbTypes
  BY Zenon, IdleIs DEF StartWrite, DbInv
<1>2. 0 \in 0 .. PAGE_SIZE
  BY PagesAssumption
<1>3. d \in Calls /\ d.at = "enter" /\ d.op = "write" /\ d.page = p /\ d.n = 0 /\ d.buf = b
  BY Zenon, <1>1, <1>2 DEF Calls
<1>4. call' = [call EXCEPT ![t] = d]
  BY Zenon, <1>1 DEF StartWrite
<1> HIDE DEF d
<1>5. Moves(t, d)
  BY Zenon, <1>1, <1>3, <1>4, MovesTo
<1>6. CallShape(d)
  BY Zenon, <1>3, PagesAssumption DEF CallShape
<1>7. UNCHANGED <<in_memory, file, pos, bad, data_, latch, page_latch, last, torn>>
  BY Zenon DEF StartWrite
<1>8. DbInv'
  BY Zenon, <1>1, <1>3, <1>5, <1>6, <1>7, StartKeeps
<1> QED BY Zenon, <1>3, <1>5, <1>8 DEF Moves

(* The owner starts to read the page as it was written last. *)
LEMMA FetchKeeps ==
  ASSUME DbInv, HeaderInv, Fetch
  PROVE  DbInv' /\ HeaderInv'
<1> DEFINE d == call'[Owner]
           h == last[HEADER_PAGE_ID]
<1>1. /\ roots = NotFetched /\ HEADER_PAGE_ID \notin torn /\ StartRead(Owner, HEADER_PAGE_ID)
      /\ roots' = [name \in Names |-> GetRootId(h, name)]
  BY Zenon DEF Fetch
<1>2. /\ DbInv' /\ d.at = "enter" /\ d.op = "read" /\ d.page = HEADER_PAGE_ID /\ d.n = 0
      /\ d.buf = call[Owner].buf /\ \A u \in Threads : u # Owner => call'[u] = call[u]
  BY Zenon, <1>1, ZeroInPages, ReadStarts
<1>3. last' = last /\ torn' = torn
  BY Zenon, <1>1 DEF StartRead
<1>4. d.buf = ZeroPage
  BY Zenon, <1>1, <1>2, ZeroTyped, IdleCall DEF HeaderInv
<1>5. roots' \in [Names -> Int] /\ Maps(h, roots')
  <2>1. h \in Pagefuls /\ IsHeader(h)
    BY Zenon, ZeroInPages DEF DbInv, DbTypes, HeaderInv
  <2>2. ASSUME NEW name \in Names PROVE GetRootId(h, name) \in Int
    <3>1. ASSUME NEW i \in 1 .. h[1][1] PROVE h[1 + i][2] \in Int
      <4>1. 1 + i \in 1 .. PAGE_SIZE
        BY <2>1, PagesAssumption DEF IsHeader
      <4>2. h[1 + i] \in Int \X Int
        BY Zenon, <2>1, <4>1 DEF Pagefuls, Cells
      <4> QED BY Zenon, <4>2
    <3> QED BY <2>1, <3>1, RootCases DEF Absent
  <2> QED BY Zenon, <1>1, <2>2 DEF Maps
<1>6. roots' # NotFetched
  BY <1>5, NamesAssumption DEF NotFetched
<1>7. OwnerReads'
  <2>1. \A i \in 1 .. PAGE_SIZE : d.buf[i] = IF i <= d.n THEN h[i] ELSE Zero
    BY <1>2, <1>4, ZeroTyped
  <2> QED BY Zenon, <1>1, <1>2, <1>3, <1>5, <1>6, <2>1 DEF OwnerReads
<1>8. OwnerHas'
  BY Zenon, <1>2 DEF OwnerHas
<1>9. \A t \in Threads : Op(t)' = "write" /\ call'[t].page = HEADER_PAGE_ID => t = Owner
  BY Zenon, <1>2 DEF HeaderInv, Op
<1> QED BY Zenon, <1>2, <1>3, <1>5, <1>6, <1>7, <1>8, <1>9 DEF HeaderInv

(* The owner starts to write the page it has. *)
LEMMA FlushKeeps ==
  ASSUME DbInv, HeaderInv, Flush
  PROVE  DbInv' /\ HeaderInv'
<1> DEFINE c == call[Owner]
           d == call'[Owner]
<1>1. roots # NotFetched /\ StartWrite(Owner, HEADER_PAGE_ID, c.buf) /\ roots' = roots
  BY Zenon DEF Flush
<1>2. c.op = "none" /\ c.buf \in Pagefuls
  BY Zenon, <1>1, ZeroInPages, IdleIs DEF StartWrite
<1>3. /\ DbInv' /\ d.at = "enter" /\ d.op = "write" /\ d.page = HEADER_PAGE_ID
      /\ d.buf = c.buf /\ \A u \in Threads : u # Owner => call'[u] = call[u]
  BY Zenon, <1>1, <1>2, ZeroInPages, WriteStarts
<1>4. last' = last /\ bad' = bad /\ in_memory' = in_memory /\ file' = file
  BY Zenon, <1>1 DEF StartWrite
<1>5. OwnerReads'
  BY Zenon, <1>3 DEF OwnerReads
<1>6. OwnerHas'
  BY Zenon, <1>1, <1>2, <1>3, <1>4 DEF HeaderInv, OwnerHas, Trusted, Fits
<1>7. \A t \in Threads : Op(t)' = "write" /\ call'[t].page = HEADER_PAGE_ID => t = Owner
  BY Zenon, <1>3 DEF HeaderInv, Op
<1> QED BY Zenon, <1>1, <1>3, <1>4, <1>5, <1>6, <1>7 DEF HeaderInv

(* The owner changes the page it has, in the way it promises. *)
LEMMA ChangeKeeps ==
  ASSUME DbInv, HeaderInv, NEW g \in Pagefuls, NEW name \in Names, NEW root \in Int, Change(g, name, root),
         g[1][1] \in 0 .. PAGE_SIZE - 1,
         ~bad => IsHeader(g),
         Trusted => Changed(call[Owner].buf, g, name, root)
  PROVE  DbInv' /\ HeaderInv'
<1> DEFINE c == call[Owner]
           d == [c EXCEPT !.buf = g]
<1>1. /\ roots # NotFetched /\ At(Owner) = "idle" /\ call' = [call EXCEPT ![Owner].buf = g]
      /\ roots' = [roots EXCEPT ![name] = root]
      /\ UNCHANGED <<in_memory, file, pos, bad, data_, latch, page_latch, last, torn>>
  BY Zenon DEF Change
<1>2. c.op = "none" /\ c.at = "idle" /\ c \in Calls /\ call \in [Threads -> Calls] /\ Owner \in Threads /\ DbTypes
      /\ CallShape(c)
  BY Zenon, <1>1, ZeroInPages, IdleIs DEF At, DbInv, Shapes
<1>3. d \in Calls /\ d.at = "idle" /\ d.op = "none" /\ d.buf = g /\ d.n = c.n /\ d.page = c.page
  BY Zenon, <1>2 DEF Calls
<1>4. call' = [call EXCEPT ![Owner] = d]
  BY Zenon, <1>1, <1>2
<1> HIDE DEF d
<1>5. Moves(Owner, d)
  BY Zenon, <1>2, <1>3, <1>4, MovesTo
<1>6. CallShape(d)
  BY Zenon, <1>2, <1>3 DEF CallShape
<1>7. DbInv'
  BY Zenon, <1>1, <1>2, <1>3, <1>5, <1>6, StartKeeps
<1>8. call'[Owner] = d /\ \A u \in Threads : u # Owner => call'[u] = call[u]
  BY Zenon, <1>5 DEF Moves
<1>9. roots \in [Names -> Int] /\ roots' \in [Names -> Int]
      /\ \A m \in Names : roots'[m] = IF m = name THEN root ELSE roots[m]
  BY Zenon, <1>1 DEF HeaderInv
<1>10. roots' # NotFetched
  BY <1>9, NamesAssumption DEF NotFetched
<1>11. Trusted' => Trusted /\ Maps(g, roots')
  <2>1. Trusted' => Trusted
    BY Zenon, <1>1 DEF Trusted, Fits
  <2>2. Trusted => Maps(c.buf, roots)
    BY Zenon, <1>1, <1>2 DEF HeaderInv, OwnerHas
  <2>3. ASSUME Trusted PROVE Maps(g, roots')
    BY Zenon, <1>9, <2>2, <2>3 DEF Maps, Changed
  <2> QED BY Zenon, <2>1, <2>3
<1>12. OwnerReads' /\ OwnerHas'
  BY Zenon, <1>1, <1>3, <1>8, <1>11 DEF OwnerReads, OwnerHas
<1>13. \A t \in Threads : Op(t)' = "write" /\ call'[t].page = HEADER_PAGE_ID => t = Owner
  BY Zenon, <1>8 DEF HeaderInv, Op
<1> QED BY Zenon, <1>1, <1>7, <1>9, <1>10, <1>12, <1>13 DEF HeaderInv

(* UpdateRootPageId is such a change. *)
LEMMA RootChanges ==
  ASSUME DbInv, HeaderInv, NEW name \in Names, NEW root_id \in Roots, NEW insert_record \in BOOLEAN,
         UpdateRootPageId(insert_record, name, root_id)
  PROVE  DbInv' /\ HeaderInv'
<1> DEFINE h == call[Owner].buf
<1>1. roots # NotFetched /\ At(Owner) = "idle"
  BY Zenon DEF UpdateRootPageId, Change
<1>2. call[Owner].op = "none" /\ h \in Pagefuls
  BY Zenon, <1>1, ZeroInPages, IdleIs
<1>3. /\ h[1][1] \in 0 .. PAGE_SIZE - 1 /\ (~bad => IsHeader(h)) /\ (Trusted => Maps(h, roots))
      /\ roots \in [Names -> Int] /\ (Trusted => ~bad)
  BY Zenon, <1>1, <1>2 DEF HeaderInv, OwnerHas, Trusted
<1>4. roots[name] \in Int /\ root_id \in Int /\ (Trusted => GetRootId(h, name) = roots[name])
  BY Zenon, <1>3, NamesAssumption DEF Maps
<1>5. CASE insert_record = TRUE
  <2> DEFINE g == InsertRecord(h, name, root_id)
             root == IF roots[name] = Absent THEN root_id ELSE roots[name]
  <2>1. (HasRoom(h) \/ HasRecord(h, name)) /\ Change(g, name, root)
    BY Zenon, <1>5 DEF UpdateRootPageId
  <2>2. g \in Pagefuls /\ g[1][1] \in 0 .. PAGE_SIZE - 1
    BY Zenon, <1>2, <1>3, <2>1, InsertTyped
  <2>3. ~bad => IsHeader(g)
    BY Zenon, <1>2, <1>3, <2>1, InsertMaps
  <2>4. Trusted => Changed(h, g, name, root)
    BY Zenon, <1>2, <1>3, <1>4, <2>1, InsertMaps
  <2>5. root \in Int
    BY Zenon, <1>4
  <2> HIDE DEF g, root
  <2> QED BY Zenon, <2>1, <2>2, <2>3, <2>4, <2>5, ChangeKeeps
<1>6. CASE insert_record = FALSE
  <2> DEFINE g == UpdateRecord(h, name, root_id)
             root == IF roots[name] # Absent THEN root_id ELSE Absent
  <2>1. Change(g, name, root)
    BY Zenon, <1>6 DEF UpdateRootPageId
  <2>2. g \in Pagefuls /\ g[1][1] \in 0 .. PAGE_SIZE - 1
    BY Zenon, <1>2, <1>3, UpdateTyped
  <2>3. ~bad => IsHeader(g)
    BY Zenon, <1>2, <1>3, UpdateMaps
  <2>4. Trusted => Changed(h, g, name, root)
    BY Zenon, <1>2, <1>3, <1>4, UpdateMaps
  <2>5. root \in Int
    BY Zenon, <1>4 DEF Absent
  <2> HIDE DEF g, root
  <2> QED BY Zenon, <2>1, <2>2, <2>3, <2>4, <2>5, ChangeKeeps
<1> QED BY Zenon, <1>5, <1>6

(* So is Delete. *)
LEMMA RootDeleted ==
  ASSUME DbInv, HeaderInv, NEW name \in Names, Delete(name)
  PROVE  DbInv' /\ HeaderInv'
<1> DEFINE h == call[Owner].buf
           g == DeleteRecord(h, name)
<1>1. Change(g, name, Absent) /\ roots # NotFetched /\ At(Owner) = "idle"
  BY Zenon DEF Delete, Change
<1>2. call[Owner].op = "none" /\ h \in Pagefuls
  BY Zenon, <1>1, ZeroInPages, IdleIs
<1>3. h[1][1] \in 0 .. PAGE_SIZE - 1 /\ (~bad => IsHeader(h)) /\ (Trusted => ~bad)
  BY Zenon, <1>1, <1>2 DEF HeaderInv, OwnerHas, Trusted
<1>4. g \in Pagefuls /\ g[1][1] \in 0 .. PAGE_SIZE - 1
  BY Zenon, <1>2, <1>3, DeleteTyped
<1>5. ~bad => IsHeader(g)
  BY Zenon, <1>2, <1>3, DeleteMaps
<1>6. Trusted => Changed(h, g, name, Absent)
  BY Zenon, <1>2, <1>3, DeleteMaps
<1>7. Absent \in Int
  BY DEF Absent
<1> HIDE DEF g
<1> QED BY Zenon, <1>1, <1>4, <1>5, <1>6, <1>7, ChangeKeeps

(* After a crash the header page is the one written last, or, in memory, an  *)
(* empty one.                                                                *)
LEMMA HeaderRestarts ==
  ASSUME DbInv, HeaderInv, Crash, roots' = NotFetched
  PROVE  HeaderInv'
<1>1. \A t \in Threads : call'[t] = Idle(ZeroPage) /\ call'[t].op = "none"
  BY Zenon, ZeroTyped, IdleCall DEF Crash, Start
<1>2. IsHeader(last'[HEADER_PAGE_ID])
  <2>1. CASE in_memory
    BY Zenon, <2>1, ZeroHeader, ZeroInPages DEF Crash
  <2>2. CASE ~in_memory
    BY Zenon, <2>2 DEF Crash, HeaderInv
  <2> QED BY Zenon, <2>1, <2>2
<1> QED BY Zenon, <1>1, <1>2, ZeroInPages DEF HeaderInv, OwnerReads, OwnerHas, Op

(* At the first start it is empty. *)
LEMMA HeaderStarts ==
  ASSUME FileInit
  PROVE  HeaderInv
<1>1. \A t \in Threads : call[t] = Idle(ZeroPage) /\ call[t].op = "none"
  BY Zenon, ZeroTyped, IdleCall DEF FileInit, Init
<1>2. IsHeader(last[HEADER_PAGE_ID])
  BY Zenon, ZeroHeader, ZeroInPages DEF FileInit, Init
<1> QED BY Zenon, <1>1, <1>2, ZeroInPages DEF HeaderInv, OwnerReads, OwnerHas, Op, FileInit

-----------------------------------------------------------------------------
(* The log is empty at first. *)
LEMMA LogStarts ==
  ASSUME Init
  PROVE  LogInv
<1>1. log_file = <<>> /\ logged = <<>> /\ log_call = LogIdle
  BY Zenon DEF Init
<1>2. log_call.at = "idle" /\ log_call.data = <<>> /\ log_call.n = 0
  BY Zenon, <1>1 DEF LogIdle
<1>3. <<>> \in Seq(Cells) /\ Len(<<>>) = 0 /\ <<>> = <<>> \o SubSeq(<<>>, 1, 0)
  OBVIOUS
<1> QED BY <1>1, <1>2, <1>3 DEF LogInv, LogGrowsAtEnd, LogIdle

(* After a crash the log is what is in its file. *)
LEMMA LogRestarts ==
  ASSUME LogInv, Crash
  PROVE  LogInv'
<1>1. log_file' = log_file /\ logged' = log_file /\ log_call' = LogIdle
  BY Zenon DEF Crash, Start
<1>2. log_call'.at = "idle" /\ log_call'.data = <<>> /\ log_call'.n = 0
  BY Zenon, <1>1 DEF LogIdle
<1>3. <<>> \in Seq(Cells) /\ Len(<<>>) = 0 /\ log_file \in Seq(Cells)
  BY DEF LogInv
<1>4. log_file = log_file \o SubSeq(<<>>, 1, 0)
  <2>1. SubSeq(<<>>, 1, 0) = <<>>
    OBVIOUS
  <2> QED BY <1>3, <2>1
<1> QED BY <1>1, <1>2, <1>3, <1>4 DEF LogInv, LogGrowsAtEnd, LogIdle

(* The log is left alone. *)
LEMMA LogUnchanged ==
  ASSUME LogInv, UNCHANGED log
  PROVE  LogInv'
BY Zenon DEF LogInv, LogGrowsAtEnd, log

(* A step of a disk manager leaves the log alone. *)
LEMMA StepKeeps ==
  ASSUME DbInv, NEW t \in Threads, Step(t)
  PROVE  DbInv' /\ UNCHANGED log
<1>1. DbInv'
  BY Zenon, EnterKeeps, TransferKeeps, FailKeeps, LeaveKeeps, EnterMemoryKeeps, LatchKeeps, CopyKeeps DEF Step
<1>2. UNCHANGED log
  BY Zenon DEF Step, Enter, Transfer, Fails, Leave, EnterMemory, LatchPage, TransferMemory
<1> QED BY Zenon, <1>1, <1>2

(* A step of the log leaves the database alone. *)
LEMMA LogStepAside ==
  ASSUME LogStep
  PROVE  UNCHANGED db
BY Zenon DEF LogStep, WriteLog, TransferLog, FailsLog, LeaveLog, ReadLog

(* The header page is left alone. *)
LEMMA HeaderUnchanged ==
  ASSUME HeaderInv, UNCHANGED <<db, roots>>
  PROVE  HeaderInv'
BY Zenon DEF HeaderInv, OwnerReads, OwnerHas, Trusted, Fits, Op, db

(* The invariant holds at first. *)
LEMMA StartsInductive == FileInit => IInv
<1> SUFFICES ASSUME FileInit PROVE IInv
  BY Zenon
<1>1. Init
  BY Zenon DEF FileInit
<1> QED BY Zenon, <1>1, StartsIntact, HeaderStarts, LogStarts DEF IInv, DbInv

(* Every step keeps it: one case for each action of FileNext. *)
LEMMA NextKeeps == IInv /\ [FileNext]_fileVars => IInv'
<1> SUFFICES ASSUME DbInv, HeaderInv, LogInv, [FileNext]_fileVars PROVE DbInv' /\ HeaderInv' /\ LogInv'
  BY Zenon DEF IInv, DbInv
<1>1. CASE Fetch
  <2>1. UNCHANGED log
    BY Zenon, <1>1 DEF Fetch, StartRead
  <2> QED BY Zenon, <1>1, <2>1, FetchKeeps, LogUnchanged
<1>2. CASE Flush
  <2>1. UNCHANGED log
    BY Zenon, <1>2 DEF Flush, StartWrite
  <2> QED BY Zenon, <1>2, <2>1, FlushKeeps, LogUnchanged
<1>3. ASSUME NEW name \in Names, NEW root_id \in Roots, NEW insert_record \in BOOLEAN,
             UpdateRootPageId(insert_record, name, root_id)
      PROVE  DbInv' /\ HeaderInv' /\ LogInv'
  <2>1. UNCHANGED log
    BY Zenon, <1>3 DEF UpdateRootPageId, Change
  <2> QED BY Zenon, <1>3, <2>1, RootChanges, LogUnchanged
<1>4. ASSUME NEW name \in Names, Delete(name)
      PROVE  DbInv' /\ HeaderInv' /\ LogInv'
  <2>1. UNCHANGED log
    BY Zenon, <1>4 DEF Delete, Change
  <2> QED BY Zenon, <1>4, <2>1, RootDeleted, LogUnchanged
<1>5. ASSUME NEW t \in Threads \ {Owner}, Other(t)
      PROVE  DbInv' /\ HeaderInv' /\ LogInv'
  <2>1. UNCHANGED log
    BY Zenon, <1>5 DEF Other, StartRead, StartWrite
  <2>2. DbInv'
    <3>1. ASSUME NEW p \in Pages, StartRead(t, p) PROVE DbInv'
      BY Zenon, <3>1, ReadStarts
    <3>2. ASSUME NEW p \in Pages, NEW page \in Contents, StartWrite(t, p, page) PROVE DbInv'
      <4>1. page \in Pagefuls
        BY Zenon, ContentsAssumption
      <4> QED BY Zenon, <3>2, <4>1, WriteStarts
    <3> QED BY Zenon, <1>5, <3>1, <3>2 DEF Other
  <2> QED BY Zenon, <1>5, <2>1, <2>2, OtherStarts, LogUnchanged
<1>6. ASSUME NEW t \in Threads, Running(t)
      PROVE  DbInv' /\ HeaderInv' /\ LogInv'
  <2>1. DbInv' /\ UNCHANGED log
    BY Zenon, <1>6, StepKeeps DEF Running
  <2>2. HeaderInv'
    BY Zenon, <1>6, <2>1, OtherRuns, OwnerRuns
  <2> QED BY Zenon, <2>1, <2>2, LogUnchanged
<1>7. CASE LogStep /\ UNCHANGED roots
  <2>1. UNCHANGED db
    BY Zenon, <1>7, LogStepAside
  <2> QED BY Zenon, <1>7, <2>1, DbUnchanged, HeaderUnchanged, LogSteps
<1>8. CASE Crash /\ roots' = NotFetched
  BY Zenon, <1>8, CrashKeeps, HeaderRestarts, LogRestarts
<1>9. CASE UNCHANGED fileVars
  <2>1. UNCHANGED db /\ UNCHANGED log /\ UNCHANGED roots
    BY Zenon, <1>9 DEF fileVars, vars, db, log
  <2> QED BY Zenon, <2>1, DbUnchanged, HeaderUnchanged, LogUnchanged
<1> QED BY Zenon, <1>1, <1>2, <1>3, <1>4, <1>5, <1>6, <1>7, <1>8, <1>9 DEF FileNext

(* It implies PagesIntact. *)
LEMMA InvariantTypes == IInv => PagesIntact
<1> SUFFICES ASSUME IInv PROVE PagesIntact
  BY Zenon
<1>1. DbTypes /\ Intact
  BY Zenon DEF IInv
<1>2. \A t \in Threads : call[t].n \in 0 .. PAGE_SIZE /\ call[t].page \in Pages /\ call[t].buf \in Pagefuls
  BY Zenon, <1>1, CallFields
<1>3. \A x \in {Len(file), pos} : \E p \in Pages : x \in 0 .. PAGE_SIZE * (1 + p)
  <2>1. ASSUME NEW x, Reach(x) PROVE \E p \in Pages : x \in 0 .. PAGE_SIZE * (1 + p)
    <3>1. PICK p \in Pages : x <= PAGE_SIZE * (1 + p)
      BY Zenon, <2>1 DEF Reach
    <3>2. x \in Nat /\ p \in Nat /\ PAGE_SIZE \in Nat
      BY Zenon, <2>1, PagesAssumption DEF Reach
    <3>3. PAGE_SIZE * (1 + p) \in Nat
      BY <3>2
    <3> HIDE DEF Reach
    <3>4. x \in 0 .. PAGE_SIZE * (1 + p)
      BY <3>1, <3>2, <3>3
    <3> QED BY Zenon, <3>4
  <2> QED BY Zenon, <1>1, <2>1 DEF DbTypes
<1>4. TypeOK
  BY Zenon, <1>1, <1>2, <1>3 DEF TypeOK, DbTypes
<1> QED BY Zenon, <1>1, <1>4 DEF PagesIntact, Intact, Stored

(* Pages are equal cell by cell. *)
LEMMA SamePage ==
  ASSUME NEW a \in Pagefuls, NEW b \in Pagefuls, \A i \in 1 .. PAGE_SIZE : a[i] = b[i]
  PROVE  a = b
<1>1. a = [i \in 1 .. PAGE_SIZE |-> a[i]] /\ b = [i \in 1 .. PAGE_SIZE |-> b[i]]
  BY Zenon DEF Pagefuls
<1> QED BY Zenon, <1>1

(* It implies ReadsLastWrite: nobody writes the page while the reader is     *)
(* under its latch.                                                          *)
LEMMA InvariantReads == IInv => ReadsLastWrite
<1> SUFFICES ASSUME IInv, NEW t \in Threads, At(t) = "transfer", Op(t) = "read", call[t].n = PAGE_SIZE,
                    call[t].page \notin torn, in_memory \/ Addressable(call[t].page)
             PROVE  call[t].buf = last[call[t].page]
  BY Zenon DEF ReadsLastWrite
<1> DEFINE c == call[t]
           p == c.page
<1>1. DbInv /\ DbTypes /\ Intact /\ FileMode /\ MemoryMode /\ PAGE_SIZE \in Nat \ {0}
  BY Zenon, PagesAssumption DEF IInv, DbInv
<1>2. p \in Pages /\ p \in Nat /\ c.buf \in Pagefuls /\ last[p] \in Pagefuls
  BY Zenon, <1>1, CallFields DEF DbTypes
<1>3. ~Writing(p)
  <2>1. ASSUME NEW u \in Threads, Op(u) = "write", call[u].page = p, At(u) = "transfer" PROVE FALSE
    <3>1. u # t
      BY Zenon, <2>1
    <3>2. CASE in_memory
      BY Zenon, <1>1, <2>1, <3>1, <3>2 DEF MemoryMode, Under
    <3>3. CASE ~in_memory
      BY Zenon, <1>1, <2>1, <3>1, <3>3 DEF FileMode
    <3> QED BY Zenon, <3>2, <3>3
  <2> QED BY Zenon, <2>1 DEF Writing
<1>4. last[p] = Stored(p)
  BY Zenon, <1>1, <1>2, <1>3 DEF Intact
<1>5. \A i \in 1 .. PAGE_SIZE : c.buf[i] = last[p][i]
  <2>1. CASE in_memory
    <3>1. p \in DOMAIN data_ /\ \A i \in 1 .. PAGE_SIZE : c.buf[i] = data_[p][i]
      BY Zenon, <1>1, <2>1 DEF MemoryMode, MemoryCall, At
    <3> QED BY Zenon, <1>4, <2>1, <3>1 DEF Stored
  <2>2. CASE ~in_memory
    <3>1. \A i \in 1 .. PAGE_SIZE : c.buf[i] = CellAt(file, p * PAGE_SIZE + i)
      BY Zenon, <1>1, <2>2 DEF FileMode, FileCall, At, Op
    <3>2. \A i \in 1 .. PAGE_SIZE : PageIn(file, p)[i] = CellAt(file, p * PAGE_SIZE + i)
      BY Zenon DEF PageIn
    <3> QED BY Zenon, <1>4, <2>2, <3>1, <3>2 DEF Stored
  <2> QED BY Zenon, <2>1, <2>2
<1> HIDE DEF c, p
<1>7. c.buf = last[p]
  BY Zenon, <1>2, <1>5, SamePage
<1> QED BY Zenon, <1>7 DEF c, p

(* It implies HeaderIsMap. *)
LEMMA InvariantMaps == IInv => HeaderIsMap
<1> SUFFICES ASSUME IInv, roots # NotFetched, At(Owner) = "idle", ~bad, in_memory \/ Fits
             PROVE  \A name \in Names : GetRootId(call[Owner].buf, name) = roots[name]
  BY Zenon DEF HeaderIsMap
<1>1. DbInv /\ HeaderInv
  BY Zenon DEF IInv, DbInv
<1>2. call[Owner].op = "none"
  BY Zenon, <1>1, ZeroInPages, IdleIs
<1> QED BY Zenon, <1>1, <1>2 DEF HeaderInv, OwnerHas, Trusted, Maps

(* The invariant of the disk managers, of the header page and of the log     *)
(* holds in every state, for every set of threads and pages, page size and   *)
(* width of an int, through I/O errors and crashes.                          *)
THEOREM FileInductive == FileSpec => []IInv
<1>1. FileInit => IInv
  BY Zenon, StartsInductive
<1>2. IInv /\ [FileNext]_fileVars => IInv'
  BY Zenon, NextKeeps
<1> QED BY <1>1, <1>2, PTL DEF FileSpec

(* For every number of threads and pages: a page that nobody is writing, and *)
(* no fault has torn, is stored as the last WritePage that was done has      *)
(* written it, in the file or in memory.                                     *)
THEOREM PagesSurvive == FileSpec => []PagesIntact
BY FileInductive, InvariantTypes, PTL

(* A ReadPage that is done has the page as the last WritePage left it, and   *)
(* not parts of two writes, under the latch of DiskManager and under the     *)
(* page latches of DiskManagerUnlimitedMemory.                               *)
THEOREM ReadsAreWhole == FileSpec => []ReadsLastWrite
BY FileInductive, InvariantReads, PTL

(* The header page gives each name the root that the last InsertRecord,      *)
(* UpdateRecord or DeleteRecord of that name has set, through flushes, other *)
(* threads, and restarts from the page flushed last.                         *)
THEOREM HeaderKeepsRoots == FileSpec => []HeaderIsMap
BY FileInductive, InvariantMaps, PTL

(* The log file is what was logged and the part of the running WriteLog that *)
(* is done, whatever faults and reads there were.                            *)
THEOREM LogAppends == FileSpec => []LogGrowsAtEnd
<1>1. IInv => LogGrowsAtEnd
  BY Zenon DEF IInv, LogInv
<1> QED BY <1>1, FileInductive, PTL
=============================================================================
