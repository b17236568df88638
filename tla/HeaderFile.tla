----------------------------- MODULE HeaderFile -----------------------------
(***************************************************************************)
(* The header page on disk: one thread keeps page HEADER_PAGE_ID in its    *)
(* buffer, as BPlusTree::UpdateRootPageId finds it in a frame of the       *)
(* buffer pool, changes its records there and reads and writes it through  *)
(* the disk manager, while other threads read it and write other pages.    *)
(***************************************************************************)
EXTENDS DiskManager, HeaderPage

CONSTANTS Owner,      \* the thread that has the header page
          Names,      \* of indexes
          Roots,      \* root page ids, INVALID_PAGE_ID (of an empty tree) among them
          Contents    \* what the other threads write into a page

HEADER_PAGE_ID == 0
INVALID_PAGE_ID == -1
Absent == -2
Pagefuls == [1 .. PAGE_SIZE -> Cells]

ASSUME OwnerAssumption == Owner \in Threads /\ HEADER_PAGE_ID \in Pages
ASSUME NamesAssumption == Names \subseteq Int /\ Names # {} /\ Roots \subseteq Int \ {Absent}
ASSUME ContentsAssumption == Contents \subseteq Pagefuls

VARIABLE roots        \* what the owner's calls promise of the page it has: the root of each name

NotFetched == <<>>

fileVars == <<vars, roots>>

FileInit == Init /\ roots = NotFetched

(* FetchPage: once the owner has read the page it may change it.  A page   *)
(* that a fault has torn is not looked into any more.                      *)
Fetch ==
  /\ roots = NotFetched /\ HEADER_PAGE_ID \notin torn
  /\ StartRead(Owner, HEADER_PAGE_ID)
  /\ roots' = [name \in Names |-> GetRootId(last[HEADER_PAGE_ID], name)]

Flush ==
  /\ roots # NotFetched
  /\ StartWrite(Owner, HEADER_PAGE_ID, call[Owner].buf)
  /\ UNCHANGED roots

Change(page, name, root_id) ==
  /\ roots # NotFetched /\ At(Owner) = "idle"
  /\ call' = [call EXCEPT ![Owner].buf = page]
  /\ roots' = [roots EXCEPT ![name] = root_id]
  /\ UNCHANGED <<in_memory, file, pos, bad, data_, latch, page_latch, last, torn, log, faults>>

(* InsertRecord asserts that there is a root, and runs over the end of the *)
(* page when it is full; it leaves a record that is there alone, and       *)
(* UpdateRecord one that is not.                                           *)
UpdateRootPageId(insert_record, name, root_id) ==
  /\ roots # NotFetched
  /\ LET h == call[Owner].buf
         root == IF insert_record = (roots[name] = Absent) THEN root_id ELSE roots[name]
     IN IF insert_record
        THEN /\ root_id > INVALID_PAGE_ID
             /\ HasRoom(h) \/ HasRecord(h, name)
             /\ Change(InsertRecord(h, name, root_id), name, root)
        ELSE Change(UpdateRecord(h, name, root_id), name, root)

(* DeleteRecord asserts that there is a record *)
Delete(name) ==
  /\ GetRecordCount(call[Owner].buf) > 0
  /\ Change(DeleteRecord(call[Owner].buf, name), name, Absent)

Other(t) ==
  /\ \/ \E p \in Pages : StartRead(t, p)
     \/ \E p \in Pages \ {HEADER_PAGE_ID}, page \in Contents : StartWrite(t, p, page)
  /\ UNCHANGED roots

Running(t) == Step(t) /\ UNCHANGED roots

FileNext ==
  \/ Fetch \/ Flush
  \/ \E name \in Names, root_id \in Roots, insert_record \in BOOLEAN :
       UpdateRootPageId(insert_record, name, root_id)
  \/ \E name \in Names : Delete(name)
  \/ \E t \in Threads \ {Owner} : Other(t)
  \/ \E t \in Threads : Running(t)
  \/ LogStep /\ UNCHANGED roots
  \/ Crash /\ roots' = NotFetched

(* A call of a disk manager runs on until it returns *)
FileSpec == FileInit /\ [][FileNext]_fileVars /\ \A t \in Threads : WF_fileVars(Running(t))

-----------------------------------------------------------------------------
TypeOK ==
  /\ latch \in Threads \cup {NoOne}
  /\ \A t \in Threads : call[t].n \in 0 .. PAGE_SIZE /\ call[t].page \in Pages /\ call[t].buf \in Pagefuls
  /\ \A p \in Pages : page_latch[p] \subseteq Threads /\ last[p] \in Pagefuls
  /\ torn \subseteq Pages /\ DOMAIN data_ \subseteq Pages
  /\ \A x \in {Len(file), pos} : \E p \in Pages : x \in 0 .. PAGE_SIZE * (1 + p)

(* The size of the file, and the offset of a page, can be held in an int *)
Fits == Len(file) < IntHalf
Addressable(p) == p * PAGE_SIZE < IntHalf

Writing(p) == \E t \in Threads : Op(t) = "write" /\ call[t].page = p /\ At(t) = "transfer"

(* Whatever is being written, fails or is cut off by a crash: a page that  *)
(* is not being written holds what WritePage wrote into it last, and zeros *)
(* if there was none, unless it was itself torn by a fault.  (With types.) *)
PagesIntact ==
  /\ TypeOK
  /\ \A p \in Pages \ torn : ~Writing(p) =>
    last[p] = IF in_memory THEN IF p \in DOMAIN data_ THEN data_[p] ELSE ZeroPage ELSE PageIn(file, p)

(* A ReadPage that is done has the page as WritePage left it last, not     *)
(* parts of two writes or of two pages.  If it was not done the buffer is  *)
(* not a result: the page is not there, the stream is bad, or the size of  *)
(* the file, too large for an int, seems to end before the page.  In a     *)
(* file the page's offset must fit an int.                                 *)
ReadsLastWrite ==
  \A t \in Threads :
    At(t) = "transfer" /\ Op(t) = "read" /\ call[t].n = PAGE_SIZE
      /\ call[t].page \notin torn /\ (in_memory \/ Addressable(call[t].page))
      => call[t].buf = last[call[t].page]

(* The header page is a map from names to roots: through insertions,       *)
(* updates, deletions, flushes and restarts it gives each name the root    *)
(* that its last call has set and no other call has touched, and after a   *)
(* restart the one that was flushed last.  (An error in reading the page   *)
(* is not reported, so nothing is said once the stream is bad.)            *)
HeaderIsMap ==
  roots # NotFetched /\ At(Owner) = "idle" /\ ~bad /\ (in_memory \/ Fits)
    => \A name \in Names : GetRootId(call[Owner].buf, name) = roots[name]

(* The log only grows, at its end and by what WriteLog was given, wherever *)
(* ReadLog has left the stream and whatever a fault has cut off.           *)
LogGrowsAtEnd == log_file = logged \o SubSeq(log_call.data, 1, log_call.n)

(* The threads never wait for each other: when all of them are in calls of *)
(* ReadPage and WritePage, one returns.  And a call returns, also when the *)
(* stream has gone bad, unless others keep the latch busy for ever, as a   *)
(* std::mutex, which is not fair, lets them.                               *)
CallsReturn ==
  /\ (\A t \in Threads : At(t) # "idle") ~> (\E t \in Threads : At(t) = "idle")
  /\ \A t \in Threads :
       (\A u \in Threads \ {t} : <>[](At(u) = "idle")) => (At(t) # "idle" ~> At(t) = "idle")
=============================================================================
