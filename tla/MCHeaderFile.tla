---------------------------- MODULE MCHeaderFile ----------------------------
(* Two threads besides the log's.  A page is three cells: the header page  *)
(* has room for two records.  An int of four bits holds the size of a file *)
(* of two pages; page 3 begins and ends behind what it can hold.           *)
EXTENDS HeaderFile

MCRoots == {INVALID_PAGE_ID, 1}
MCContents == {[i \in 1 .. PAGE_SIZE |-> <<1, i>>]}
MCLogEntries == {<<>>, <<<<1, 1>>, <<1, 2>>>>}

(* Bounds.  The log and the pages share no stream and no latch, and the    *)
(* records of the header page matter to nobody but its owner: a behaviour  *)
(* uses the log, or the header page with any records, or all the pages and *)
(* one record.                                                             *)
Quiet == log_file = <<>> /\ buffer_used = 0
OnlyLog == file = <<>> /\ data_ = <<>> /\ roots = NotFetched /\ \A t \in Threads : call[t] = Idle(ZeroPage)
OnlyHeader ==
  /\ \A t \in Threads \ {Owner} : call[t] = Idle(ZeroPage)
  /\ Len(file) <= PAGE_SIZE /\ DOMAIN data_ \subseteq {HEADER_PAGE_ID}
OneRecord ==
  \A page \in {call[Owner].buf} \cup {last[p] : p \in {HEADER_PAGE_ID} \ torn} :
    page[2] \in {Zero, <<1, 1>>} /\ page[3] = Zero

Bounded == OnlyLog \/ (Quiet /\ (OnlyHeader \/ OneRecord))

MCSpec == FileInit /\ [][FileNext /\ Bounded']_fileVars /\ \A t \in Threads : WF_fileVars(Running(t))
=============================================================================
