---------------------------- MODULE DiskManager -----------------------------
(***************************************************************************)
(* The disk managers (storage/disk): the pages of a database file behind   *)
(* one stream and one latch (DiskManager), the pages in memory behind a    *)
(* mutex and a latch per page (DiskManagerUnlimitedMemory), and the log    *)
(* file.  Threads read and write pages; one more thread, the log's,        *)
(* appends to the log and reads it.  The process may end at any step and   *)
(* be started again on the same files.                                     *)
(*                                                                         *)
(* A page is PAGE_SIZE cells, each of them a pair; a file is the sequence  *)
(* of its cells, and a cell that a seek skipped is zero.  A transfer moves *)
(* one cell per step, so that it may end, fail or be seen half way.  An    *)
(* int of w bits is given by IntHalf = 2^(w-1): it holds -IntHalf up to    *)
(* IntHalf - 1.                                                            *)
(***************************************************************************)
EXTENDS Integers, Sequences

CONSTANTS Threads,
          Pages,       \* the page ids in use
          PAGE_SIZE,   \* BUSTUB_PAGE_SIZE in cells
          LogEntries,  \* what a log buffer may hold: sequences of cells
          IntHalf,     \* how many non-negative values an int has
          MaxFaults,   \* bound: the crashes and I/O errors of a behaviour
          MaxLog       \* bound: no WriteLog on a log of this length

Zero == <<0, 0>>
ZeroPage == [i \in 1 .. PAGE_SIZE |-> Zero]
NoOne == "no one"

Cells == Int \X Int

ASSUME PagesAssumption == Pages \subseteq Nat /\ PAGE_SIZE \in Nat \ {0} /\ IntHalf \in Nat \ {0}
ASSUME ThreadsAssumption == NoOne \notin Threads
ASSUME LogAssumption == LogEntries \subseteq Seq(Cells)

VARIABLES in_memory,   \* whether the pages are kept in memory
          file,        \* the database file
          pos, bad,    \* db_io_: its position and its badbit
          data_,       \* the pages in memory, from their ids
          latch,       \* who holds db_io_latch_ or mutex_
          page_latch,  \* who holds the latch of a page in memory
          call,        \* what a thread is doing, and its buffer
          log_file, log_pos, log_bad, log_call, buffer_used, flush_log_,
          last,        \* by page, what the last WritePage that was done has written
          torn,        \* the pages that a fault has left half written
          logged,      \* what the calls of WriteLog have written
          faults

db == <<in_memory, file, pos, bad, data_, latch, page_latch, call, last, torn>>
log == <<log_file, log_pos, log_bad, log_call, buffer_used, flush_log_, logged>>
vars == <<in_memory, file, pos, bad, data_, latch, page_latch, call, last, torn,
          log_file, log_pos, log_bad, log_call, buffer_used, flush_log_, logged, faults>>

Idle(buf) == [at |-> "idle", op |-> "none", page |-> 0, n |-> 0, buf |-> buf]
LogIdle == [at |-> "idle", data |-> <<>>, n |-> 0]

(* A fresh process.  The constructor opens the files at their beginning, or *)
(* creates them; the one that keeps pages in memory opens none.             *)
Start ==
  /\ pos' = 0 /\ bad' = FALSE /\ latch' = NoOne
  /\ page_latch' = [p \in Pages |-> {}]
  /\ call' = [t \in Threads |-> Idle(ZeroPage)]
  /\ log_pos' = 0 /\ log_bad' = FALSE /\ log_call' = LogIdle
  /\ buffer_used' = 0 /\ flush_log_' = FALSE

Init ==
  /\ in_memory \in BOOLEAN
  /\ file = <<>> /\ pos = 0 /\ bad = FALSE /\ latch = NoOne /\ data_ = <<>>
  /\ page_latch = [p \in Pages |-> {}]
  /\ call = [t \in Threads |-> Idle(ZeroPage)]
  /\ log_file = <<>> /\ log_pos = 0 /\ log_bad = FALSE /\ log_call = LogIdle
  /\ buffer_used = 0 /\ flush_log_ = FALSE
  /\ last = [p \in Pages |-> ZeroPage] /\ torn = {} /\ logged = <<>> /\ faults = 0

-----------------------------------------------------------------------------
(* Conversion to int *)
AsInt(n) == LET m == n % (2 * IntHalf) IN IF m < IntHalf THEN m ELSE m - 2 * IntHalf

GetFileSize(f) == AsInt(Len(f))
CellAt(f, i) == IF i <= Len(f) THEN f[i] ELSE Zero
PutAt(f, i, cell) ==
  [k \in 1 .. IF i > Len(f) THEN i ELSE Len(f) |-> IF k = i THEN cell ELSE CellAt(f, k)]
PageIn(f, p) == [i \in 1 .. PAGE_SIZE |-> CellAt(f, p * PAGE_SIZE + i)]

At(t) == call[t].at
Op(t) == call[t].op
Goto(t, at, n) == call' = [call EXCEPT ![t].at = at, ![t].n = n]

(* A thread calls ReadPage with its buffer, or WritePage with contents buf *)
StartRead(t, p) ==
  /\ At(t) = "idle"
  /\ call' = [call EXCEPT ![t].at = "enter", ![t].op = "read", ![t].page = p, ![t].n = 0]
  /\ UNCHANGED <<in_memory, file, pos, bad, data_, latch, page_latch, last, torn, log, faults>>

StartWrite(t, p, buf) ==
  /\ At(t) = "idle"
  /\ call' = [call EXCEPT ![t].at = "enter", ![t].op = "write", ![t].page = p, ![t].n = 0,
                          ![t].buf = buf]
  /\ UNCHANGED <<in_memory, file, pos, bad, data_, latch, page_latch, last, torn, log, faults>>

-----------------------------------------------------------------------------
(* DiskManager: the latch and the seek.  WritePage computes its offset as  *)
(* a size_t, ReadPage as an int.  seekp on a negative offset fails, so     *)
(* that nothing is read and the buffer is zeroed.                          *)
SeekWrite(t) ==
  IF bad THEN Goto(t, "leave", 0) /\ UNCHANGED pos
  ELSE Goto(t, "transfer", 0) /\ pos' = call[t].page * PAGE_SIZE

SeekRead(t) ==
  LET offset == AsInt(call[t].page * PAGE_SIZE)
  IN IF offset > GetFileSize(file) \/ bad THEN Goto(t, "leave", 0) /\ UNCHANGED pos
     ELSE IF offset < 0
     THEN call' = [call EXCEPT ![t].at = "leave", ![t].n = PAGE_SIZE, ![t].buf = ZeroPage] /\ UNCHANGED pos
     ELSE Goto(t, "transfer", 0) /\ pos' = offset

(* Mutant: ReadPage does not take the latch *)
EnterReadUnlatched(t) ==
  /\ ~in_memory /\ At(t) = "enter"
  /\ IF Op(t) = "read" THEN SeekRead(t) /\ UNCHANGED latch
     ELSE latch = NoOne /\ latch' = t /\ SeekWrite(t)
  /\ UNCHANGED <<in_memory, file, bad, data_, page_latch, last, torn, log, faults>>

Enter(t) ==
  /\ ~in_memory /\ At(t) = "enter"
  /\ latch = NoOne /\ latch' = t
  /\ IF Op(t) = "read" THEN SeekRead(t) ELSE SeekWrite(t)
  /\ UNCHANGED <<in_memory, file, bad, data_, page_latch, last, torn, log, faults>>

(* Mutant: at the end of the file the read is tried again *)
TransferReadAgain(t) ==
  LET n == call[t].n
      ends == pos >= Len(file)
  IN /\ call' = IF ends THEN call ELSE [call EXCEPT ![t].buf[n + 1] = file[pos + 1], ![t].n = n + 1]
     /\ pos' = IF ends THEN pos ELSE pos + 1
     /\ UNCHANGED file

(* At the end of the file the rest of the buffer is zeroed *)
TransferRead(t) ==
  LET n == call[t].n
      ends == pos >= Len(file)
  IN /\ call' = [call EXCEPT ![t].buf = [i \in 1 .. PAGE_SIZE |->
                                           IF i = n + 1 \/ (i > n /\ ends) THEN CellAt(file, pos + 1) ELSE @[i]],
                             ![t].n = IF ends THEN PAGE_SIZE ELSE n + 1]
     /\ pos' = IF ends THEN pos ELSE pos + 1
     /\ UNCHANGED file

TransferWrite(t) ==
  LET n == call[t].n
  IN /\ file' = PutAt(file, pos + 1, call[t].buf[n + 1])
     /\ pos' = pos + 1
     /\ Goto(t, "transfer", n + 1)

Transfer(t) ==
  /\ ~in_memory /\ At(t) = "transfer" /\ call[t].n < PAGE_SIZE
  /\ IF Op(t) = "read" THEN TransferRead(t) ELSE TransferWrite(t)
  /\ UNCHANGED <<in_memory, bad, data_, latch, page_latch, last, torn, log, faults>>

(* An I/O error: the badbit stays set, the call returns as if it were done *)
Fails(t) ==
  /\ ~in_memory /\ At(t) = "transfer" /\ call[t].n < PAGE_SIZE
  /\ faults < MaxFaults /\ faults' = faults + 1
  /\ bad' = TRUE
  /\ Goto(t, "leave", call[t].n)
  /\ torn' = IF Op(t) = "write" THEN torn \cup {call[t].page} ELSE torn
  /\ UNCHANGED <<in_memory, file, pos, data_, latch, page_latch, last, log>>

Leave(t) ==
  /\ At(t) = "leave" \/ (At(t) = "transfer" /\ call[t].n = PAGE_SIZE)
  /\ call' = [call EXCEPT ![t] = Idle(call[t].buf)]
  /\ latch' = IF latch = t THEN NoOne ELSE latch
  /\ page_latch' = [p \in Pages |-> page_latch[p] \ {t}]
  /\ IF Op(t) = "write" /\ call[t].n = PAGE_SIZE
     THEN last' = [last EXCEPT ![call[t].page] = call[t].buf] /\ torn' = torn \ {call[t].page}
     ELSE UNCHANGED <<last, torn>>
  /\ UNCHANGED <<in_memory, file, pos, bad, data_, log, faults>>

-----------------------------------------------------------------------------
(* DiskManagerUnlimitedMemory: mutex_ first; the page's latch is taken     *)
(* while it is held.                                                       *)
EnterMemory(t) ==
  LET p == call[t].page
  IN /\ in_memory /\ At(t) = "enter"
     /\ latch = NoOne
     /\ IF Op(t) = "read" /\ p \notin DOMAIN data_
        THEN Goto(t, "leave", 0) /\ UNCHANGED <<data_, latch>>
        ELSE /\ Goto(t, "latch", 0)
             /\ data_' = [q \in DOMAIN data_ \cup {p} |-> IF q \in DOMAIN data_ THEN data_[q] ELSE ZeroPage]
             /\ latch' = t
     /\ UNCHANGED <<in_memory, file, pos, bad, page_latch, last, torn, log, faults>>

(* Mutant: a reader does not wait for a writer *)
LatchPageForWriters(t) ==
  LET p == call[t].page
  IN /\ At(t) = "latch"
     /\ Op(t) = "read" \/ page_latch[p] = {}
     /\ page_latch' = [page_latch EXCEPT ![p] = @ \cup {t}]
     /\ latch' = NoOne
     /\ Goto(t, "transfer", 0)
     /\ UNCHANGED <<in_memory, file, pos, bad, data_, last, torn, log, faults>>

(* A reader shares the latch with readers *)
LatchPage(t) ==
  LET p == call[t].page
  IN /\ At(t) = "latch"
     /\ \A u \in page_latch[p] : Op(t) = "read" /\ Op(u) = "read"
     /\ page_latch' = [page_latch EXCEPT ![p] = @ \cup {t}]
     /\ latch' = NoOne
     /\ Goto(t, "transfer", 0)
     /\ UNCHANGED <<in_memory, file, pos, bad, data_, last, torn, log, faults>>

TransferMemory(t) ==
  LET p == call[t].page
      n == call[t].n + 1
  IN /\ in_memory /\ At(t) = "transfer" /\ n <= PAGE_SIZE
     /\ IF Op(t) = "read"
        THEN call' = [call EXCEPT ![t].buf[n] = data_[p][n], ![t].n = n] /\ UNCHANGED data_
        ELSE data_' = [data_ EXCEPT ![p][n] = call[t].buf[n]] /\ Goto(t, "transfer", n)
     /\ UNCHANGED <<in_memory, file, pos, bad, latch, page_latch, last, torn, log, faults>>

-----------------------------------------------------------------------------
(* The log.  The caller has two buffers and swaps them; the assertion in   *)
(* WriteLog ends the process when it has not.  With pages in memory the    *)
(* stream was never opened: a write fails, and there is no file to read.   *)
WriteLog(b, entry) ==
  /\ log_call.at = "idle" /\ b # buffer_used
  /\ Len(log_file) < MaxLog
  /\ buffer_used' = b
  /\ IF entry = <<>> THEN UNCHANGED <<log_bad, log_call, flush_log_>>
     ELSE /\ flush_log_' = TRUE
          /\ log_bad' = (log_bad \/ in_memory)
          /\ log_call' = [at |-> IF log_bad' THEN "leave" ELSE "transfer", data |-> entry, n |-> 0]
  /\ UNCHANGED <<db, log_file, log_pos, logged, faults>>

(* Mutant: the log is not opened for appending *)
TransferLogAtPos ==
  /\ log_call.at = "transfer"
  /\ log_file' = PutAt(log_file, log_pos + 1, log_call.data[log_call.n + 1])
  /\ log_pos' = log_pos + 1
  /\ log_call' = [log_call EXCEPT !.n = @ + 1, !.at = IF log_call.n + 1 = Len(log_call.data) THEN "leave" ELSE @]
  /\ UNCHANGED <<db, log_bad, buffer_used, flush_log_, logged, faults>>

(* std::ios::app: at the end, wherever ReadLog has left the position *)
TransferLog ==
  /\ log_call.at = "transfer"
  /\ log_file' = Append(log_file, log_call.data[log_call.n + 1])
  /\ log_pos' = Len(log_file) + 1
  /\ log_call' = [log_call EXCEPT !.n = @ + 1, !.at = IF log_call.n + 1 = Len(log_call.data) THEN "leave" ELSE @]
  /\ UNCHANGED <<db, log_bad, buffer_used, flush_log_, logged, faults>>

FailsLog ==
  /\ log_call.at = "transfer"
  /\ faults < MaxFaults /\ faults' = faults + 1
  /\ log_bad' = TRUE
  /\ log_call' = [log_call EXCEPT !.at = "leave"]
  /\ UNCHANGED <<db, log_file, log_pos, buffer_used, flush_log_, logged>>

(* flush_log_ stays set when the write has failed *)
LeaveLog ==
  /\ log_call.at = "leave"
  /\ log_call' = LogIdle
  /\ flush_log_' = log_bad
  /\ logged' = logged \o SubSeq(log_call.data, 1, log_call.n)
  /\ UNCHANGED <<db, log_file, log_pos, log_bad, buffer_used, faults>>

(* What is read is not kept here, only where it leaves the stream *)
ReadLog(size, offset) ==
  /\ log_call.at = "idle" /\ ~log_bad /\ ~in_memory
  /\ offset < GetFileSize(log_file)
  /\ log_pos' = IF offset + size < Len(log_file) THEN offset + size ELSE Len(log_file)
  /\ UNCHANGED <<db, log_file, log_bad, log_call, buffer_used, flush_log_, logged, faults>>

-----------------------------------------------------------------------------
(* The process ends, and a new one opens the files.  Pages in memory are   *)
(* gone; of a transfer into a file some cells are there.                   *)
Crash ==
  /\ faults < MaxFaults /\ faults' = faults + 1
  /\ Start
  /\ data_' = <<>>
  /\ last' = IF in_memory THEN [p \in Pages |-> ZeroPage] ELSE last
  /\ torn' = torn \cup {call[t].page : t \in {u \in Threads : ~in_memory /\ At(u) = "transfer" /\ Op(u) = "write"}}
  /\ logged' = log_file
  /\ UNCHANGED <<in_memory, file, log_file>>

Step(t) ==
  \/ Enter(t) \/ Transfer(t) \/ Fails(t) \/ Leave(t)
  \/ EnterMemory(t) \/ LatchPage(t) \/ TransferMemory(t)

LogStep ==
  \/ \E b \in {1, 2}, entry \in LogEntries : WriteLog(b, entry)
  \/ TransferLog \/ FailsLog \/ LeaveLog
  \/ \E offset \in 0 .. MaxLog, size \in 1 .. MaxLog : ReadLog(size, offset)
=============================================================================
