--------------------------- MODULE LRUKReplacer ---------------------------
(***************************************************************************)
(* The LRU-K replacement policy of the buffer pool (buffer/lru_k_replacer).*)
(* Every public operation holds latch_ throughout and is one step.         *)
(*                                                                         *)
(* BUSTUB_ASSERT is assert(): in a debug build a failing one stops the     *)
(* process (status "aborted"); with NDEBUG the macro's argument is not     *)
(* even evaluated, which removes the call of FindInternal that             *)
(* SetEvictableInternal makes inside it.                                   *)
(***************************************************************************)
EXTENDS Integers, Sequences, FiniteSets

CONSTANTS Frames,         \* frame ids the callers use
          replacer_size_,
          k_,
          Builds,         \* the builds considered: TRUE for one with NDEBUG
          SizeMax,        \* SIZE_MAX
          MaxTime,        \* bound on current_timestamp_
          NoFrame

ASSUME SizesAssumption ==
  /\ replacer_size_ \in Nat /\ k_ \in Nat \ {0} /\ SizeMax \in Nat
  /\ replacer_size_ <= SizeMax
ASSUME BuildsAssumption == Builds \subseteq BOOLEAN
(* The clock is a size_t; that it would wrap is beyond the bound *)
ASSUME ClockAssumption == MaxTime \in Nat /\ MaxTime <= SizeMax
ASSUME FramesAssumption == NoFrame \notin Frames

VARIABLES
  NDEBUG,    \* whether this build leaves the assertions out; never changes
  current_timestamp_,
  curr_size_,
  frames_,   \* FrameInfo in the order of push_back
  status,    \* "running" or "aborted"
  ret        \* the last call and the frame it returned or was given

vars == <<NDEBUG, current_timestamp_, curr_size_, frames_, status, ret>>

FrameInfo == [frame_id : Frames, accesses : Seq(Nat), evictable : BOOLEAN]

Info(f, a, e) == [frame_id |-> f, accesses |-> a, evictable |-> e]

Call(op, f) == [op |-> op, frame |-> f]

(* The clock starts at std::time(nullptr); only differences matter *)
Init ==
  /\ NDEBUG \in Builds
  /\ current_timestamp_ = 0
  /\ curr_size_ = 0
  /\ frames_ = <<>>
  /\ status = "running"
  /\ ret = Call("none", NoFrame)

-----------------------------------------------------------------------------
(* FindInternal: the positions of a frame id in frames_, at most one *)
Found(f) == {i \in DOMAIN frames_ : frames_[i].frame_id = f}

IndexOfFrame(f) == CHOOSE i \in Found(f) : TRUE

Abort ==
  /\ status' = "aborted"
  /\ UNCHANGED <<curr_size_, frames_>>

(* size_t arithmetic *)
Wrap(n) == n % (SizeMax + 1)

RecordAccess(f) ==
  /\ status = "running" /\ current_timestamp_ < MaxTime
  /\ current_timestamp_' = current_timestamp_ + 1
  /\ ret' = Call("access", f)
  /\ \/ /\ Found(f) # {}
        /\ LET fr == frames_[IndexOfFrame(f)]
           IN frames_' = [frames_ EXCEPT ![IndexOfFrame(f)] =
                            Info(f, Append(fr.accesses, current_timestamp_'), fr.evictable)]
        /\ UNCHANGED <<curr_size_, status>>
     \/ /\ Found(f) = {}
        /\ Len(frames_) < replacer_size_ \/ NDEBUG
        /\ frames_' = Append(frames_, Info(f, <<current_timestamp_'>>, FALSE))
        /\ UNCHANGED <<curr_size_, status>>
     \/ /\ Found(f) = {} /\ Len(frames_) >= replacer_size_ /\ ~NDEBUG
        /\ Abort

(* Mutant: the size changes even when the flag does not *)
ToggleAlways(index, set_evictable) ==
  LET fr == frames_[index]
  IN /\ curr_size_' = Wrap(IF set_evictable THEN curr_size_ + 1 ELSE curr_size_ - 1)
     /\ frames_' = [frames_ EXCEPT ![index] = Info(fr.frame_id, fr.accesses, set_evictable)]
     /\ UNCHANGED status

(* SetEvictableInternal from the point where index is known *)
Toggle(index, set_evictable) ==
  LET fr == frames_[index]
  IN /\ curr_size_' = IF fr.evictable = set_evictable THEN curr_size_
                      ELSE Wrap(IF set_evictable THEN curr_size_ + 1 ELSE curr_size_ - 1)
     /\ frames_' = [frames_ EXCEPT ![index] = Info(fr.frame_id, fr.accesses, set_evictable)]
     /\ UNCHANGED status

(* With NDEBUG index keeps its initial value 0, the first element.  With no  *)
(* element at all, frames_[0] reads what the vector's storage last held, or  *)
(* ends the process when there is no storage yet.                            *)
SetEvictable(f, set_evictable) ==
  /\ status = "running"
  /\ ret' = Call("set_evictable", f)
  /\ UNCHANGED current_timestamp_
  /\ \/ ~NDEBUG /\ Found(f) # {} /\ Toggle(IndexOfFrame(f), set_evictable)
     \/ ~NDEBUG /\ Found(f) = {} /\ Abort
     \/ NDEBUG /\ frames_ # <<>> /\ Toggle(1, set_evictable)
     \/ NDEBUG /\ frames_ = <<>> /\ Abort
     \/ /\ NDEBUG /\ frames_ = <<>>
        /\ curr_size_' \in {curr_size_, Wrap(IF set_evictable THEN curr_size_ + 1 ELSE curr_size_ - 1)}
        /\ UNCHANGED <<frames_, status>>

(* vector::erase *)
Erase(s, i) == SubSeq(s, 1, i - 1) \o SubSeq(s, i + 1, Len(s))

RemoveInternal(f) ==
  \/ Found(f) = {} /\ UNCHANGED <<curr_size_, frames_, status>>
  \/ /\ Found(f) # {}
     /\ frames_[IndexOfFrame(f)].evictable \/ NDEBUG
     /\ frames_' = Erase(frames_, IndexOfFrame(f))
     /\ curr_size_' = Wrap(curr_size_ - 1)
     /\ UNCHANGED status
  \/ /\ Found(f) # {} /\ ~frames_[IndexOfFrame(f)].evictable /\ ~NDEBUG
     /\ Abort

Remove(f) ==
  /\ status = "running"
  /\ ret' = Call("remove", f)
  /\ RemoveInternal(f)
  /\ UNCHANGED current_timestamp_

(* Mutant: the first frame met with fewer than k_ accesses is kept *)
VisitKeepsFirst(fr, best, now) ==
  IF ~fr.evictable \/ best.distance = SizeMax THEN best
  ELSE [distance |-> IF Len(fr.accesses) < k_ THEN SizeMax ELSE 0, frame |-> fr.frame_id]

(***************************************************************************)
(* The loop of EvictInternal, from the last frame to the first.  The       *)
(* comparison uses the k-th latest access, but the distance it then        *)
(* remembers is the one of accesses[k_ - 1], the k-th oldest.              *)
(***************************************************************************)
Visit(fr, best, now) ==
  IF ~fr.evictable THEN best
  ELSE IF Len(fr.accesses) < k_
       THEN [distance |-> SizeMax, frame |-> fr.frame_id]
       ELSE IF now - fr.accesses[Len(fr.accesses) - k_ + 1] > best.distance
            THEN [distance |-> now - fr.accesses[k_], frame |-> fr.frame_id]
            ELSE best

Victim(now) ==
  LET best[i \in 1 .. Len(frames_) + 1] ==
        IF i > Len(frames_) THEN [distance |-> 0, frame |-> NoFrame]
        ELSE Visit(frames_[i], best[i + 1], now)
  IN best[1].frame

Evict ==
  /\ status = "running" /\ current_timestamp_ < MaxTime
  /\ current_timestamp_' = current_timestamp_ + 1
  /\ LET found == \E i \in DOMAIN frames_ : frames_[i].evictable
         f == Victim(current_timestamp_')
     IN \/ found /\ ret' = Call("evict", f) /\ RemoveInternal(f)
        \/ ~found /\ ret' = Call("evict", NoFrame) /\ UNCHANGED <<curr_size_, frames_, status>>

Next ==
  /\ UNCHANGED NDEBUG
  /\ \/ \E f \in Frames :
          \/ RecordAccess(f)
          \/ Remove(f)
          \/ \E b \in BOOLEAN : SetEvictable(f, b)
     \/ Evict

Spec == Init /\ [][Next]_vars

-----------------------------------------------------------------------------
(* The size is a machine word, also after the decrements a release build    *)
(* does not guard, and the entries of frames_ are FrameInfo records.        *)
TypeOK ==
  /\ NDEBUG \in BOOLEAN
  /\ current_timestamp_ \in Nat
  /\ curr_size_ \in 0 .. SizeMax
  /\ frames_ \in Seq(FrameInfo)
  /\ status \in {"running", "aborted"}

EvictableIn(fs) == {fs[i].frame_id : i \in {j \in DOMAIN fs : fs[j].evictable}}
EvictableFrames == EvictableIn(frames_)

Distinct(fs) == \A i, j \in DOMAIN fs : fs[i].frame_id = fs[j].frame_id => i = j

SizeExact ==
  /\ curr_size_ = Cardinality(EvictableFrames)
  /\ Distinct(frames_)
  /\ Len(frames_) <= replacer_size_

(* Size() "tracks the number of evictable frames": in a build with          *)
(* assertions, over any sequence of accesses, toggles, removals and         *)
(* evictions, aborted calls included, curr_size_ counts the evictable       *)
(* entries, no frame has two entries, and no more than replacer_size_       *)
(* frames are tracked.                                                      *)
SizeIsEvictable == ~NDEBUG => SizeExact

Evicting(f) == ret'.op = "evict" /\ ret'.frame = f /\ current_timestamp_' # current_timestamp_

FirstAccess(i) == frames_[i].accesses[1]

(* Evict succeeds whenever a frame is evictable and only ever takes an      *)
(* evictable one; while some evictable frame has fewer than k_ accesses the *)
(* victim is the one of these whose first access is the earliest.           *)
(* EvictInternal relies for that on frames_ being in order of first access. *)
EvictTakesInfiniteFirst ==
  [][\A f \in Frames \cup {NoFrame} : Evicting(f) =>
       LET inf == {i \in DOMAIN frames_ : frames_[i].evictable /\ Len(frames_[i].accesses) < k_}
       IN /\ f = NoFrame <=> EvictableFrames = {}
          /\ f # NoFrame => f \in EvictableFrames /\ status' = "running"
          /\ inf # {} => \E i \in inf : /\ frames_[i].frame_id = f
                                        /\ \A j \in inf : FirstAccess(i) <= FirstAccess(j)]_vars
=============================================================================
