------------------------ MODULE LRUKReplacerProofs ------------------------
(* LRUKReplacer counts its evictable frames and evicts the right one, for   *)
(* every set of frames, every size of the replacer and every k.             *)
EXTENDS LRUKReplacer, SequenceTheorems, FiniteSetTheorems, WellFoundedInduction, TLAPS

(* A word stays in its range, and below the modulus it does not wrap.       *)
LEMMA WrapRange ==
  ASSUME NEW n \in Int
  PROVE  Wrap(n) \in 0 .. SizeMax
BY SizesAssumption DEF Wrap

(* curr_size_ is a size_t: what fits is kept.                               *)
LEMMA WrapFits ==
  ASSUME NEW n \in 0 .. SizeMax
  PROVE  Wrap(n) = n
BY SizesAssumption DEF Wrap

(* vector::erase: what follows the erased entry moves up one place.         *)
LEMMA Erased ==
  ASSUME NEW S, NEW s \in Seq(S), NEW i \in 1 .. Len(s)
  PROVE  /\ Erase(s, i) \in Seq(S)
         /\ Len(Erase(s, i)) = Len(s) - 1
         /\ \A j \in 1 .. Len(s) - 1 :
              Erase(s, i)[j] = IF j < i THEN s[j] ELSE s[j + 1]
<1> DEFINE a == SubSeq(s, 1, i - 1)
           b == SubSeq(s, i + 1, Len(s))
<1>1. Len(s) \in Nat /\ \A j \in 1 .. Len(s) : s[j] \in S
  BY Zenon, ElementOfSeq, LenProperties
<1>2. /\ a \in Seq(S) /\ Len(a) = i - 1
      /\ \A j \in 1 .. i - 1 : a[j] = s[j]
  <2>1. /\ a \in Seq(S) /\ Len(a) = IF 1 <= i - 1 THEN (i - 1) - 1 + 1 ELSE 0
        /\ \A j \in 1 .. (i - 1) - 1 + 1 : a[j] = s[1 + j - 1]
    <3>1. 1 \in Int /\ i - 1 \in Int /\ \A j \in 1 .. i - 1 : s[j] \in S
      BY <1>1
    <3> QED BY <3>1, SubSeqProperties
  <2> QED BY <2>1, <1>1
<1>3. /\ b \in Seq(S) /\ Len(b) = Len(s) - i
      /\ \A j \in 1 .. Len(s) - i : b[j] = s[i + j]
  <2>1. /\ b \in Seq(S) /\ Len(b) = IF i + 1 <= Len(s) THEN Len(s) - (i + 1) + 1 ELSE 0
        /\ \A j \in 1 .. Len(s) - (i + 1) + 1 : b[j] = s[i + 1 + j - 1]
    <3>1. i + 1 \in Int /\ Len(s) \in Int /\ \A j \in i + 1 .. Len(s) : s[j] \in S
      BY <1>1
    <3> QED BY <3>1, SubSeqProperties
  <2> QED BY <2>1, <1>1
<1>4. /\ a \o b \in Seq(S) /\ Len(a \o b) = Len(a) + Len(b)
      /\ \A j \in 1 .. Len(a) + Len(b) : (a \o b)[j] = IF j <= Len(a) THEN a[j] ELSE b[j - Len(a)]
  BY Zenon, <1>2, <1>3, ConcatProperties
<1>5. Erase(s, i) = a \o b
  BY Zenon DEF Erase
<1>6. ASSUME NEW j \in 1 .. Len(s) - 1
      PROVE  (a \o b)[j] = IF j < i THEN s[j] ELSE s[j + 1]
  <2> HIDE DEF a, b
  <2>1. CASE j < i
    BY <2>1, <1>1, <1>2, <1>3, <1>4
  <2>2. CASE ~(j < i)
    <3>1. j - Len(a) \in 1 .. Len(s) - i /\ i + (j - Len(a)) = j + 1
      BY <2>2, <1>1, <1>2
    <3>2. (a \o b)[j] = b[j - Len(a)]
      BY <2>2, <1>1, <1>2, <1>3, <1>4
    <3> QED BY Zenon, <3>1, <3>2, <2>2, <1>3
  <2> QED BY Zenon, <2>1, <2>2
<1> HIDE DEF a, b
<1> QED BY <1>1, <1>2, <1>3, <1>4, <1>5, <1>6

(* There are no more evictable frames than entries.                         *)
LEMMA EvictableFinite ==
  ASSUME NEW fs \in Seq(FrameInfo)
  PROVE  /\ IsFiniteSet(EvictableIn(fs))
         /\ Cardinality(EvictableIn(fs)) \in 0 .. Len(fs)
<1> DEFINE S == {j \in DOMAIN fs : fs[j].evictable}
           f == [i \in S |-> fs[i].frame_id]
<1>1. Len(fs) \in Nat /\ DOMAIN fs = 1 .. Len(fs)
  BY Zenon, LenProperties
<1>2. IsFiniteSet(1 .. Len(fs)) /\ Cardinality(1 .. Len(fs)) = Len(fs)
  BY <1>1, FS_Interval
<1>3. S \in SUBSET (1 .. Len(fs))
  BY Zenon, <1>1
<1>4. IsFiniteSet(S) /\ Cardinality(S) <= Len(fs)
  <2> HIDE DEF S
  <2> QED BY Zenon, <1>2, <1>3, FS_Subset
<1>5. f \in Surjection(S, EvictableIn(fs))
  BY Zenon DEF Surjection, EvictableIn
<1>6. IsFiniteSet(EvictableIn(fs)) /\ Cardinality(EvictableIn(fs)) <= Cardinality(S)
  <2> HIDE DEF S, f
  <2> QED BY Zenon, <1>4, <1>5, FS_Surjection
<1>7. Cardinality(EvictableIn(fs)) \in Nat /\ Cardinality(S) \in Nat
  <2> HIDE DEF S
  <2> QED BY Zenon, <1>4, <1>6, FS_CardinalityType
<1> HIDE DEF S
<1> QED BY <1>1, <1>4, <1>6, <1>7

(* An entry's id counts as evictable exactly when the entry is.             *)
LEMMA EvictableEntry ==
  ASSUME NEW fs, Distinct(fs), NEW i \in DOMAIN fs
  PROVE  fs[i].frame_id \in EvictableIn(fs) <=> fs[i].evictable
BY Zenon DEF Distinct, EvictableIn

(* The vector with another history and flag in entry i. *)
WithEntry(fs, i, a, e) == [fs EXCEPT ![i] = Info(fs[i].frame_id, a, e)]

(* Replacing an entry's history and flag keeps the vector.                  *)
LEMMA EntrySet ==
  ASSUME NEW fs \in Seq(FrameInfo), NEW i \in 1 .. Len(fs), NEW a \in Seq(Nat), NEW e \in BOOLEAN,
         NEW gs, gs = WithEntry(fs, i, a, e)
  PROVE  /\ gs \in Seq(FrameInfo) /\ Len(gs) = Len(fs) /\ DOMAIN gs = DOMAIN fs
         /\ i \in DOMAIN fs
         /\ \A j \in DOMAIN fs : /\ gs[j].frame_id = fs[j].frame_id
                                 /\ gs[j].evictable = IF j = i THEN e ELSE fs[j].evictable
         /\ Distinct(fs) => Distinct(gs)
<1>1. DOMAIN fs = 1 .. Len(fs) /\ fs[i] \in FrameInfo
  BY Zenon, LenProperties, ElementOfSeq
<1>2. Info(fs[i].frame_id, a, e) \in FrameInfo
  BY Zenon, <1>1 DEF Info, FrameInfo
<1>3. /\ gs \in Seq(FrameInfo) /\ Len(gs) = Len(fs)
      /\ \A j \in 1 .. Len(fs) : gs[j] = IF j = i THEN Info(fs[i].frame_id, a, e) ELSE fs[j]
  BY <1>2, ExceptSeq DEF WithEntry
<1>4. DOMAIN gs = DOMAIN fs
  BY Zenon DEF WithEntry
<1>5. \A j \in DOMAIN fs : /\ gs[j].frame_id = fs[j].frame_id
                           /\ gs[j].evictable = IF j = i THEN e ELSE fs[j].evictable
  BY <1>1, <1>3 DEF Info
<1>6. Distinct(fs) => Distinct(gs)
  BY Zenon, <1>4, <1>5 DEF Distinct
<1> QED BY Zenon, <1>1, <1>3, <1>4, <1>5, <1>6

(* SetEvictable(f, true) adds the frame to the evictable ones.              *)
LEMMA EntryShown ==
  ASSUME NEW fs \in Seq(FrameInfo), NEW i \in 1 .. Len(fs), NEW a \in Seq(Nat), NEW e \in BOOLEAN,
         NEW gs, gs = WithEntry(fs, i, a, e)
  PROVE  e => EvictableIn(gs) = EvictableIn(fs) \cup {fs[i].frame_id}
<1>1. /\ DOMAIN gs = DOMAIN fs /\ i \in DOMAIN fs
      /\ \A j \in DOMAIN fs : /\ gs[j].frame_id = fs[j].frame_id
                              /\ gs[j].evictable = IF j = i THEN e ELSE fs[j].evictable
  BY EntrySet
<1>2. ASSUME e
      PROVE  \A x : x \in EvictableIn(gs) <=> x \in EvictableIn(fs) \/ x = fs[i].frame_id
  <2>1. gs[i].evictable = e
    BY Zenon, <1>1
  <2>2. gs[i].evictable
    BY Zenon, <1>2, <2>1
  <2>3. \A j \in DOMAIN fs : j # i => gs[j].evictable = fs[j].evictable
    BY Zenon, <1>1
  <2> QED BY <1>1, <2>2, <2>3 DEF EvictableIn
<1> QED BY Zenon, <1>2

(* SetEvictable(f, false) takes it away.                                    *)
LEMMA EntryHidden ==
  ASSUME NEW fs \in Seq(FrameInfo), NEW i \in 1 .. Len(fs), NEW a \in Seq(Nat), NEW e \in BOOLEAN, ~e,
         Distinct(fs), NEW gs, gs = WithEntry(fs, i, a, e)
  PROVE  EvictableIn(gs) = EvictableIn(fs) \ {fs[i].frame_id}
<1>1. /\ DOMAIN gs = DOMAIN fs /\ i \in DOMAIN fs
      /\ \A j \in DOMAIN fs : /\ gs[j].frame_id = fs[j].frame_id
                              /\ gs[j].evictable = IF j = i THEN e ELSE fs[j].evictable
  BY EntrySet
<1>2. \A x : x \in EvictableIn(gs) <=> x \in EvictableIn(fs) /\ x # fs[i].frame_id
  BY <1>1 DEF EvictableIn, Distinct
<1> QED BY Zenon, <1>2

(* RecordAccess enters a new frame as not evictable.                        *)
LEMMA EntryAdded ==
  ASSUME NEW fs \in Seq(FrameInfo), NEW x \in FrameInfo, ~x.evictable,
         NEW gs, gs = Append(fs, x)
  PROVE  /\ gs \in Seq(FrameInfo) /\ Len(gs) = Len(fs) + 1
         /\ EvictableIn(gs) = EvictableIn(fs)
         /\ Distinct(fs) /\ (\A i \in DOMAIN fs : fs[i].frame_id # x.frame_id) => Distinct(gs)
<1>1. /\ gs \in Seq(FrameInfo) /\ Len(gs) = Len(fs) + 1
      /\ \A i \in 1 .. Len(fs) : gs[i] = fs[i]
      /\ gs[Len(fs) + 1] = x
  BY AppendProperties
<1>2. Len(fs) \in Nat /\ DOMAIN fs = 1 .. Len(fs) /\ DOMAIN gs = 1 .. Len(fs) + 1
  BY Zenon, <1>1, LenProperties
<1>3. DOMAIN gs = DOMAIN fs \cup {Len(fs) + 1}
  BY <1>2
<1>4. EvictableIn(gs) = EvictableIn(fs)
  BY <1>1, <1>2, <1>3 DEF EvictableIn
<1>5. Distinct(fs) /\ (\A i \in DOMAIN fs : fs[i].frame_id # x.frame_id) => Distinct(gs)
  BY <1>1, <1>2, <1>3 DEF Distinct
<1> QED BY Zenon, <1>1, <1>4, <1>5

(* RemoveInternal erases an entry, and with it its id.                      *)
LEMMA EntryRemoved ==
  ASSUME NEW fs \in Seq(FrameInfo), Distinct(fs), NEW i \in 1 .. Len(fs),
         NEW gs, gs = Erase(fs, i)
  PROVE  Distinct(gs) /\ EvictableIn(gs) = EvictableIn(fs) \ {fs[i].frame_id}
<1>1. /\ gs \in Seq(FrameInfo) /\ Len(gs) = Len(fs) - 1
      /\ \A j \in 1 .. Len(fs) - 1 : gs[j] = IF j < i THEN fs[j] ELSE fs[j + 1]
  BY Zenon, Erased
<1>2. Len(fs) \in Nat /\ DOMAIN fs = 1 .. Len(fs) /\ DOMAIN gs = 1 .. Len(fs) - 1
  BY Zenon, <1>1, LenProperties
<1>3. \A j \in DOMAIN gs : \E q \in DOMAIN fs : q = (IF j < i THEN j ELSE j + 1) /\ q # i /\ gs[j] = fs[q]
  BY <1>1, <1>2
<1>4. \A q \in DOMAIN fs : q # i => \E j \in DOMAIN gs : gs[j] = fs[q]
  <2> SUFFICES ASSUME NEW q \in DOMAIN fs, q # i
               PROVE  \E j \in DOMAIN gs : gs[j] = fs[q]
    BY Zenon
  <2>1. CASE q < i
    <3>1. q \in 1 .. Len(fs) - 1
      BY <2>1, <1>2
    <3> QED BY Zenon, <3>1, <2>1, <1>1, <1>2
  <2>2. CASE q > i
    <3>1. q - 1 \in 1 .. Len(fs) - 1 /\ ~(q - 1 < i) /\ (q - 1) + 1 = q
      BY <2>2, <1>2
    <3> QED BY Zenon, <3>1, <1>1, <1>2
  <2> QED BY <2>1, <2>2, <1>2
<1>5. Distinct(gs)
  BY <1>2, <1>3 DEF Distinct
<1>6. \A x : x \in EvictableIn(gs) <=> x \in EvictableIn(fs) /\ x # fs[i].frame_id
  <2>1. ASSUME NEW x \in EvictableIn(gs)
        PROVE  x \in EvictableIn(fs) /\ x # fs[i].frame_id
    BY <1>2, <1>3 DEF EvictableIn, Distinct
  <2>2. ASSUME NEW x \in EvictableIn(fs), x # fs[i].frame_id
        PROVE  x \in EvictableIn(gs)
    BY <1>4, <2>2 DEF EvictableIn
  <2> QED BY Zenon, <2>1, <2>2
<1> QED BY Zenon, <1>5, <1>6

(* A frame that is found is an entry of the vector.                         *)
LEMMA FoundIndex ==
  ASSUME TypeOK, NEW f, Found(f) # {}
  PROVE  /\ IndexOfFrame(f) \in 1 .. Len(frames_)
         /\ frames_[IndexOfFrame(f)] \in FrameInfo
         /\ frames_[IndexOfFrame(f)].frame_id = f
<1>1. IndexOfFrame(f) \in Found(f)
  BY Zenon DEF IndexOfFrame
<1>2. /\ IndexOfFrame(f) \in DOMAIN frames_
      /\ frames_[IndexOfFrame(f)].frame_id = f
  BY Zenon, <1>1 DEF Found
<1>3. DOMAIN frames_ = 1 .. Len(frames_)
  BY Zenon, LenProperties DEF TypeOK
<1> QED BY Zenon, <1>2, <1>3, ElementOfSeq DEF TypeOK

(* What one operation does to the entries: nothing, one entry's flag or      *)
(* history replaced, a new entry that is not evictable, or one erased.      *)
SetEntry(i, a, e) ==
  /\ frames_' = WithEntry(frames_, i, a, e)
  /\ curr_size_' = IF frames_[i].evictable = e THEN curr_size_
                   ELSE Wrap(IF e THEN curr_size_ + 1 ELSE curr_size_ - 1)

AddEntry(f, a) ==
  /\ frames_' = Append(frames_, Info(f, a, FALSE))
  /\ curr_size_' = curr_size_

EraseEntry(i) ==
  /\ frames_' = Erase(frames_, i)
  /\ curr_size_' = Wrap(curr_size_ - 1)

Change ==
  \/ UNCHANGED <<curr_size_, frames_>>
  \/ \E i \in 1 .. Len(frames_), a \in Seq(Nat), e \in BOOLEAN : SetEntry(i, a, e)
  \/ \E f \in Frames, a \in Seq(Nat) :
       Found(f) = {} /\ (Len(frames_) < replacer_size_ \/ NDEBUG) /\ AddEntry(f, a)
  \/ \E i \in 1 .. Len(frames_) : (frames_[i].evictable \/ NDEBUG) /\ EraseEntry(i)
  \/ /\ NDEBUG
     /\ frames_' = frames_ /\ curr_size_' \in {curr_size_, Wrap(curr_size_ + 1), Wrap(curr_size_ - 1)}

(* The entries are typed after each of these changes.                       *)
LEMMA EntriesTyped ==
  ASSUME TypeOK, Change
  PROVE  frames_' \in Seq(FrameInfo) /\ curr_size_' \in 0 .. SizeMax
<1>1. frames_ \in Seq(FrameInfo) /\ curr_size_ \in 0 .. SizeMax
  BY Zenon DEF TypeOK
<1>2. Wrap(curr_size_ + 1) \in 0 .. SizeMax /\ Wrap(curr_size_ - 1) \in 0 .. SizeMax
  <2>1. curr_size_ + 1 \in Int /\ curr_size_ - 1 \in Int
    BY <1>1
  <2> QED BY Zenon, <2>1, WrapRange
<1>3. ASSUME NEW i \in 1 .. Len(frames_), NEW a \in Seq(Nat), NEW e \in BOOLEAN, SetEntry(i, a, e)
      PROVE  frames_' \in Seq(FrameInfo) /\ curr_size_' \in 0 .. SizeMax
  BY Zenon, <1>1, <1>2, <1>3, EntrySet DEF SetEntry
<1>4. ASSUME NEW f \in Frames, NEW a \in Seq(Nat), AddEntry(f, a)
      PROVE  frames_' \in Seq(FrameInfo) /\ curr_size_' \in 0 .. SizeMax
  <2>1. Info(f, a, FALSE) \in FrameInfo /\ ~Info(f, a, FALSE).evictable
    BY Zenon DEF Info, FrameInfo
  <2> QED BY Zenon, <1>1, <1>4, <2>1, EntryAdded DEF AddEntry
<1>5. ASSUME NEW i \in 1 .. Len(frames_), EraseEntry(i)
      PROVE  frames_' \in Seq(FrameInfo) /\ curr_size_' \in 0 .. SizeMax
  BY Zenon, <1>1, <1>2, <1>5, Erased DEF EraseEntry
<1> QED BY Zenon, <1>1, <1>2, <1>3, <1>4, <1>5 DEF Change

(* RemoveInternal erases an entry, evictable unless assertions are off.      *)
LEMMA RemoveChange ==
  ASSUME TypeOK, NEW f, RemoveInternal(f)
  PROVE  Change /\ status' \in {"running", "aborted"}
<1>1. CASE UNCHANGED <<curr_size_, frames_>>
  BY Zenon, <1>1 DEF Change, RemoveInternal, Abort, TypeOK
<1>2. CASE /\ Found(f) # {}
           /\ frames_[IndexOfFrame(f)].evictable \/ NDEBUG
           /\ EraseEntry(IndexOfFrame(f)) /\ UNCHANGED status
  <2>1. IndexOfFrame(f) \in 1 .. Len(frames_)
    BY Zenon, <1>2, FoundIndex
  <2> QED BY Zenon, <1>2, <2>1 DEF Change, TypeOK
<1> QED BY Zenon, <1>1, <1>2 DEF RemoveInternal, EraseEntry, Abort

(* Every operation makes one such change.                                   *)
LEMMA StepChange ==
  ASSUME TypeOK, [Next]_vars
  PROVE  Change /\ current_timestamp_' \in Nat /\ status' \in {"running", "aborted"}
<1>1. CASE UNCHANGED vars
  BY Zenon, <1>1 DEF Change, vars, TypeOK
<1>2. ASSUME NEW f \in Frames, RecordAccess(f)
      PROVE  Change /\ current_timestamp_' \in Nat /\ status' \in {"running", "aborted"}
  <2>1. current_timestamp_' \in Nat
    BY <1>2 DEF RecordAccess, TypeOK
  <2>2. CASE Found(f) # {}
    <3> DEFINE fr == frames_[IndexOfFrame(f)]
    <3>1. IndexOfFrame(f) \in 1 .. Len(frames_) /\ fr \in FrameInfo /\ fr.frame_id = f
      BY Zenon, <2>2, FoundIndex
    <3>2. fr.accesses \in Seq(Nat) /\ fr.evictable \in BOOLEAN
      BY Zenon, <3>1 DEF FrameInfo
    <3>3. Append(fr.accesses, current_timestamp_') \in Seq(Nat)
      BY Zenon, <3>2, <2>1, AppendProperties
    <3>4. /\ frames_' = [frames_ EXCEPT ![IndexOfFrame(f)] =
                           Info(f, Append(fr.accesses, current_timestamp_'), fr.evictable)]
          /\ curr_size_' = curr_size_ /\ status' = status
      BY Zenon, <1>2, <2>2 DEF RecordAccess
    <3>5. SetEntry(IndexOfFrame(f), Append(fr.accesses, current_timestamp_'), fr.evictable)
      BY Zenon, <3>1, <3>4 DEF SetEntry, WithEntry
    <3> QED BY Zenon, <3>1, <3>2, <3>3, <3>4, <3>5, <2>1 DEF Change, TypeOK
  <2>3. CASE Found(f) = {} /\ (Len(frames_) < replacer_size_ \/ NDEBUG) /\ status' # "aborted"
    <3>1. AddEntry(f, <<current_timestamp_'>>) /\ status' = status
      BY Zenon, <1>2, <2>3 DEF RecordAccess, AddEntry, Abort
    <3>2. <<current_timestamp_'>> \in Seq(Nat)
      BY <2>1
    <3> QED BY Zenon, <2>1, <2>3, <3>1, <3>2 DEF Change, TypeOK
  <2>4. CASE Abort
    BY Zenon, <2>1, <2>4 DEF Abort, Change
  <2> QED BY Zenon, <1>2, <2>2, <2>3, <2>4 DEF RecordAccess, TypeOK
<1>3. ASSUME NEW f \in Frames, Remove(f)
      PROVE  Change /\ current_timestamp_' \in Nat /\ status' \in {"running", "aborted"}
  BY Zenon, <1>3, RemoveChange DEF Remove, TypeOK
<1>4. ASSUME NEW f \in Frames, NEW b \in BOOLEAN, SetEvictable(f, b)
      PROVE  Change /\ current_timestamp_' \in Nat /\ status' \in {"running", "aborted"}
  <2>1. current_timestamp_' \in Nat
    BY Zenon, <1>4 DEF SetEvictable, TypeOK
  <2>2. ASSUME NEW i \in 1 .. Len(frames_), Toggle(i, b)
        PROVE  Change /\ status' = status
    <3>1. frames_[i] \in FrameInfo
      BY Zenon, ElementOfSeq DEF TypeOK
    <3>2. frames_[i].accesses \in Seq(Nat)
      BY Zenon, <3>1 DEF FrameInfo
    <3>3. SetEntry(i, frames_[i].accesses, b) /\ status' = status
      BY Zenon, <2>2 DEF Toggle, SetEntry, WithEntry
    <3> QED BY Zenon, <3>2, <3>3 DEF Change
  <2>3. CASE Found(f) # {} /\ Toggle(IndexOfFrame(f), b)
    BY Zenon, <2>1, <2>2, <2>3, FoundIndex DEF TypeOK
  <2>4. CASE frames_ # <<>> /\ Toggle(1, b)
    <3>1. 1 \in 1 .. Len(frames_)
      BY <2>4, EmptySeq DEF TypeOK
    <3> QED BY Zenon, <2>1, <2>2, <2>4, <3>1 DEF TypeOK
  <2>5. CASE Abort
    BY Zenon, <2>1, <2>5 DEF Abort, Change
  <2>6. CASE /\ NDEBUG
             /\ curr_size_' \in {curr_size_, Wrap(IF b THEN curr_size_ + 1 ELSE curr_size_ - 1)}
             /\ UNCHANGED <<frames_, status>>
    BY Zenon, <2>1, <2>6 DEF Change, TypeOK
  <2> QED BY Zenon, <1>4, <2>3, <2>4, <2>5, <2>6 DEF SetEvictable
<1>5. ASSUME Evict
      PROVE  Change /\ current_timestamp_' \in Nat /\ status' \in {"running", "aborted"}
  <2>1. current_timestamp_' \in Nat
    BY <1>5 DEF Evict, TypeOK
  <2>2. \/ \E f : RemoveInternal(f)
        \/ UNCHANGED <<curr_size_, frames_, status>>
    BY Zenon, <1>5 DEF Evict
  <2> QED BY Zenon, <2>1, <2>2, RemoveChange DEF Change, TypeOK
<1> QED BY Zenon, <1>1, <1>2, <1>3, <1>4, <1>5 DEF Next

(* Whatever the build, the entries stay typed and curr_size_ stays a word:   *)
(* TypeOK holds of every history of accesses, toggles, removals and          *)
(* evictions.                                                               *)
THEOREM ReplacerTypeCorrect == Spec => []TypeOK
<1>1. Init => TypeOK
  BY SizesAssumption, BuildsAssumption, EmptySeq DEF Init, TypeOK
<1>2. TypeOK /\ [Next]_vars => TypeOK'
  <2> SUFFICES ASSUME TypeOK, [Next]_vars PROVE TypeOK'
    BY Zenon
  <2>1. Change /\ current_timestamp_' \in Nat /\ status' \in {"running", "aborted"}
    BY Zenon, StepChange
  <2>2. NDEBUG' = NDEBUG
    BY Zenon DEF Next, vars
  <2> QED BY Zenon, <2>1, <2>2, EntriesTyped DEF TypeOK
<1> QED BY <1>1, <1>2, PTL DEF Spec

(* Each change keeps the count, in a build with assertions.                 *)
LEMMA CountKept ==
  ASSUME ~NDEBUG, TypeOK, SizeExact, Change
  PROVE  SizeExact'
<1> DEFINE E == EvictableIn(frames_)
<1>1. /\ frames_ \in Seq(FrameInfo) /\ Distinct(frames_) /\ Len(frames_) <= replacer_size_
      /\ curr_size_ = Cardinality(E)
  BY Zenon DEF TypeOK, SizeExact, EvictableFrames
<1>2. /\ IsFiniteSet(E) /\ Cardinality(E) \in 0 .. Len(frames_)
      /\ Len(frames_) \in Nat /\ DOMAIN frames_ = 1 .. Len(frames_)
  BY Zenon, <1>1, EvictableFinite, LenProperties
<1>3. CASE UNCHANGED <<curr_size_, frames_>>
  BY Zenon, <1>3 DEF SizeExact, EvictableFrames, EvictableIn, Distinct
<1>4. ASSUME NEW i \in 1 .. Len(frames_), NEW a \in Seq(Nat), NEW e \in BOOLEAN, SetEntry(i, a, e)
      PROVE  SizeExact'
  <2> DEFINE f == frames_[i].frame_id
             T == EvictableIn(frames_')
  <2>1. /\ frames_' \in Seq(FrameInfo) /\ Len(frames_') = Len(frames_) /\ Distinct(frames_')
        /\ e => T = E \cup {f}
        /\ ~e => T = E \ {f}
    <3>1. frames_' = WithEntry(frames_, i, a, e)
      BY Zenon, <1>4 DEF SetEntry
    <3>2. frames_' \in Seq(FrameInfo) /\ Len(frames_') = Len(frames_) /\ Distinct(frames_')
      BY <1>1, <3>1, EntrySet
    <3>3. ASSUME e PROVE T = E \cup {f}
      BY Zenon, <1>1, <3>1, <3>3, EntryShown
    <3>4. ASSUME ~e PROVE T = E \ {f}
      BY Zenon, <1>1, <3>1, <3>4, EntryHidden
    <3> QED BY Zenon, <3>2, <3>3, <3>4
  <2>2. f \in E <=> frames_[i].evictable
    BY Zenon, <1>1, <1>2, EvictableEntry
  <2>3. Cardinality(T) \in 0 .. Len(frames_)
    BY Zenon, <2>1, EvictableFinite
  <2>4. /\ Cardinality(E \cup {f}) = IF f \in E THEN Cardinality(E) ELSE Cardinality(E) + 1
        /\ Cardinality(E \ {f}) = IF f \in E THEN Cardinality(E) - 1 ELSE Cardinality(E)
    <3> HIDE DEF E, f
    <3> QED BY Zenon, <1>2, FS_AddElement, FS_RemoveElement
  <2>5. frames_[i].evictable \in BOOLEAN
    <3>1. frames_[i] \in FrameInfo
      BY Zenon, <1>1, ElementOfSeq
    <3> QED BY Zenon, <3>1 DEF FrameInfo
  <2>6. Cardinality(T) \in 0 .. SizeMax
    <3> HIDE DEF T
    <3> QED BY <1>1, <1>2, <2>3, SizesAssumption
  <2>7. Wrap(Cardinality(T)) = Cardinality(T)
    BY Zenon, <2>6, WrapFits
  <2>8. curr_size_' = IF frames_[i].evictable = e THEN curr_size_
                      ELSE Wrap(IF e THEN curr_size_ + 1 ELSE curr_size_ - 1)
    BY Zenon, <1>4 DEF SetEntry
  <2>9. curr_size_' = Cardinality(T)
    <3> HIDE DEF E, f, T
    <3>1. CASE e
      BY Zenon, <3>1, <1>1, <2>1, <2>2, <2>4, <2>5, <2>7, <2>8
    <3>2. CASE ~e
      BY Zenon, <3>2, <1>1, <2>1, <2>2, <2>4, <2>5, <2>7, <2>8
    <3> QED BY Zenon, <3>1, <3>2
  <2> QED BY Zenon, <1>1, <2>1, <2>9 DEF SizeExact, EvictableFrames
<1>5. ASSUME NEW f \in Frames, NEW a \in Seq(Nat), Found(f) = {}, Len(frames_) < replacer_size_,
             AddEntry(f, a)
      PROVE  SizeExact'
  <2>1. Info(f, a, FALSE) \in FrameInfo /\ ~Info(f, a, FALSE).evictable /\ Info(f, a, FALSE).frame_id = f
    BY Zenon DEF Info, FrameInfo
  <2>2. \A i \in DOMAIN frames_ : frames_[i].frame_id # Info(f, a, FALSE).frame_id
    BY Zenon, <1>5, <2>1 DEF Found
  <2>3. /\ Len(frames_') = Len(frames_) + 1 /\ EvictableIn(frames_') = E /\ Distinct(frames_')
    BY Zenon, <1>1, <1>5, <2>1, <2>2, EntryAdded DEF AddEntry
  <2>4. Len(frames_') <= replacer_size_
    BY <1>2, <1>5, <2>3, SizesAssumption
  <2> QED BY Zenon, <1>1, <1>5, <2>3, <2>4 DEF SizeExact, EvictableFrames, AddEntry
<1>6. ASSUME NEW i \in 1 .. Len(frames_), frames_[i].evictable, EraseEntry(i)
      PROVE  SizeExact'
  <2> DEFINE f == frames_[i].frame_id
  <2>1. /\ Len(frames_') = Len(frames_) - 1 /\ Distinct(frames_')
        /\ EvictableIn(frames_') = E \ {f}
    BY Zenon, <1>1, <1>6, EntryRemoved, Erased DEF EraseEntry
  <2>2. f \in E
    BY Zenon, <1>1, <1>2, <1>6, EvictableEntry
  <2>3. Cardinality(E \ {f}) = Cardinality(E) - 1
    <3> HIDE DEF E, f
    <3> QED BY Zenon, <1>2, <2>2, FS_RemoveElement
  <2>4. Cardinality(E \ {f}) \in Nat
    <3>1. IsFiniteSet(E \ {f})
      <4> HIDE DEF E, f
      <4> QED BY Zenon, <1>2, FS_RemoveElement
    <3> QED BY Zenon, <3>1, FS_CardinalityType
  <2>5. curr_size_ - 1 \in 0 .. SizeMax
    <3> HIDE DEF E, f
    <3> QED BY <1>1, <1>2, <2>3, <2>4, SizesAssumption
  <2>6. curr_size_' = curr_size_ - 1
    BY Zenon, <1>6, <2>5, WrapFits DEF EraseEntry
  <2>7. Len(frames_') <= replacer_size_
    BY <1>1, <1>2, <2>1, SizesAssumption
  <2> QED BY Zenon, <1>1, <2>1, <2>3, <2>6, <2>7 DEF SizeExact, EvictableFrames
<1> QED BY Zenon, <1>3, <1>4, <1>5, <1>6 DEF Change

(* In a build with assertions Size() is the number of evictable frames, for  *)
(* every replacer size, every k and every history: SizeIsEvictable.         *)
THEOREM SizeCorrect == Spec => []SizeIsEvictable
<1>1. Init => SizeIsEvictable
  <2>1. ASSUME Init PROVE SizeExact
    <3>1. frames_ = <<>> /\ curr_size_ = 0 /\ Len(frames_) = 0 /\ DOMAIN frames_ = {}
      BY <2>1 DEF Init
    <3>2. EvictableIn(frames_) = {}
      BY Zenon, <3>1 DEF EvictableIn
    <3>3. Cardinality({}) = 0
      BY Zenon, FS_EmptySet
    <3>4. Distinct(frames_)
      BY Zenon, <3>1 DEF Distinct
    <3>5. Len(frames_) <= replacer_size_
      BY <3>1, SizesAssumption
    <3>6. curr_size_ = Cardinality(EvictableFrames)
      BY Zenon, <3>1, <3>2, <3>3 DEF EvictableFrames
    <3> QED BY Zenon, <3>4, <3>5, <3>6 DEF SizeExact
  <2> QED BY Zenon, <2>1 DEF SizeIsEvictable
<1>2. TypeOK /\ SizeIsEvictable /\ [Next]_vars => SizeIsEvictable'
  <2> SUFFICES ASSUME TypeOK, SizeIsEvictable, [Next]_vars, ~NDEBUG'
               PROVE  SizeExact'
    BY Zenon DEF SizeIsEvictable
  <2>1. NDEBUG' = NDEBUG
    BY Zenon DEF Next, vars
  <2>2. ~NDEBUG /\ SizeExact
    BY Zenon, <2>1 DEF SizeIsEvictable
  <2> QED BY Zenon, <2>2, StepChange, CountKept
<1> QED BY <1>1, <1>2, ReplacerTypeCorrect, PTL DEF Spec

-----------------------------------------------------------------------------
(* A set of numbers that is not empty has a least member. *)
LEMMA LeastOf ==
  ASSUME NEW S \in SUBSET Nat, S # {}
  PROVE  \E m \in S : \A y \in S : m <= y
<1> DEFINE R == OpToRel(<, Nat)
<1>1. IsWellFoundedOn(R, Nat)
  BY Zenon, NatLessThanWellFounded
<1>2. \E x \in S : \A y \in S : ~(<<y, x>> \in R)
  <2> HIDE DEF R
  <2> QED BY Zenon, <1>1, WFMin
<1>3. PICK x \in S : \A y \in S : ~(<<y, x>> \in OpToRel(<, Nat))
  BY Zenon, <1>2
<1>4. ASSUME NEW y \in S
      PROVE  x <= y
  <2>1. <<y, x>> \in Nat \X Nat /\ <<y, x>>[1] = y /\ <<y, x>>[2] = x
    BY Zenon
  <2>2. ~(y < x)
    BY Zenon, <1>3, <2>1 DEF OpToRel
  <2> QED BY <2>2
<1> QED BY Zenon, <1>4

(* The loop of EvictInternal over the last n entries: g[i] is the best found *)
(* from entry i on.                                                          *)
Loop(g, n, now) ==
  g = [i \in Len(frames_) + 1 - n .. Len(frames_) + 1 |->
         IF i > Len(frames_) THEN [distance |-> 0, frame |-> NoFrame]
         ELSE Visit(frames_[i], g[i + 1], now)]

(* The loop runs to its end. *)
LEMMA LoopEnds ==
  ASSUME TypeOK, NEW now
  PROVE  \E g : Loop(g, Len(frames_), now)
<1> DEFINE L == Len(frames_)
           Stuck == {n \in 0 .. L : ~\E g : Loop(g, n, now)}
           none == [distance |-> 0, frame |-> NoFrame]
<1>1. L \in Nat
  BY Zenon, LenProperties DEF TypeOK
<1>2. SUFFICES ASSUME Stuck # {} PROVE FALSE
  BY <1>1
<1>3. PICK m \in Stuck : \A y \in Stuck : m <= y
  <2>1. Stuck \in SUBSET Nat
    BY <1>1
  <2> HIDE DEF Stuck
  <2> QED BY Zenon, <1>2, <2>1, LeastOf
<1>4. m \in 0 .. L /\ ~\E g : Loop(g, m, now)
  BY Zenon, <1>3
<1>5. CASE m = 0
  <2> DEFINE g == [i \in L + 1 .. L + 1 |-> none]
  <2>1. L + 1 - 0 = L + 1 /\ \A i \in L + 1 .. L + 1 : i > L
    BY <1>1
  <2>2. Loop(g, 0, now)
    BY Zenon, <2>1 DEF Loop
  <2> QED BY Zenon, <1>4, <1>5, <2>2
<1>6. CASE m # 0
  <2>1. m - 1 \in 0 .. L /\ ~(m <= m - 1)
    BY <1>1, <1>4, <1>6
  <2>2. m - 1 \notin Stuck
    BY Zenon, <1>3, <2>1
  <2>3. PICK h : Loop(h, m - 1, now)
    BY Zenon, <2>1, <2>2
  <2> DEFINE k == L + 1 - m
             g == [i \in k .. L + 1 |-> IF i = k THEN Visit(frames_[k], h[k + 1], now) ELSE h[i]]
  <2>4. k \in 1 .. L /\ L + 1 - (m - 1) = k + 1
    BY <1>1, <1>4, <1>6
  <2>5. h = [i \in k + 1 .. L + 1 |-> IF i > L THEN none ELSE Visit(frames_[i], h[i + 1], now)]
    BY Zenon, <2>3, <2>4 DEF Loop
  <2>6. ASSUME NEW i \in k .. L + 1
        PROVE  g[i] = IF i > L THEN none ELSE Visit(frames_[i], g[i + 1], now)
    <3>1. CASE i = k
      <4>1. i + 1 \in k .. L + 1 /\ i + 1 # k /\ ~(i > L)
        BY <1>1, <2>4, <3>1
      <4>2. g[i + 1] = h[i + 1]
        BY Zenon, <4>1
      <4> QED BY Zenon, <3>1, <4>1, <4>2
    <3>2. CASE i # k
      <4>1. i \in k + 1 .. L + 1
        BY <1>1, <2>4, <3>2
      <4>2. g[i] = IF i > L THEN none ELSE Visit(frames_[i], h[i + 1], now)
        <5> HIDE DEF none
        <5>1. h[i] = IF i > L THEN none ELSE Visit(frames_[i], h[i + 1], now)
          BY Zenon, <2>5, <4>1
        <5> HIDE DEF k
        <5> QED BY Zenon, <3>2, <5>1
      <4>3. ~(i > L) => g[i + 1] = h[i + 1]
        BY <1>1, <2>4, <4>1
      <4> HIDE DEF g, none
      <4> QED BY Zenon, <4>2, <4>3
    <3> QED BY Zenon, <3>1, <3>2
  <2>7. g = [i \in k .. L + 1 |-> IF i > L THEN none ELSE Visit(frames_[i], g[i + 1], now)]
    <3>1. g = [i \in k .. L + 1 |-> g[i]]
      BY Zenon
    <3> HIDE DEF g, none, k
    <3> QED BY Zenon, <2>6, <3>1
  <2>8. Loop(g, m, now)
    <3> HIDE DEF g
    <3> QED BY Zenon, <2>7 DEF Loop
  <2> QED BY Zenon, <1>4, <2>8
<1> QED BY Zenon, <1>5, <1>6

(* The victim is the best found from the first entry on. *)
LEMMA VictimIs ==
  ASSUME TypeOK, NEW now
  PROVE  \E g : Loop(g, Len(frames_), now) /\ Victim(now) = g[1].frame
<1> DEFINE IsBest(g) ==
      g = [i \in 1 .. Len(frames_) + 1 |->
             IF i > Len(frames_) THEN [distance |-> 0, frame |-> NoFrame]
             ELSE Visit(frames_[i], g[i + 1], now)]
           best == CHOOSE g : IsBest(g)
<1>1. Victim(now) = best[1].frame
  BY Zenon DEF Victim
<1>2. Len(frames_) + 1 - Len(frames_) = 1
  BY LenProperties DEF TypeOK
<1>3. \A g : IsBest(g) <=> Loop(g, Len(frames_), now)
  BY Zenon, <1>2 DEF Loop
<1>4. \E g : IsBest(g)
  <2> HIDE DEF IsBest
  <2> QED BY Zenon, <1>3, LoopEnds
<1>5. IsBest(best)
  <2> HIDE DEF IsBest
  <2> QED BY Zenon, <1>4
<1> HIDE DEF IsBest, best
<1> QED BY Zenon, <1>1, <1>3, <1>5

-----------------------------------------------------------------------------
(* Every entry has been accessed, not in the future, and the entries are in  *)
(* the order of their first accesses.                                        *)
Dated(fs, now) ==
  /\ Distinct(fs)
  /\ \A i \in DOMAIN fs :
       /\ Len(fs[i].accesses) >= 1
       /\ \A j \in 1 .. Len(fs[i].accesses) : fs[i].accesses[j] <= now
  /\ \A i, j \in DOMAIN fs : i < j => fs[i].accesses[1] < fs[j].accesses[1]

(* The evictable entries from entry i on, and those with infinite distance. *)
Candidates(i) == {j \in i .. Len(frames_) : frames_[j].evictable}
Infinite(i) == {j \in Candidates(i) : Len(frames_[j].accesses) < k_}

(* What the loop has found from entry i on: nothing if there is no candidate, *)
(* the first of those with infinite distance if there is one.                 *)
FoundFrom(i, b) ==
  /\ Candidates(i) = {} => b.frame = NoFrame /\ b.distance = 0
  /\ Candidates(i) # {} => \E j \in Candidates(i) : b.frame = frames_[j].frame_id
  /\ Infinite(i) # {} =>
       /\ b.distance = SizeMax
       /\ \E j \in Infinite(i) : b.frame = frames_[j].frame_id /\ \A q \in Infinite(i) : j <= q

(* One turn of the loop. *)
LEMMA VisitFinds ==
  ASSUME TypeOK, Dated(frames_, current_timestamp_), NEW i \in 1 .. Len(frames_), NEW b,
         FoundFrom(i + 1, b), NEW now, now = current_timestamp_ + 1, now <= SizeMax
  PROVE  FoundFrom(i, Visit(frames_[i], b, now))
<1> DEFINE fr == frames_[i]
           a == fr.accesses
           v == Visit(fr, b, now)
<1>1. /\ Len(frames_) \in Nat /\ DOMAIN frames_ = 1 .. Len(frames_) /\ fr \in FrameInfo
      /\ current_timestamp_ \in Nat /\ SizeMax \in Nat /\ k_ \in Nat \ {0} /\ i \in Nat /\ i <= Len(frames_)
  BY LenProperties, ElementOfSeq, SizesAssumption DEF TypeOK
<1>2. a \in Seq(Nat) /\ fr.evictable \in BOOLEAN /\ Len(a) \in Nat /\ \A j \in 1 .. Len(a) : a[j] \in Nat /\ a[j] <= current_timestamp_
  <2>1. a \in Seq(Nat) /\ fr.evictable \in BOOLEAN
    BY Zenon, <1>1 DEF FrameInfo
  <2>2. Len(a) \in Nat /\ \A j \in 1 .. Len(a) : a[j] \in Nat
    BY Zenon, <2>1, LenProperties, ElementOfSeq
  <2> QED BY Zenon, <1>1, <2>1, <2>2 DEF Dated
<1>3. Candidates(i) = IF fr.evictable THEN Candidates(i + 1) \cup {i} ELSE Candidates(i + 1)
  BY <1>1 DEF Candidates
<1>4. Infinite(i) = IF fr.evictable /\ Len(a) < k_ THEN Infinite(i + 1) \cup {i} ELSE Infinite(i + 1)
  BY Zenon, <1>3 DEF Infinite
<1>5. \A q \in Infinite(i + 1) : i <= q
  BY <1>1 DEF Infinite, Candidates
<1>6. CASE ~fr.evictable
  <2>1. v = b
    BY Zenon, <1>6 DEF Visit
  <2> HIDE DEF fr, v
  <2> QED BY Zenon, <1>3, <1>4, <1>6, <2>1 DEF FoundFrom, v, fr
<1>7. CASE fr.evictable /\ Len(a) < k_
  <2>1. v = [distance |-> SizeMax, frame |-> fr.frame_id]
    BY Zenon, <1>7 DEF Visit
  <2>2. v.distance = SizeMax /\ v.frame = fr.frame_id
    BY <2>1
  <2>3. i \in Candidates(i) /\ i \in Infinite(i) /\ \A q \in Infinite(i) : i <= q
    BY <1>1, <1>3, <1>4, <1>5, <1>7
  <2> HIDE DEF v
  <2> QED BY Zenon, <2>2, <2>3 DEF FoundFrom, v
<1>8. CASE fr.evictable /\ ~(Len(a) < k_)
  <2> DEFINE d == now - a[Len(a) - k_ + 1]
  <2>1. v = IF d > b.distance THEN [distance |-> now - a[k_], frame |-> fr.frame_id] ELSE b
    BY Zenon, <1>8 DEF Visit
  <2>2. Len(a) - k_ + 1 \in 1 .. Len(a)
    <3>1. Len(a) \in Nat /\ k_ \in Nat \ {0} /\ ~(Len(a) < k_)
      BY Zenon, <1>1, <1>2, <1>8
    <3> DEFINE m == Len(a)
    <3>2. m \in Nat /\ ~(m < k_)
      BY Zenon, <3>1
    <3> HIDE DEF m
    <3>3. m - k_ + 1 \in 1 .. m
      BY <3>1, <3>2
    <3> QED BY Zenon, <3>3 DEF m
  <2>3. d \in Nat /\ d > 0 /\ d <= SizeMax
    <3> DEFINE x == a[Len(a) - k_ + 1]
    <3>1. x \in Nat /\ x <= current_timestamp_
      BY Zenon, <1>2, <2>2
    <3> HIDE DEF x
    <3>2. now - x \in Nat /\ now - x > 0 /\ now - x <= SizeMax
      BY <1>1, <3>1
    <3> QED BY Zenon, <3>2 DEF x
  <2>4. Infinite(i) = Infinite(i + 1) /\ Candidates(i) = Candidates(i + 1) \cup {i}
    BY Zenon, <1>3, <1>4, <1>8
  <2> HIDE DEF d, v
  <2>5. CASE d > b.distance
    <3>1. Infinite(i) = {}
      BY <1>1, <2>3, <2>4, <2>5 DEF FoundFrom
    <3>2. v.frame = fr.frame_id
      BY Zenon, <2>1, <2>5
    <3> QED BY Zenon, <2>4, <3>1, <3>2 DEF FoundFrom, v
  <2>6. CASE ~(d > b.distance)
    <3>1. v = b
      BY Zenon, <2>1, <2>6
    <3>2. Candidates(i + 1) # {}
      BY Zenon, <2>3, <2>6 DEF FoundFrom
    <3> QED BY Zenon, <2>4, <3>1, <3>2 DEF FoundFrom, v
  <2> QED BY Zenon, <2>5, <2>6
<1> QED BY Zenon, <1>2, <1>6, <1>7, <1>8

(* The whole loop. *)
LEMMA VictimFound ==
  ASSUME TypeOK, Dated(frames_, current_timestamp_), NEW now, now = current_timestamp_ + 1, now <= SizeMax
  PROVE  \E b : FoundFrom(1, b) /\ Victim(now) = b.frame
<1> DEFINE L == Len(frames_)
<1>1. L \in Nat
  BY Zenon, LenProperties DEF TypeOK
<1>2. PICK g : Loop(g, L, now) /\ Victim(now) = g[1].frame
  BY Zenon, VictimIs
<1>3. L + 1 - L = 1
  BY <1>1
<1>4. g = [i \in 1 .. L + 1 |-> IF i > L THEN [distance |-> 0, frame |-> NoFrame] ELSE Visit(frames_[i], g[i + 1], now)]
  BY Zenon, <1>2, <1>3 DEF Loop
<1>5. \A i \in 1 .. L + 1 : g[i] = IF i > L THEN [distance |-> 0, frame |-> NoFrame] ELSE Visit(frames_[i], g[i + 1], now)
  <2> DEFINE G(i) == IF i > L THEN [distance |-> 0, frame |-> NoFrame] ELSE Visit(frames_[i], g[i + 1], now)
  <2>1. g = [i \in 1 .. L + 1 |-> G(i)]
    BY Zenon, <1>4
  <2> HIDE DEF G
  <2>2. \A i \in 1 .. L + 1 : g[i] = G(i)
    BY Zenon, <2>1
  <2> QED BY Zenon, <2>2 DEF G
<1> DEFINE Bad == {n \in 0 .. L : ~FoundFrom(L + 1 - n, g[L + 1 - n])}
<1>6. ASSUME Bad # {} PROVE FALSE
  <2>1. PICK m \in Bad : \A y \in Bad : m <= y
    <3>1. Bad \in SUBSET Nat
      BY <1>1
    <3> HIDE DEF Bad
    <3> QED BY Zenon, <1>6, <3>1, LeastOf
  <2>2. m \in 0 .. L /\ ~FoundFrom(L + 1 - m, g[L + 1 - m])
    BY Zenon, <2>1
  <2>3. CASE m = 0
    <3>1. L + 1 - m = L + 1 /\ L + 1 \in 1 .. L + 1 /\ L + 1 > L
      BY <1>1, <2>3
    <3>2. g[L + 1] = [distance |-> 0, frame |-> NoFrame]
      BY Zenon, <1>5, <3>1
    <3>3. g[L + 1].distance = 0 /\ g[L + 1].frame = NoFrame
      BY <3>2
    <3>4. Candidates(L + 1) = {} /\ Infinite(L + 1) = {}
      BY <1>1 DEF Candidates, Infinite
    <3>5. FoundFrom(L + 1, g[L + 1])
      BY Zenon, <3>3, <3>4 DEF FoundFrom
    <3> QED BY Zenon, <2>2, <3>1, <3>5
  <2>4. CASE m # 0
    <3> DEFINE i == L + 1 - m
    <3>1. m - 1 \in 0 .. L /\ ~(m <= m - 1) /\ i \in 1 .. L /\ L + 1 - (m - 1) = i + 1 /\ i \in 1 .. L + 1 /\ ~(i > L)
      BY <1>1, <2>2, <2>4
    <3>2. m - 1 \notin Bad
      BY Zenon, <2>1, <3>1
    <3>3. FoundFrom(i + 1, g[i + 1])
      BY Zenon, <3>1, <3>2
    <3>4. g[i] = Visit(frames_[i], g[i + 1], now)
      BY Zenon, <1>5, <3>1
    <3> HIDE DEF i
    <3>5. FoundFrom(i, Visit(frames_[i], g[i + 1], now))
      BY Zenon, <3>1, <3>3, VisitFinds
    <3> QED BY Zenon, <2>2, <3>4, <3>5 DEF i
  <2> QED BY Zenon, <2>3, <2>4
<1>7. FoundFrom(1, g[1])
  <2>1. L \in 0 .. L /\ L \notin Bad
    BY <1>1, <1>6
  <2> QED BY Zenon, <1>3, <2>1
<1> QED BY Zenon, <1>2, <1>7

(* Evict finds a candidate if there is one, and the one of infinite distance *)
(* with the earliest first access if there is one of these.                  *)
LEMMA VictimRight ==
  ASSUME TypeOK, Dated(frames_, current_timestamp_), NEW now, now = current_timestamp_ + 1, now <= SizeMax,
         NEW f, f = Victim(now)
  PROVE  LET inf == {i \in DOMAIN frames_ : frames_[i].evictable /\ Len(frames_[i].accesses) < k_}
         IN /\ f = NoFrame <=> EvictableFrames = {}
            /\ f # NoFrame => f \in EvictableFrames
            /\ inf # {} => \E i \in inf : /\ frames_[i].frame_id = f
                                          /\ \A j \in inf : FirstAccess(i) <= FirstAccess(j)
<1> DEFINE inf == {i \in DOMAIN frames_ : frames_[i].evictable /\ Len(frames_[i].accesses) < k_}
<1>1. PICK b : FoundFrom(1, b) /\ f = b.frame
  BY Zenon, VictimFound
<1>2. DOMAIN frames_ = 1 .. Len(frames_) /\ \A i \in DOMAIN frames_ : frames_[i].frame_id \in Frames
  <2>1. DOMAIN frames_ = 1 .. Len(frames_) /\ \A i \in 1 .. Len(frames_) : frames_[i] \in FrameInfo
    BY Zenon, LenProperties, ElementOfSeq DEF TypeOK
  <2> QED BY Zenon, <2>1 DEF FrameInfo
<1>3. /\ EvictableFrames = {frames_[i].frame_id : i \in Candidates(1)}
      /\ inf = Infinite(1)
  BY Zenon, <1>2 DEF EvictableFrames, EvictableIn, Candidates, Infinite
<1>4. Candidates(1) \subseteq DOMAIN frames_
  BY Zenon, <1>2 DEF Candidates
<1>5. f = NoFrame <=> EvictableFrames = {}
  BY Zenon, <1>1, <1>2, <1>3, <1>4, FramesAssumption DEF FoundFrom
<1>6. f # NoFrame => f \in EvictableFrames
  BY Zenon, <1>1, <1>3 DEF FoundFrom
<1>7. ASSUME inf # {}
      PROVE  \E i \in inf : frames_[i].frame_id = f /\ \A j \in inf : FirstAccess(i) <= FirstAccess(j)
  <2>1. PICK i \in inf : frames_[i].frame_id = f /\ \A j \in inf : i <= j
    BY Zenon, <1>1, <1>3, <1>7 DEF FoundFrom
  <2>2. ASSUME NEW j \in inf PROVE FirstAccess(i) <= FirstAccess(j)
    <3>1. i \in 1 .. Len(frames_) /\ j \in 1 .. Len(frames_) /\ i <= j
      BY Zenon, <1>2, <2>1
    <3>2. i = j \/ i < j
      BY <3>1, LenProperties DEF TypeOK
    <3>3. i < j => FirstAccess(i) < FirstAccess(j)
      BY Zenon, <1>2, <3>1 DEF Dated, FirstAccess
    <3>4. ASSUME NEW q \in DOMAIN frames_ PROVE FirstAccess(q) \in Nat
      <4>1. frames_[q] \in FrameInfo
        BY Zenon, <1>2, ElementOfSeq DEF TypeOK
      <4>2. frames_[q].accesses \in Seq(Nat)
        BY Zenon, <4>1 DEF FrameInfo
      <4>3. Len(frames_[q].accesses) >= 1 /\ Len(frames_[q].accesses) \in Nat
        BY Zenon, <4>2, LenProperties DEF Dated
      <4>4. 1 \in 1 .. Len(frames_[q].accesses)
        BY <4>3
      <4> QED BY Zenon, <4>2, <4>4, ElementOfSeq DEF FirstAccess
    <3>5. FirstAccess(i) \in Nat /\ FirstAccess(j) \in Nat
      BY Zenon, <3>4
    <3> QED BY <3>2, <3>3, <3>5
  <2> QED BY Zenon, <2>1, <2>2
<1> QED BY Zenon, <1>5, <1>6, <1>7

-----------------------------------------------------------------------------
(* Time passes. *)
LEMMA DatedLater ==
  ASSUME NEW fs \in Seq(FrameInfo), NEW now \in Nat, NEW later \in Nat, now <= later, Dated(fs, now)
  PROVE  Dated(fs, later)
<1>1. ASSUME NEW i \in DOMAIN fs, NEW j \in 1 .. Len(fs[i].accesses)
      PROVE  fs[i].accesses[j] <= later
  <2>1. fs[i] \in FrameInfo
    BY Zenon, ElementOfSeq, LenProperties
  <2>2. fs[i].accesses \in Seq(Nat)
    BY Zenon, <2>1 DEF FrameInfo
  <2>3. fs[i].accesses[j] \in Nat
    BY Zenon, <2>2, ElementOfSeq
  <2>4. fs[i].accesses[j] <= now
    BY Zenon DEF Dated
  <2> QED BY <2>3, <2>4
<1> QED BY Zenon, <1>1 DEF Dated

(* The history of an entry is kept or goes on. *)
LEMMA DatedEntry ==
  ASSUME NEW fs \in Seq(FrameInfo), NEW now, Dated(fs, now), NEW i \in 1 .. Len(fs), NEW a \in Seq(Nat), NEW e \in BOOLEAN,
         NEW gs, gs = WithEntry(fs, i, a, e),
         Len(a) >= 1, a[1] = fs[i].accesses[1], \A j \in 1 .. Len(a) : a[j] <= now
  PROVE  Dated(gs, now)
<1>1. DOMAIN fs = 1 .. Len(fs) /\ DOMAIN gs = DOMAIN fs /\ Distinct(gs)
  BY EntrySet, LenProperties DEF Dated
<1>2. \A j \in DOMAIN gs : gs[j].accesses = IF j = i THEN a ELSE fs[j].accesses
  BY Zenon, <1>1 DEF WithEntry, Info
<1>3. \A j \in DOMAIN gs : gs[j].accesses[1] = fs[j].accesses[1]
  BY Zenon, <1>2
<1>4. \A j \in DOMAIN gs : Len(gs[j].accesses) >= 1 /\ \A q \in 1 .. Len(gs[j].accesses) : gs[j].accesses[q] <= now
  BY Zenon, <1>1, <1>2 DEF Dated
<1>5. \A j, q \in DOMAIN gs : j < q => gs[j].accesses[1] < gs[q].accesses[1]
  BY Zenon, <1>1, <1>3 DEF Dated
<1> QED BY Zenon, <1>1, <1>4, <1>5 DEF Dated

(* What push_back does. *)
LEMMA PushBack ==
  ASSUME NEW fs \in Seq(FrameInfo), NEW x \in FrameInfo, NEW gs, gs = Append(fs, x)
  PROVE  /\ Len(fs) \in Nat /\ DOMAIN fs = 1 .. Len(fs) /\ DOMAIN gs = 1 .. Len(fs) + 1
         /\ \A i \in 1 .. Len(fs) : gs[i] = fs[i]
         /\ gs[Len(fs) + 1] = x
<1>1. gs \in Seq(FrameInfo) /\ Len(gs) = Len(fs) + 1
  BY Zenon, AppendProperties
<1>2. (\A i \in 1 .. Len(fs) : gs[i] = fs[i]) /\ gs[Len(fs) + 1] = x
  BY AppendProperties
<1> QED BY Zenon, <1>1, <1>2, LenProperties

(* The first access of an entry. *)
LEMMA FirstDated ==
  ASSUME NEW fs \in Seq(FrameInfo), NEW now, Dated(fs, now), NEW i \in DOMAIN fs
  PROVE  fs[i].accesses[1] \in Nat /\ fs[i].accesses[1] <= now
<1>1. fs[i] \in FrameInfo
  BY Zenon, ElementOfSeq, LenProperties
<1>2. fs[i].accesses \in Seq(Nat)
  BY Zenon, <1>1 DEF FrameInfo
<1>3. 1 \in 1 .. Len(fs[i].accesses)
  BY <1>2, LenProperties DEF Dated
<1> QED BY Zenon, <1>2, <1>3, ElementOfSeq DEF Dated

(* A new entry is the youngest. *)
LEMMA DatedAdded ==
  ASSUME NEW fs \in Seq(FrameInfo), NEW now \in Nat, Dated(fs, now), NEW later \in Nat, now < later,
         NEW gs, Distinct(gs), NEW n \in Nat, DOMAIN fs = 1 .. n, DOMAIN gs = 1 .. n + 1,
         \A i \in 1 .. n : gs[i] = fs[i],
         NEW a, gs[n + 1].accesses = a, Len(a) = 1, a[1] = later
  PROVE  Dated(gs, later)
<1>1. Dated(fs, later)
  BY DatedLater
<1>2. \A i \in DOMAIN gs : i \in DOMAIN fs \/ i = n + 1
  OBVIOUS
<1>3. ASSUME NEW i \in DOMAIN gs
      PROVE  Len(gs[i].accesses) >= 1 /\ \A j \in 1 .. Len(gs[i].accesses) : gs[i].accesses[j] <= later
  <2>1. CASE i \in DOMAIN fs
    BY Zenon, <1>1, <2>1 DEF Dated
  <2>2. CASE i = n + 1
    <3>1. gs[i].accesses = a /\ \A j \in 1 .. Len(a) : a[j] <= later
      BY <2>2
    <3>2. Len(a) >= 1
      OBVIOUS
    <3> DEFINE b == gs[i].accesses
    <3>3. b = a
      BY Zenon, <3>1
    <3> HIDE DEF b
    <3>4. Len(b) >= 1 /\ \A j \in 1 .. Len(b) : b[j] <= later
      BY Zenon, <3>1, <3>2, <3>3
    <3> QED BY Zenon, <3>4 DEF b
  <2> QED BY Zenon, <1>2, <2>1, <2>2
<1>4. ASSUME NEW i \in DOMAIN gs, NEW j \in DOMAIN gs, i < j
      PROVE  gs[i].accesses[1] < gs[j].accesses[1]
  <2>1. i \in DOMAIN fs /\ gs[i] = fs[i]
    BY <1>4
  <2>2. CASE j \in DOMAIN fs
    BY Zenon, <1>4, <2>1, <2>2 DEF Dated
  <2>3. CASE j = n + 1
    <3>1. fs[i].accesses[1] \in Nat /\ fs[i].accesses[1] <= now
      BY Zenon, <2>1, FirstDated
    <3>2. gs[j].accesses[1] = later
      BY Zenon, <2>3
    <3> QED BY <2>1, <3>1, <3>2
  <2> QED BY Zenon, <1>2, <2>2, <2>3
<1> QED BY Zenon, <1>3, <1>4 DEF Dated

(* Erasing an entry keeps the order of the others. *)
LEMMA DatedErased ==
  ASSUME NEW fs \in Seq(FrameInfo), NEW now, Dated(fs, now), NEW i \in 1 .. Len(fs), NEW gs, gs = Erase(fs, i)
  PROVE  Dated(gs, now)
<1>1. /\ gs \in Seq(FrameInfo) /\ Len(gs) = Len(fs) - 1
      /\ \A j \in 1 .. Len(fs) - 1 : gs[j] = IF j < i THEN fs[j] ELSE fs[j + 1]
  BY Zenon, Erased
<1>2. Len(fs) \in Nat /\ DOMAIN fs = 1 .. Len(fs) /\ DOMAIN gs = 1 .. Len(fs) - 1
  BY Zenon, <1>1, LenProperties
<1>3. Distinct(gs)
  BY Zenon, EntryRemoved DEF Dated
<1> DEFINE old(j) == IF j < i THEN j ELSE j + 1
<1>4. \A j \in DOMAIN gs : old(j) \in DOMAIN fs /\ gs[j] = fs[old(j)]
  BY <1>1, <1>2
<1>5. \A j, q \in DOMAIN gs : j < q => old(j) < old(q)
  BY <1>2
<1> HIDE DEF old
<1> QED BY <1>3, <1>4, <1>5 DEF Dated

(* The entries are dated, and the clock is within its bound. *)
Clocked == Dated(frames_, current_timestamp_) /\ current_timestamp_ <= MaxTime

(* RemoveInternal erases an entry or leaves all. *)
LEMMA RemoveDated ==
  ASSUME TypeOK, Dated(frames_, current_timestamp_), NEW f, RemoveInternal(f)
  PROVE  Dated(frames_', current_timestamp_)
<1>1. CASE frames_' = frames_
  BY Zenon, <1>1
<1>2. CASE Found(f) # {} /\ frames_' = Erase(frames_, IndexOfFrame(f))
  <2>1. IndexOfFrame(f) \in 1 .. Len(frames_) /\ frames_ \in Seq(FrameInfo)
    BY Zenon, <1>2, FoundIndex DEF TypeOK
  <2> QED BY Zenon, <1>2, <2>1, DatedErased
<1> QED BY Zenon, <1>1, <1>2 DEF RemoveInternal, Abort

(* SetEvictableInternal keeps the history of the entry. *)
LEMMA ToggleDated ==
  ASSUME TypeOK, Dated(frames_, current_timestamp_), NEW i \in 1 .. Len(frames_), NEW b \in BOOLEAN, Toggle(i, b)
  PROVE  Dated(frames_', current_timestamp_)
<1> DEFINE a == frames_[i].accesses
<1>1. frames_ \in Seq(FrameInfo) /\ frames_[i] \in FrameInfo /\ i \in DOMAIN frames_
  BY Zenon, ElementOfSeq, LenProperties DEF TypeOK
<1>2. a \in Seq(Nat)
  BY Zenon, <1>1 DEF FrameInfo
<1>3. frames_' = WithEntry(frames_, i, a, b)
  BY Zenon DEF Toggle, WithEntry
<1>4. Len(a) >= 1 /\ \A j \in 1 .. Len(a) : a[j] <= current_timestamp_
  BY Zenon, <1>1 DEF Dated
<1> QED BY Zenon, <1>1, <1>2, <1>3, <1>4, DatedEntry

(* RecordAccess adds a moment to a history, or a new entry. *)
LEMMA AccessDated ==
  ASSUME TypeOK, Clocked, NEW f \in Frames, RecordAccess(f)
  PROVE  Dated(frames_', current_timestamp_')
<1> DEFINE now == current_timestamp_
           later == current_timestamp_'
<1>1. frames_ \in Seq(FrameInfo) /\ now \in Nat /\ later = now + 1 /\ later \in Nat /\ Dated(frames_, now)
  BY DEF TypeOK, Clocked, RecordAccess
<1>2. Dated(frames_, later)
  <2> HIDE DEF now, later
  <2>1. now <= later
    BY <1>1
  <2> QED BY Zenon, <1>1, <2>1, DatedLater
<1>3. CASE frames_' = frames_
  BY Zenon, <1>2, <1>3
<1>4. CASE Found(f) # {}
  <2> DEFINE i == IndexOfFrame(f)
             fr == frames_[i]
             a == Append(fr.accesses, later)
  <2>1. i \in 1 .. Len(frames_) /\ fr \in FrameInfo /\ fr.frame_id = f /\ i \in DOMAIN frames_
    <3>1. DOMAIN frames_ = 1 .. Len(frames_)
      BY Zenon, <1>1, LenProperties
    <3> QED BY Zenon, <1>4, <3>1, FoundIndex
  <2>2. fr.accesses \in Seq(Nat) /\ fr.evictable \in BOOLEAN
    BY Zenon, <2>1 DEF FrameInfo
  <2>3. frames_' = WithEntry(frames_, i, a, fr.evictable)
    BY Zenon, <1>4, <2>1 DEF RecordAccess, WithEntry
  <2>4. Len(fr.accesses) >= 1 /\ \A j \in 1 .. Len(fr.accesses) : fr.accesses[j] <= later
    BY Zenon, <1>2, <2>1 DEF Dated
  <2> DEFINE o == fr.accesses
  <2>5. a \in Seq(Nat) /\ Len(a) >= 1 /\ a[1] = fr.accesses[1] /\ \A j \in 1 .. Len(a) : a[j] <= later
    <3>1. o \in Seq(Nat) /\ Len(o) >= 1 /\ (\A j \in 1 .. Len(o) : o[j] <= later) /\ a = Append(o, later)
      BY Zenon, <2>2, <2>4
    <3> HIDE DEF o, a, later
    <3>2. a \in Seq(Nat) /\ Len(a) = Len(o) + 1 /\ (\A j \in 1 .. Len(o) : a[j] = o[j]) /\ a[Len(o) + 1] = later
      BY <1>1, <3>1, AppendProperties
    <3>3. Len(o) \in Nat
      BY Zenon, <3>1, LenProperties
    <3>4. Len(a) >= 1 /\ a[1] = o[1] /\ \A j \in 1 .. Len(a) : a[j] <= later
      BY <1>1, <3>1, <3>2, <3>3
    <3> QED BY Zenon, <3>2, <3>4 DEF o
  <2> DEFINE e == fr.evictable
  <2>6. i \in 1 .. Len(frames_) /\ e \in BOOLEAN /\ frames_' = WithEntry(frames_, i, a, e) /\ a[1] = frames_[i].accesses[1]
    BY Zenon, <2>1, <2>2, <2>3, <2>5
  <2> HIDE DEF i, a, e, fr, later
  <2>7. Dated(frames_', later)
    BY Zenon, <1>1, <1>2, <2>5, <2>6, DatedEntry
  <2> QED BY Zenon, <2>7 DEF later
<1>5. CASE Found(f) = {} /\ frames_' = Append(frames_, Info(f, <<later>>, FALSE))
  <2> DEFINE x == Info(f, <<later>>, FALSE)
             n == Len(frames_)
  <2>1. x \in FrameInfo /\ ~x.evictable /\ x.frame_id = f /\ x.accesses = <<later>>
    BY <1>1 DEF Info, FrameInfo
  <2>2. Len(<<later>>) = 1 /\ <<later>>[1] = later
    BY Zenon
  <2>3. \A i \in DOMAIN frames_ : frames_[i].frame_id # f
    BY Zenon, <1>5 DEF Found
  <2>4. frames_' = Append(frames_, x)
    BY Zenon, <1>5
  <2> HIDE DEF x
  <2>5. /\ n \in Nat /\ DOMAIN frames_ = 1 .. n /\ DOMAIN frames_' = 1 .. n + 1
        /\ \A i \in 1 .. n : frames_'[i] = frames_[i]
        /\ frames_'[n + 1] = x
    BY <1>1, <2>1, <2>4, PushBack
  <2>6. Distinct(frames_')
    BY Zenon, <1>1, <2>1, <2>3, <2>4, EntryAdded DEF Dated
  <2>7. now < later
    <3> HIDE DEF now, later
    <3> QED BY <1>1
  <2>8. frames_'[n + 1].accesses = <<later>>
    BY Zenon, <2>1, <2>5
  <2> DEFINE a == <<later>>
             gs == frames_'
  <2>9. /\ Len(a) = 1 /\ a[1] = later /\ Distinct(gs) /\ DOMAIN gs = 1 .. n + 1
        /\ (\A i \in 1 .. n : gs[i] = frames_[i]) /\ gs[n + 1].accesses = a
    BY Zenon, <2>2, <2>5, <2>6, <2>8
  <2> HIDE DEF n, later, now, a, gs
  <2>10. Dated(gs, later)
    BY Zenon, <1>1, <2>5, <2>7, <2>9, DatedAdded
  <2> QED BY Zenon, <2>10 DEF later, gs
<1> QED BY Zenon, <1>3, <1>4, <1>5 DEF RecordAccess, Abort

(* Every operation keeps the dates. *)
LEMMA ClockedStep ==
  ASSUME TypeOK, Clocked, [Next]_vars
  PROVE  Clocked'
<1>1. /\ frames_ \in Seq(FrameInfo) /\ current_timestamp_ \in Nat /\ current_timestamp_ <= MaxTime
      /\ Dated(frames_, current_timestamp_) /\ MaxTime \in Nat
  BY Zenon, ClockAssumption DEF TypeOK, Clocked
<1>2. ASSUME NEW f \in Frames, RecordAccess(f) PROVE Clocked'
  <2>1. current_timestamp_' <= MaxTime
    BY <1>1, <1>2 DEF RecordAccess
  <2>2. Dated(frames_', current_timestamp_')
    BY Zenon, <1>2, AccessDated
  <2> QED BY Zenon, <2>1, <2>2 DEF Clocked, Dated, Distinct
<1>3. ASSUME Dated(frames_', current_timestamp_), current_timestamp_' = current_timestamp_ PROVE Clocked'
  BY Zenon, <1>1, <1>3 DEF Clocked, Dated, Distinct
<1>4. ASSUME NEW f \in Frames, Remove(f) PROVE Clocked'
  BY Zenon, <1>1, <1>3, <1>4, RemoveDated DEF Remove
<1>5. ASSUME NEW f \in Frames, NEW b \in BOOLEAN, SetEvictable(f, b) PROVE Clocked'
  <2>1. current_timestamp_' = current_timestamp_
    BY Zenon, <1>5 DEF SetEvictable
  <2>2. CASE frames_' = frames_
    BY Zenon, <1>1, <1>3, <2>1, <2>2
  <2>3. CASE Found(f) # {} /\ Toggle(IndexOfFrame(f), b)
    <3>1. IndexOfFrame(f) \in 1 .. Len(frames_)
      BY Zenon, <2>3, FoundIndex
    <3> QED BY Zenon, <1>1, <1>3, <2>1, <2>3, <3>1, ToggleDated
  <2>4. CASE frames_ # <<>> /\ Toggle(1, b)
    <3>1. 1 \in 1 .. Len(frames_)
      BY <1>1, <2>4, EmptySeq
    <3> QED BY Zenon, <1>1, <1>3, <2>1, <2>4, <3>1, ToggleDated
  <2> QED BY Zenon, <1>5, <2>2, <2>3, <2>4 DEF SetEvictable, Abort
<1>6. ASSUME Evict PROVE Clocked'
  <2>1. current_timestamp_' = current_timestamp_ + 1 /\ current_timestamp_' <= MaxTime
    BY <1>1, <1>6 DEF Evict
  <2>2. frames_' = frames_ \/ \E f : RemoveInternal(f)
    BY Zenon, <1>6 DEF Evict
  <2>3. Dated(frames_', current_timestamp_) /\ frames_' \in Seq(FrameInfo)
    <3>1. CASE frames_' = frames_
      BY Zenon, <1>1, <3>1
    <3>2. CASE \E f : RemoveInternal(f)
      BY Zenon, <1>1, <3>2, RemoveDated, RemoveChange, EntriesTyped
    <3> QED BY Zenon, <2>2, <3>1, <3>2
  <2>4. Dated(frames_', current_timestamp_')
    <3> DEFINE now == current_timestamp_
               later == current_timestamp_'
               fs == frames_'
    <3>1. now \in Nat /\ later \in Nat /\ now <= later /\ fs \in Seq(FrameInfo) /\ Dated(fs, now)
      BY <1>1, <2>1, <2>3
    <3> HIDE DEF now, later, fs
    <3>2. Dated(fs, later)
      BY Zenon, <3>1, DatedLater
    <3> QED BY Zenon, <3>2 DEF fs, later
  <2> QED BY Zenon, <2>1, <2>4 DEF Clocked, Dated, Distinct
<1>7. CASE UNCHANGED vars
  BY Zenon, <1>1, <1>3, <1>7 DEF vars
<1> QED BY Zenon, <1>2, <1>4, <1>5, <1>6, <1>7 DEF Next

(* What a step that evicts does. *)
LEMMA EvictStep ==
  ASSUME TypeOK, Clocked, Next, NEW f \in Frames \cup {NoFrame}, Evicting(f)
  PROVE  LET inf == {i \in DOMAIN frames_ : frames_[i].evictable /\ Len(frames_[i].accesses) < k_}
         IN /\ f = NoFrame <=> EvictableFrames = {}
            /\ f # NoFrame => f \in EvictableFrames /\ status' = "running"
            /\ inf # {} => \E i \in inf : /\ frames_[i].frame_id = f
                                          /\ \A j \in inf : FirstAccess(i) <= FirstAccess(j)
<1> DEFINE inf == {i \in DOMAIN frames_ : frames_[i].evictable /\ Len(frames_[i].accesses) < k_}
           now == current_timestamp_'
           found == \E i \in DOMAIN frames_ : frames_[i].evictable
           Right(v) == /\ v = NoFrame <=> EvictableFrames = {}
                       /\ v # NoFrame => v \in EvictableFrames
                       /\ inf # {} => \E i \in inf : /\ frames_[i].frame_id = v
                                                     /\ \A j \in inf : FirstAccess(i) <= FirstAccess(j)
<1>1. Evict
  <2>1. ret'.op = "evict"
    BY Zenon DEF Evicting
  <2>2. ASSUME NEW g \in Frames, RecordAccess(g) PROVE FALSE
    BY Zenon, <2>1, <2>2 DEF RecordAccess, Call
  <2>3. ASSUME NEW g \in Frames, Remove(g) PROVE FALSE
    BY Zenon, <2>1, <2>3 DEF Remove, Call
  <2>4. ASSUME NEW g \in Frames, NEW b \in BOOLEAN, SetEvictable(g, b) PROVE FALSE
    BY Zenon, <2>1, <2>4 DEF SetEvictable, Call
  <2> QED BY Zenon, <2>2, <2>3, <2>4 DEF Next
<1>2. /\ status = "running" /\ now = current_timestamp_ + 1 /\ now <= SizeMax
      /\ Dated(frames_, current_timestamp_)
  BY <1>1, ClockAssumption, SizesAssumption DEF Evict, Clocked, TypeOK
<1>3. Right(Victim(now))
  <2> HIDE DEF now
  <2> QED BY Zenon, <1>2, VictimRight
<1>4. found <=> EvictableFrames # {}
  BY Zenon DEF EvictableFrames, EvictableIn
<1>5. CASE found /\ ret' = Call("evict", Victim(now)) /\ RemoveInternal(Victim(now))
  <2>1. f = Victim(now)
    BY Zenon, <1>5 DEF Evicting, Call
  <2>2. Right(f) /\ RemoveInternal(f)
    BY Zenon, <1>3, <1>5, <2>1
  <2> HIDE DEF now
  <2>3. f \in EvictableFrames
    <3> HIDE DEF inf, found
    <3> QED BY Zenon, <1>4, <1>5, <2>2
  <2>4. PICK i \in DOMAIN frames_ : frames_[i].evictable /\ frames_[i].frame_id = f
    BY Zenon, <2>3 DEF EvictableFrames, EvictableIn
  <2>5. Found(f) # {} /\ frames_[IndexOfFrame(f)].frame_id = f /\ IndexOfFrame(f) \in DOMAIN frames_
    <3>1. Found(f) # {}
      BY Zenon, <2>4 DEF Found
    <3> QED BY Zenon, <3>1, FoundIndex, LenProperties DEF TypeOK
  <2>6. frames_[IndexOfFrame(f)].evictable
    BY Zenon, <1>2, <2>4, <2>5 DEF Dated, Distinct
  <2>7. status' = "running"
    BY Zenon, <1>2, <2>2, <2>5, <2>6 DEF RemoveInternal
  <2> QED BY Zenon, <2>2, <2>7
<1>6. CASE ~found /\ ret' = Call("evict", NoFrame)
  <2>1. f = NoFrame
    BY Zenon, <1>6 DEF Evicting, Call
  <2>2. EvictableFrames = {} /\ inf = {}
    BY Zenon, <1>4, <1>6
  <2> QED BY Zenon, <2>1, <2>2
<1> QED BY Zenon, <1>1, <1>5, <1>6 DEF Evict

(* Evict succeeds whenever a frame is evictable, takes only such a frame,    *)
(* and among those with fewer than k_ accesses the one accessed first, for   *)
(* every k and every history, in both builds: EvictTakesInfiniteFirst.       *)
THEOREM EvictCorrect == Spec => EvictTakesInfiniteFirst
<1>1. Init => Clocked
  <2> SUFFICES ASSUME Init PROVE Clocked
    BY Zenon
  <2>1. DOMAIN frames_ = {} /\ current_timestamp_ = 0
    BY DEF Init
  <2> QED BY <2>1, ClockAssumption DEF Clocked, Dated, Distinct
<1>2. TypeOK /\ Clocked /\ [Next]_vars => Clocked'
  BY Zenon, ClockedStep
<1>3. TypeOK /\ Clocked /\ [Next]_vars =>
        [\A f \in Frames \cup {NoFrame} : Evicting(f) =>
           LET inf == {i \in DOMAIN frames_ : frames_[i].evictable /\ Len(frames_[i].accesses) < k_}
           IN /\ f = NoFrame <=> EvictableFrames = {}
              /\ f # NoFrame => f \in EvictableFrames /\ status' = "running"
              /\ inf # {} => \E i \in inf : /\ frames_[i].frame_id = f
                                            /\ \A j \in inf : FirstAccess(i) <= FirstAccess(j)]_vars
  BY Zenon, EvictStep
<1> QED BY <1>1, <1>2, <1>3, ReplacerTypeCorrect, PTL DEF Spec, EvictTakesInfiniteFirst
=============================================================================
