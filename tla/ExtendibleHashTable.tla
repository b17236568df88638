------------------------ MODULE ExtendibleHashTable ------------------------
(***************************************************************************)
(* The in-memory extendible hash table (container/hash).  Every public     *)
(* operation holds latch_ from its first to its last statement, so each    *)
(* call is a block no other call can enter.  Find and Remove are one step. *)
(* Insert is one step per activation of the recursive InsertInternal: the  *)
(* call that is splitting buckets stays in `inserting`, and nobody else    *)
(* runs until it has finished or thrown.                                   *)
(*                                                                         *)
(* A bucket is named by a number (the identity of its shared_ptr).  Names  *)
(* are handed out by num_buckets_, which RedistributeBucket increments     *)
(* each time it allocates a bucket.  Directory slots count from 0.         *)
(***************************************************************************)
EXTENDS Integers, Sequences, FiniteSets, FiniteSetsExt, Functions

CONSTANTS Keys, Values,
          NoValue,        \* no value, no pending insert
          Hash,           \* std::hash<K>, a function from Keys to naturals
          bucket_size_,
          MaxGlobalDepth  \* bound: no split beyond this global depth

ASSUME HashAssumption == Hash \in [Keys -> Nat]
ASSUME SizeAssumption == bucket_size_ \in Nat \ {0}
ASSUME NoValueAssumption == NoValue \notin Values \cup Keys

VARIABLES
  global_depth_,
  num_buckets_,
  dir_,        \* slot -> bucket name
  bucket,      \* bucket name -> its depth_ and list_
  inserting,   \* the pair an unfinished Insert is trying to place, or NoValue
  ret          \* outcome of the last completed call

vars == <<global_depth_, num_buckets_, dir_, bucket, inserting, ret>>

Pair == [key : Keys, value : Values]
Bucket == [depth : Nat, list : Seq(Pair)]

Outcome(op, key, res) == [op |-> op, key |-> key, res |-> res]

Init ==
  /\ global_depth_ = 0
  /\ num_buckets_ = 1
  /\ dir_ = [i \in {0} |-> 0]
  /\ bucket = [b \in {0} |-> [depth |-> 0, list |-> <<>>]]
  /\ inserting = NoValue
  /\ ret = Outcome("none", NoValue, NoValue)

-----------------------------------------------------------------------------
(* hash & mask, with mask = (1 << depth) - 1 *)
IndexAt(k, depth) == Hash[k] % 2^depth

IndexOf(k) == IndexAt(k, global_depth_)

GetLocalDepth(i) == bucket[dir_[i]].depth

(* Bucket: the positions of the list holding a key (never more than one) *)
PosIn(b, k) == {i \in DOMAIN b.list : b.list[i].key = k}

(* Mutant: a test that lets one pair too many in *)
IsFullLate(b) == Len(b.list) > bucket_size_

IsFull(b) == Len(b.list) = bucket_size_

BucketFind(b, k) ==
  IF PosIn(b, k) = {} THEN NoValue ELSE b.list[Min(PosIn(b, k))].value

(* Mutant: the pair erased is the first of the list, not the one found *)
BucketRemoveFirst(b, k) ==
  IF PosIn(b, k) = {} THEN b ELSE [b EXCEPT !.list = Tail(@)]

(* list_.erase: what follows the pair erased moves up one place *)
Erase(list, i) == SubSeq(list, 1, i - 1) \o SubSeq(list, i + 1, Len(list))

BucketRemove(b, k) ==
  IF PosIn(b, k) = {} THEN b ELSE [b EXCEPT !.list = Erase(@, Min(PosIn(b, k)))]

(* Insert overwrites the value of a key it finds, even in a full bucket;    *)
(* it answers false, and changes nothing, when it does not accept.          *)
BucketAccepts(b, k) == PosIn(b, k) # {} \/ ~IsFull(b)

BucketInsert(b, k, v) ==
  IF PosIn(b, k) # {}
  THEN [b EXCEPT !.list[Min(PosIn(b, k))].value = v]
  ELSE IF IsFull(b) THEN b ELSE [b EXCEPT !.list = Append(@, [key |-> k, value |-> v])]

-----------------------------------------------------------------------------
FindInternal(k) ==
  IF IndexOf(k) \in DOMAIN dir_ THEN BucketFind(bucket[dir_[IndexOf(k)]], k) ELSE NoValue

Find(k) ==
  /\ inserting = NoValue
  /\ ret' = Outcome("find", k, FindInternal(k))
  /\ UNCHANGED <<global_depth_, num_buckets_, dir_, bucket, inserting>>

Remove(k) ==
  /\ inserting = NoValue
  /\ ret' = Outcome("remove", k, FindInternal(k) # NoValue)
  /\ bucket' = IF FindInternal(k) = NoValue THEN bucket
               ELSE [bucket EXCEPT ![dir_[IndexOf(k)]] = BucketRemove(@, k)]
  /\ UNCHANGED <<global_depth_, num_buckets_, dir_, inserting>>

(* Mutant: each slot followed by its copy *)
DoubledInPlace(d) ==
  LET size == Cardinality(DOMAIN d) IN [i \in 0 .. 2 * size - 1 |-> d[i \div 2]]

(* A directory of twice the size: the second half repeats the first *)
Doubled(d) ==
  LET size == Cardinality(DOMAIN d) IN [i \in 0 .. 2 * size - 1 |-> d[i % size]]

(* One turn of the loop of RedistributeBucket: a pair whose index is not    *)
(* `index` goes from the bucket to the new one, and split_index follows it. *)
MovePair(s, p, index, gd) ==
  IF IndexAt(p.key, gd) = index THEN s
  ELSE [bucket |-> BucketRemove(s.bucket, p.key),
        split_bucket |-> BucketInsert(s.split_bucket, p.key, p.value),
        split_index |-> IndexAt(p.key, gd)]

(* The loop, over a copy of the list: what is left of a bucket whose depth  *)
(* has been raised, the new bucket, and split_index, which is index + depth *)
(* when nothing moves.                                                      *)
Spread(b, index, gd) ==
  LET after[n \in 0 .. Len(b.list)] ==
        IF n = 0 THEN [bucket |-> b, split_bucket |-> [depth |-> b.depth, list |-> <<>>],
                       split_index |-> index + b.depth]
        ELSE MovePair(after[n - 1], b.list[n], index, gd)
  IN after[Len(b.list)]

(***************************************************************************)
(* RedistributeBucket(bucket, index).  dir_.at(split_index) throws when    *)
(* that slot does not exist, after the depths, the bucket count and the    *)
(* lists have changed.                                                     *)
(***************************************************************************)
RedistributeBucket(index) ==
  LET b == dir_[index]
      grow == bucket[b].depth = global_depth_
      gd == IF grow THEN global_depth_ + 1 ELSE global_depth_
      d == IF grow THEN Doubled(dir_) ELSE dir_
      s == Spread([bucket[b] EXCEPT !.depth = @ + 1], index, gd)
  IN /\ gd <= MaxGlobalDepth
     /\ global_depth_' = gd
     /\ num_buckets_' = num_buckets_ + 1
     /\ bucket' = [i \in 0 .. num_buckets_ |-> IF i = num_buckets_ THEN s.split_bucket
                                               ELSE IF i = b THEN s.bucket ELSE bucket[i]]
     /\ dir_' = [i \in DOMAIN d |-> IF i = s.split_index THEN num_buckets_ ELSE d[i]]

(* One activation of InsertInternal, for the pair (k, v) *)
Place(k, v) ==
  /\ bucket' = [bucket EXCEPT ![dir_[IndexOf(k)]] = BucketInsert(@, k, v)]
  /\ inserting' = NoValue
  /\ ret' = Outcome("insert", k, v)
  /\ UNCHANGED <<global_depth_, num_buckets_, dir_>>

(* The exception unwinds the recursion and releases latch_ *)
SplitOrThrow(k, v) ==
  /\ RedistributeBucket(IndexOf(k))
  /\ \/ /\ num_buckets_ \in Range(dir_')
        /\ inserting' = [key |-> k, value |-> v]
        /\ UNCHANGED ret
     \/ /\ num_buckets_ \notin Range(dir_')
        /\ inserting' = NoValue
        /\ ret' = Outcome("out_of_range", k, v)

(* Mutant: the retry without the split *)
InsertInternalNoSplit(k, v) ==
  IF BucketAccepts(bucket[dir_[IndexOf(k)]], k) THEN Place(k, v)
  ELSE /\ inserting' = [key |-> k, value |-> v]
       /\ UNCHANGED <<global_depth_, num_buckets_, dir_, bucket, ret>>

InsertInternal(k, v) ==
  IF BucketAccepts(bucket[dir_[IndexOf(k)]], k) THEN Place(k, v) ELSE SplitOrThrow(k, v)

Insert(k, v) ==
  /\ inserting = NoValue
  /\ InsertInternal(k, v)

InsertRetry ==
  /\ inserting # NoValue
  /\ InsertInternal(inserting.key, inserting.value)

Next ==
  \/ \E k \in Keys : Find(k) \/ Remove(k)
  \/ \E k \in Keys, v \in Values : Insert(k, v)
  \/ InsertRetry

Spec == Init /\ [][Next]_vars

(* A thread inside Insert keeps running: the code has nothing to wait for *)
FairSpec == Spec /\ WF_vars(InsertRetry)

-----------------------------------------------------------------------------
(* The table's variables stay in their types: dir_ has one slot per index   *)
(* IndexOf can compute, and every slot names an allocated bucket.           *)
TypeOK ==
  /\ global_depth_ \in Nat
  /\ num_buckets_ \in Nat
  /\ dir_ \in [0 .. 2^global_depth_ - 1 -> 0 .. num_buckets_ - 1]
  /\ bucket \in [0 .. num_buckets_ - 1 -> Bucket]
  /\ inserting \in Pair \cup {NoValue}

(* IsFull tests list_.size() == size_, so a bucket that ever exceeded its   *)
(* size would grow without limit: no sequence of splits and inserts may     *)
(* overfill one, give it a key twice, or a local depth above the global.    *)
BucketsSound ==
  \A b \in DOMAIN bucket :
    /\ Len(bucket[b].list) <= bucket_size_
    /\ bucket[b].depth <= global_depth_
    /\ \A k \in Keys : Cardinality(PosIn(bucket[b], k)) <= 1

Slots(b) == {i \in DOMAIN dir_ : dir_[i] = b}

(* After any history of splits the directory is the one of extendible       *)
(* hashing: a reachable bucket of local depth d is shared by exactly        *)
(* 2^(GD-d) slots, those that agree on their low d bits, every pair sits    *)
(* where IndexOf looks for it, and num_buckets_ counts the buckets in use.  *)
DirectoryIntegrity ==
  /\ num_buckets_ = Cardinality(Range(dir_))
  /\ \A b \in Range(dir_) :
       /\ \A i \in Slots(b) : Slots(b) = {j \in DOMAIN dir_ : i % 2^bucket[b].depth = j % 2^bucket[b].depth}
       /\ \A p \in Range(bucket[b].list) : dir_[IndexOf(p.key)] = b

(* RedistributeBucket redirects one slot.  That serves a split when the     *)
(* bucket split has, at its new depth, two slots in the directory, and the  *)
(* slot redirected is one of them.                                          *)
OneSlotServes ==
  num_buckets_' # num_buckets_ =>
    /\ bucket'[num_buckets_].depth = global_depth_'
    /\ \E i \in DOMAIN dir_' :
         /\ dir_'[i] = num_buckets_
         /\ LET was == dir_[i % 2^global_depth_] IN bucket'[was].depth # bucket[was].depth

(* Seen through Find, the table is a dictionary: a split changes nothing a  *)
(* caller can see, an insert is found until it is removed or overwritten.   *)
Map == INSTANCE KeyValueMap WITH map <- [k \in Keys |-> FindInternal(k)]

ImplementsMap == Map!Spec

(* The recursion of InsertInternal ends: splitting makes room eventually.   *)
InsertTerminates == (inserting # NoValue) ~> (inserting = NoValue)

(* A pair whose insert has returned stays findable until it is removed.     *)
NoKeyLost ==
  [][\A k \in Keys : FindInternal(k) # NoValue /\ FindInternal(k)' = NoValue
       => ret'.op = "remove" /\ ret'.key = k]_vars
=============================================================================
