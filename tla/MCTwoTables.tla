---------------------------- MODULE MCTwoTables -----------------------------
(* Two hash tables that share nothing, so that only one of them needs to be *)
(* in use: one with keys whose every split one slot serves, one with        *)
(* buckets of a single pair and keys on which a split may be served by no   *)
(* slot, where Insert throws half way.                                      *)
EXTENDS MCExtendibleHashTable

CONSTANTS AnyKeys, AnyMaxDepth,
          Overwritten, Second   \* the key that may be given this value too

VARIABLES any_depth, any_num, any_dir, any_bucket, any_inserting, any_ret

anyVars == <<any_depth, any_num, any_dir, any_bucket, any_inserting, any_ret>>

Any_ == INSTANCE ExtendibleHashTable WITH
  Keys <- AnyKeys, Hash <- [k \in AnyKeys |-> k], bucket_size_ <- 1, MaxGlobalDepth <- AnyMaxDepth,
  global_depth_ <- any_depth, num_buckets_ <- any_num, dir_ <- any_dir, bucket <- any_bucket,
  inserting <- any_inserting, ret <- any_ret

Unused == ret.op = "none"
AnyUnused == any_ret.op = "none" /\ any_inserting = NoValue

BothInit == Init /\ Any_!Init

(* Bound: one key of the first table is inserted with either value *)
Bounded ==
  \A p \in UNION {Range(bucket[b].list) : b \in DOMAIN bucket} \cup ({inserting} \ {NoValue}) :
    p.value = Second => p.key = Overwritten

(* A thread inside Insert keeps running: the code has nothing to wait for *)
TwoTables ==
  /\ BothInit
  /\ [][\/ AnyUnused /\ Next /\ Bounded' /\ UNCHANGED anyVars
        \/ Unused /\ inserting = NoValue /\ Any_!Next /\ UNCHANGED vars]_<<vars, anyVars>>
  /\ WF_vars(InsertRetry)

(* Whatever the keys, in both tables: IsFull tests list_.size() == size_, so *)
(* a bucket that ever exceeded its size would grow without limit; no         *)
(* sequence of splits, inserts and exceptions may overfill one, give it a    *)
(* key twice, or a local depth above the global.  (With the types.)          *)
AllBucketsSound == TypeOK /\ BucketsSound /\ Any_!BucketsSound
=============================================================================
