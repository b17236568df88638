--------------------- MODULE ExtendibleHashTableProofs ---------------------
(***************************************************************************)
(* The hash table for every hash function, set of keys and bucket size.    *)
(*                                                                         *)
(* The buckets are sound after any history (TableInv).  The directory is   *)
(* sound, and the table is a dictionary, in the histories in which each    *)
(* split is one that a single redirected slot can serve (DirInv), and in   *)
(* no others.                                                              *)
(*                                                                         *)
(* In order: powers of two and remainders, since IndexOf keeps low bits;   *)
(* what the operations of a bucket do to the pairs it holds; the loop of   *)
(* RedistributeBucket, turn by turn; the two invariants; the refinement;   *)
(* the converse.                                                           *)
(***************************************************************************)
EXTENDS ExtendibleHashTable, SequenceTheorems, FiniteSetTheorems, WellFoundedInduction, TLAPS

(* A set of numbers that is not empty has a least member. *)
LEMMA LeastOf ==
  ASSUME NEW S \in SUBSET Nat, S # {}
  PROVE  \E m \in S : \A y \in S : m <= y
<1> DEFINE R == OpToRel(<, Nat)
<1>1. IsWellFoundedOn(R, Nat)
  BY Zenon, NatLessThanWellFounded
<1>2. \E x \in S : \A y \in S : ~(<<y, x>> \in R)
  <2> HIDE DEF R
  <2> QED BY Zenon, <1>1, WFMin
<1>3. PICK x \in S : \A y \in S : ~(<<y, x>> \in OpToRel(<, Nat))
  BY Zenon, <1>2
<1>4. ASSUME NEW y \in S
      PROVE  x <= y
  <2>1. <<y, x>> \in Nat \X Nat /\ <<y, x>>[1] = y /\ <<y, x>>[2] = x
    BY Zenon
  <2>2. ~(y < x)
    BY Zenon, <1>3, <2>1 DEF OpToRel
  <2> QED BY <2>2
<1> QED BY Zenon, <1>4

(* The powers of two, counted by the subsets of an interval. *)
LEMMA Power ==
  ASSUME NEW n \in Nat
  PROVE  2^n \in Nat \ {0} /\ 2^(n + 1) = 2 * 2^n
<1> DEFINE A == SUBSET (1 .. n)
           T == SUBSET (1 .. n + 1)
           f == [X \in A |-> X \cup {n + 1}]
           B == {X \cup {n + 1} : X \in A}
<1>1. ASSUME NEW m \in Nat
      PROVE  IsFiniteSet(SUBSET (1 .. m)) /\ Cardinality(SUBSET (1 .. m)) = 2^m /\ 2^m \in Nat \ {0}
  <2>1. IsFiniteSet(1 .. m) /\ Cardinality(1 .. m) = m
    <3>1. /\ IsFiniteSet(1 .. m)
          /\ Cardinality(1 .. m) = IF 1 > m THEN 0 ELSE m - 1 + 1
      BY FS_Interval
    <3> QED BY <3>1
  <2>2. IsFiniteSet(SUBSET (1 .. m)) /\ Cardinality(SUBSET (1 .. m)) = 2^m
    BY Zenon, <2>1, FS_SUBSET
  <2>3. {} \in SUBSET (1 .. m)
    BY Zenon
  <2> QED BY Zenon, <2>2, <2>3, FS_CardinalityType, FS_EmptySet
<1>2. n + 1 \in Nat /\ n + 1 \notin 1 .. n /\ 1 .. n + 1 = (1 .. n) \cup {n + 1}
  OBVIOUS
<1>3. /\ IsFiniteSet(A) /\ Cardinality(A) = 2^n /\ 2^n \in Nat \ {0}
      /\ Cardinality(T) = 2^(n + 1)
  BY Zenon, <1>1, <1>2
<1>4. T = A \cup B
  <2>1. ASSUME NEW X \in T, X \notin A
        PROVE  X \in B
    <3> DEFINE Y == X \ {n + 1}
    <3>1. Y \in A /\ X = Y \cup {n + 1}
      BY Zenon, <1>2, <2>1
    <3> QED BY Zenon, <3>1
  <2>2. A \subseteq T /\ B \subseteq T
    BY Zenon, <1>2
  <2> QED BY Zenon, <2>1, <2>2
<1>5. A \cap B = {}
  BY Zenon, <1>2
<1>6. f \in Bijection(A, B)
  <2>1. f \in [A -> B]
    BY Zenon
  <2>2. \A X, Y \in A : f[X] = f[Y] => X = Y
    <3>1. \A X, Y \in A : X \cup {n + 1} = Y \cup {n + 1} => X = Y
      <4>1. \A X \in A : X = (X \cup {n + 1}) \ {n + 1}
        BY Zenon, <1>2
      <4> QED BY Zenon, <4>1
    <3> QED BY Zenon, <3>1
  <2>3. \A Z \in B : \E X \in A : f[X] = Z
    BY Zenon
  <2> QED BY Zenon, <2>1, <2>2, <2>3 DEF Bijection, Injection, Surjection, IsInjective
<1>7. IsFiniteSet(B) /\ Cardinality(B) = Cardinality(A)
  <2> HIDE DEF f, B, A
  <2> QED BY Zenon, <1>3, <1>6, FS_Bijection DEF ExistsBijection
<1>8. Cardinality(A \cup B) = Cardinality(A) + Cardinality(B) - Cardinality(A \cap B)
  <2> HIDE DEF B, A
  <2> QED BY Zenon, <1>3, <1>7, FS_Union
<1>9. Cardinality(A \cap B) = 0
  BY Zenon, <1>5, FS_EmptySet
<1> HIDE DEF A, B, T
<1> QED BY <1>3, <1>4, <1>7, <1>8, <1>9

-----------------------------------------------------------------------------
(* Quotient and remainder; the remainder is the only one. *)
LEMMA Division ==
  ASSUME NEW a \in Int, NEW m \in Nat, m > 0
  PROVE  a = m * (a \div m) + (a % m)
OBVIOUS

LEMMA Remainder ==
  ASSUME NEW a \in Int, NEW m \in Nat \ {0}
  PROVE  a % m \in 0 .. m - 1 /\ a \div m \in Int /\ a = m * (a \div m) + (a % m)
<1>1. a % m \in 0 .. m - 1
  OBVIOUS
<1>2. a \div m \in Int
  OBVIOUS
<1>3. a = m * (a \div m) + (a % m)
  <2>1. m \in Nat /\ m > 0
    OBVIOUS
  <2> QED BY Zenon, <2>1, Division
<1> QED BY Zenon, <1>1, <1>2, <1>3

LEMMA RemainderIs ==
  ASSUME NEW m \in Nat \ {0}, NEW q \in Int, NEW r \in 0 .. m - 1
  PROVE  (m * q + r) % m = r
OBVIOUS

LEMMA RemainderSmall ==
  ASSUME NEW m \in Nat \ {0}, NEW r \in 0 .. m - 1
  PROVE  r % m = r
OBVIOUS

(* Low bits of low bits are low bits. *)
LEMMA RemainderNested ==
  ASSUME NEW a \in Int, NEW m \in Nat \ {0}, NEW c \in Nat \ {0}
  PROVE  (a % (m * c)) % m = a % m
<1>1. m * c \in Nat \ {0}
  OBVIOUS
<1> DEFINE q == a \div (m * c)
           b == a % (m * c)
           u == a \div m
           r == a % m
<1>2. q \in Int /\ b \in Int /\ a = (m * c) * q + b
  <2> DEFINE n == m * c
  <2>1. n \in Nat \ {0}
    BY Zenon, <1>1
  <2> HIDE DEF n
  <2>2. a % n \in 0 .. n - 1 /\ a \div n \in Int /\ a = n * (a \div n) + (a % n)
    BY Zenon, <2>1, Remainder
  <2>3. a % n \in Int
    BY <2>1, <2>2
  <2> QED BY Zenon, <2>2, <2>3 DEF n
<1>3. u \in Int /\ r \in 0 .. m - 1 /\ a = m * u + r
  BY Remainder
<1> HIDE DEF q, b, u, r
<1>4. b = m * (u - c * q) + r /\ u - c * q \in Int
  BY <1>2, <1>3
<1>5. b % m = r
  BY Zenon, <1>3, <1>4, RemainderIs
<1> QED BY <1>5 DEF b, r

(* An index below 2p is its remainder by p, or p above it. *)
LEMMA Halves ==
  ASSUME NEW p \in Nat \ {0}, NEW i \in 0 .. 2 * p - 1
  PROVE  i = i % p \/ i = (i % p) + p
OBVIOUS

(* Of two powers of two, the smaller divides the larger. *)
LEMMA PowerDivides ==
  ASSUME NEW d \in Nat, NEW g \in Nat, d <= g
  PROVE  \E c \in Nat \ {0} : 2^g = 2^d * c
<1> DEFINE Bad == {n \in Nat : d <= n /\ ~\E c \in Nat \ {0} : 2^n = 2^d * c}
<1> SUFFICES ASSUME Bad # {} PROVE FALSE
  BY Zenon
<1>1. PICK n \in Bad : \A y \in Bad : n <= y
  <2>1. Bad \in SUBSET Nat
    BY Zenon
  <2> HIDE DEF Bad
  <2> QED BY Zenon, <2>1, LeastOf
<1>2. n \in Nat /\ d <= n /\ ~\E c \in Nat \ {0} : 2^n = 2^d * c
  BY Zenon, <1>1
<1>3. 2^d \in Nat \ {0}
  BY Zenon, Power
<1>4. n # d
  <2>1. 2^d = 2^d * 1 /\ 1 \in Nat \ {0}
    BY <1>3
  <2> QED BY Zenon, <1>2, <2>1
<1>5. n - 1 \in Nat /\ d <= n - 1 /\ ~(n <= n - 1) /\ (n - 1) + 1 = n
  BY <1>2, <1>4
<1>6. n - 1 \notin Bad
  BY Zenon, <1>1, <1>5
<1>7. PICK c \in Nat \ {0} : 2^(n - 1) = 2^d * c
  BY Zenon, <1>5, <1>6
<1>8. 2^n = 2 * 2^(n - 1)
  BY Zenon, <1>5, Power
<1>9. 2^n = 2^d * (2 * c) /\ 2 * c \in Nat \ {0}
  <2> DEFINE x == 2^d
  <2>1. x \in Nat /\ 2^n = 2 * (x * c)
    BY Zenon, <1>3, <1>7, <1>8
  <2> HIDE DEF x
  <2>2. 2 * (x * c) = x * (2 * c) /\ 2 * c \in Nat \ {0}
    BY <2>1
  <2> QED BY Zenon, <2>1, <2>2 DEF x
<1> QED BY Zenon, <1>2, <1>9

-----------------------------------------------------------------------------
(* The pairs a bucket holds; no two of one key. *)
Held(b) == Range(b.list)
Distinct(b) == \A i, j \in DOMAIN b.list : b.list[i].key = b.list[j].key => i = j

(* The fields of a bucket and of its pairs. *)
LEMMA BucketFields ==
  ASSUME NEW b \in Bucket
  PROVE  /\ b.depth \in Nat /\ b.list \in Seq(Pair) /\ Len(b.list) \in Nat
         /\ DOMAIN b.list = 1 .. Len(b.list)
         /\ \A i \in DOMAIN b.list :
              b.list[i] \in Pair /\ b.list[i].key \in Keys /\ b.list[i].value \in Values
<1>1. b.depth \in Nat /\ b.list \in Seq(Pair)
  BY Zenon DEF Bucket
<1>2. Len(b.list) \in Nat /\ DOMAIN b.list = 1 .. Len(b.list)
  BY Zenon, <1>1, LenProperties
<1>3. \A i \in 1 .. Len(b.list) : b.list[i] \in Pair
  BY Zenon, <1>1, ElementOfSeq
<1> QED BY Zenon, <1>1, <1>2, <1>3 DEF Pair

(* A bucket with another list. *)
LEMMA SetList ==
  ASSUME NEW b \in Bucket, NEW l \in Seq(Pair)
  PROVE  /\ [b EXCEPT !.list = l] \in Bucket
         /\ [b EXCEPT !.list = l].list = l /\ [b EXCEPT !.list = l].depth = b.depth
<1>1. b = [depth |-> b.depth, list |-> b.list] /\ b.depth \in Nat
  BY DEF Bucket
<1>2. [b EXCEPT !.list = l] = [depth |-> b.depth, list |-> l]
  BY DEF Bucket
<1> QED BY Zenon, <1>1, <1>2 DEF Bucket

(* A key of the bucket is at one place, any other at none. *)
LEMMA Placed ==
  ASSUME NEW b \in Bucket, Distinct(b), NEW i \in DOMAIN b.list
  PROVE  PosIn(b, b.list[i].key) = {i} /\ Min(PosIn(b, b.list[i].key)) = i
<1>1. PosIn(b, b.list[i].key) = {i}
  BY Zenon DEF PosIn, Distinct
<1>2. i \in Int
  BY BucketFields
<1>3. Min({i}) = i
  <2>1. i <= i
    BY <1>2
  <2> QED BY Zenon, <2>1 DEF Min
<1> QED BY Zenon, <1>1, <1>3

LEMMA Unplaced ==
  ASSUME NEW b, NEW k
  PROVE  /\ PosIn(b, k) = {} <=> \A p \in Held(b) : p.key # k
         /\ PosIn(b, k) # {} => \E i \in DOMAIN b.list : b.list[i].key = k
BY Zenon DEF PosIn, Held, Range

(* Bucket::Find answers the value of the pair with the key. *)
LEMMA FindHeld ==
  ASSUME NEW b \in Bucket, Distinct(b)
  PROVE  /\ \A p \in Held(b) : BucketFind(b, p.key) = p.value
         /\ \A k : (\A p \in Held(b) : p.key # k) => BucketFind(b, k) = NoValue
<1>1. ASSUME NEW p \in Held(b)
      PROVE  BucketFind(b, p.key) = p.value
  <2>1. PICK i \in DOMAIN b.list : p = b.list[i]
    BY Zenon DEF Held, Range
  <2>2. PosIn(b, p.key) # {} /\ Min(PosIn(b, p.key)) = i
    BY Zenon, <2>1, Placed
  <2> QED BY Zenon, <2>1, <2>2 DEF BucketFind
<1>2. ASSUME NEW k, \A p \in Held(b) : p.key # k
      PROVE  BucketFind(b, k) = NoValue
  BY Zenon, <1>2, Unplaced DEF BucketFind
<1> QED BY Zenon, <1>1, <1>2

(* list::erase: what follows the erased pair moves up one place. *)
LEMMA Erased ==
  ASSUME NEW S, NEW s \in Seq(S), NEW i \in 1 .. Len(s)
  PROVE  /\ Erase(s, i) \in Seq(S)
         /\ Len(Erase(s, i)) = Len(s) - 1
         /\ \A j \in 1 .. Len(s) - 1 :
              Erase(s, i)[j] = IF j < i THEN s[j] ELSE s[j + 1]
<1> DEFINE a == SubSeq(s, 1, i - 1)
           b == SubSeq(s, i + 1, Len(s))
<1>1. Len(s) \in Nat /\ \A j \in 1 .. Len(s) : s[j] \in S
  BY Zenon, ElementOfSeq, LenProperties
<1>2. /\ a \in Seq(S) /\ Len(a) = i - 1
      /\ \A j \in 1 .. i - 1 : a[j] = s[j]
  <2>1. /\ a \in Seq(S) /\ Len(a) = IF 1 <= i - 1 THEN (i - 1) - 1 + 1 ELSE 0
        /\ \A j \in 1 .. (i - 1) - 1 + 1 : a[j] = s[1 + j - 1]
    <3>1. 1 \in Int /\ i - 1 \in Int /\ \A j \in 1 .. i - 1 : s[j] \in S
      BY <1>1
    <3> QED BY <3>1, SubSeqProperties
  <2> QED BY <2>1, <1>1
<1>3. /\ b \in Seq(S) /\ Len(b) = Len(s) - i
      /\ \A j \in 1 .. Len(s) - i : b[j] = s[i + j]
  <2>1. /\ b \in Seq(S) /\ Len(b) = IF i + 1 <= Len(s) THEN Len(s) - (i + 1) + 1 ELSE 0
        /\ \A j \in 1 .. Len(s) - (i + 1) + 1 : b[j] = s[i + 1 + j - 1]
    <3>1. i + 1 \in Int /\ Len(s) \in Int /\ \A j \in i + 1 .. Len(s) : s[j] \in S
      BY <1>1
    <3> QED BY <3>1, SubSeqProperties
  <2> QED BY <2>1, <1>1
<1>4. /\ a \o b \in Seq(S) /\ Len(a \o b) = Len(a) + Len(b)
      /\ \A j \in 1 .. Len(a) + Len(b) : (a \o b)[j] = IF j <= Len(a) THEN a[j] ELSE b[j - Len(a)]
  BY Zenon, <1>2, <1>3, ConcatProperties
<1>5. Erase(s, i) = a \o b
  BY Zenon DEF Erase
<1>6. ASSUME NEW j \in 1 .. Len(s) - 1
      PROVE  (a \o b)[j] = IF j < i THEN s[j] ELSE s[j + 1]
  <2> HIDE DEF a, b
  <2>1. CASE j < i
    BY <2>1, <1>1, <1>2, <1>3, <1>4
  <2>2. CASE ~(j < i)
    <3>1. j - Len(a) \in 1 .. Len(s) - i /\ i + (j - Len(a)) = j + 1
      BY <2>2, <1>1, <1>2
    <3>2. (a \o b)[j] = b[j - Len(a)]
      BY <2>2, <1>1, <1>2, <1>3, <1>4
    <3> QED BY Zenon, <3>1, <3>2, <2>2, <1>3
  <2> QED BY Zenon, <2>1, <2>2
<1> HIDE DEF a, b
<1> QED BY <1>1, <1>2, <1>3, <1>4, <1>5, <1>6

(* Bucket::Remove takes out the pair with the key and no other. *)
LEMMA RemoveHeld ==
  ASSUME NEW b \in Bucket, Distinct(b), NEW k
  PROVE  /\ BucketRemove(b, k) \in Bucket /\ Distinct(BucketRemove(b, k))
         /\ BucketRemove(b, k).depth = b.depth
         /\ Len(BucketRemove(b, k).list) <= Len(b.list)
         /\ Held(BucketRemove(b, k)) = {p \in Held(b) : p.key # k}
<1> DEFINE c == BucketRemove(b, k)
           n == Len(b.list)
<1>1. n \in Nat /\ DOMAIN b.list = 1 .. n /\ b.list \in Seq(Pair)
  BY Zenon, BucketFields
<1>2. CASE PosIn(b, k) = {}
  <2>1. c = b
    BY Zenon, <1>2 DEF BucketRemove
  <2>2. Held(b) = {p \in Held(b) : p.key # k}
    <3>1. \A p \in Held(b) : p.key # k
      BY Zenon, <1>2, Unplaced
    <3> QED BY Zenon, <3>1
  <2>3. n <= n
    BY <1>1
  <2> QED BY Zenon, <2>1, <2>2, <2>3
<1>3. CASE PosIn(b, k) # {}
  <2>1. PICK i \in DOMAIN b.list : b.list[i].key = k
    BY Zenon, <1>3, Unplaced
  <2> DEFINE l == Erase(b.list, i)
  <2>2. i \in 1 .. n
    BY Zenon, <1>1
  <2>3. /\ l \in Seq(Pair) /\ Len(l) = n - 1
        /\ \A j \in 1 .. n - 1 : l[j] = IF j < i THEN b.list[j] ELSE b.list[j + 1]
    BY Zenon, <1>1, <2>2, Erased
  <2>4. DOMAIN l = 1 .. n - 1
    BY Zenon, <2>3, LenProperties
  <2>5. c = [b EXCEPT !.list = l]
    BY Zenon, <1>3, <2>1, Placed DEF BucketRemove
  <2> HIDE DEF l
  <2>6. c \in Bucket /\ c.list = l /\ c.depth = b.depth
    <3> DEFINE e == [b EXCEPT !.list = l]
    <3>1. e \in Bucket /\ e.list = l /\ e.depth = b.depth
      BY Zenon, <2>3, SetList
    <3> HIDE DEF e
    <3> QED BY Zenon, <2>5, <3>1 DEF e
  <2> DEFINE from(j) == IF j < i THEN j ELSE j + 1
  <2>7. \A j \in 1 .. n - 1 : from(j) \in 1 .. n /\ from(j) # i
    BY <1>1, <2>2
  <2>8. \A j, m \in 1 .. n - 1 : from(j) = from(m) => j = m
    BY <1>1, <2>2
  <2>9. \A j \in 1 .. n - 1 : l[j] = b.list[from(j)]
    BY Zenon, <2>3
  <2>10. \A j \in 1 .. n : j # i => \E m \in 1 .. n - 1 : from(m) = j
    <3> SUFFICES ASSUME NEW j \in 1 .. n, j # i PROVE \E m \in 1 .. n - 1 : from(m) = j
      BY Zenon
    <3>1. CASE j < i
      <4>1. j \in 1 .. n - 1
        BY <1>1, <2>2, <3>1
      <4> QED BY Zenon, <3>1, <4>1
    <3>2. CASE ~(j < i)
      <4>1. j - 1 \in 1 .. n - 1 /\ ~(j - 1 < i) /\ (j - 1) + 1 = j
        BY <1>1, <2>2, <3>2
      <4> QED BY Zenon, <4>1
    <3> QED BY Zenon, <3>1, <3>2
  <2> HIDE DEF from
  <2>11. Distinct(c)
    <3>1. ASSUME NEW j \in 1 .. n - 1, NEW m \in 1 .. n - 1, l[j].key = l[m].key
          PROVE  j = m
      <4>1. /\ b.list[from(j)].key = b.list[from(m)].key
            /\ from(j) \in DOMAIN b.list /\ from(m) \in DOMAIN b.list
        BY Zenon, <1>1, <2>7, <2>9, <3>1
      <4> QED BY Zenon, <2>8, <4>1 DEF Distinct
    <3> QED BY Zenon, <2>4, <2>6, <3>1 DEF Distinct
  <2>12. ASSUME NEW p \in Held(c)
         PROVE  p \in Held(b) /\ p.key # k
    <3>1. PICK j \in 1 .. n - 1 : p = b.list[from(j)]
      BY Zenon, <2>4, <2>6, <2>9 DEF Held, Range
    <3>2. from(j) \in DOMAIN b.list /\ from(j) # i
      BY Zenon, <1>1, <2>7
    <3> QED BY Zenon, <2>1, <3>1, <3>2 DEF Held, Range, Distinct
  <2>13. ASSUME NEW p \in Held(b), p.key # k
         PROVE  p \in Held(c)
    <3>1. PICK j \in DOMAIN b.list : p = b.list[j]
      BY Zenon DEF Held, Range
    <3>2. PICK m \in 1 .. n - 1 : from(m) = j
      BY Zenon, <1>1, <2>1, <2>10, <2>13, <3>1
    <3> QED BY Zenon, <2>4, <2>6, <2>9, <3>1, <3>2 DEF Held, Range
  <2>14. Held(c) = {p \in Held(b) : p.key # k}
    BY Zenon, <2>12, <2>13
  <2>15. Len(l) <= n
    BY <1>1, <2>3
  <2> QED BY Zenon, <2>6, <2>11, <2>14, <2>15
<1> QED BY Zenon, <1>2, <1>3

(* Bucket::Insert, when it accepts, leaves one pair with the key. *)
LEMMA InsertHeld ==
  ASSUME NEW b \in Bucket, Distinct(b), NEW k \in Keys, NEW v \in Values, BucketAccepts(b, k)
  PROVE  /\ BucketInsert(b, k, v) \in Bucket /\ Distinct(BucketInsert(b, k, v))
         /\ BucketInsert(b, k, v).depth = b.depth
         /\ Held(BucketInsert(b, k, v)) = {p \in Held(b) : p.key # k} \cup {[key |-> k, value |-> v]}
         /\ \/ Len(BucketInsert(b, k, v).list) = Len(b.list)
            \/ Len(BucketInsert(b, k, v).list) = Len(b.list) + 1 /\ ~IsFull(b)
<1> DEFINE c == BucketInsert(b, k, v)
           n == Len(b.list)
           x == [key |-> k, value |-> v]
<1>1. n \in Nat /\ DOMAIN b.list = 1 .. n /\ b.list \in Seq(Pair) /\ \A i \in 1 .. n : b.list[i] \in Pair
  BY Zenon, BucketFields
<1>2. x \in Pair /\ x.key = k
  BY Zenon DEF Pair
<1>3. CASE PosIn(b, k) # {}
  <2>1. PICK i \in DOMAIN b.list : b.list[i].key = k
    BY Zenon, <1>3, Unplaced
  <2> DEFINE l == [b.list EXCEPT ![i] = x]
  <2>2. [b.list[i] EXCEPT !.value = v] = x
    <3>1. b.list[i] \in Pair /\ b.list[i].key = k
      BY Zenon, <1>1, <2>1
    <3> QED BY <3>1 DEF Pair
  <2>3. c = [b EXCEPT !.list = l]
    <3>1. c = [b EXCEPT !.list[i].value = v]
      BY Zenon, <1>3, <2>1, Placed DEF BucketInsert
    <3>2. [b EXCEPT !.list[i].value = v]
            = [b EXCEPT !.list = [b.list EXCEPT ![i] = [b.list[i] EXCEPT !.value = v]]]
      BY Zenon
    <3> QED BY Zenon, <2>2, <3>1, <3>2
  <2>4. /\ l \in Seq(Pair) /\ Len(l) = n /\ DOMAIN l = 1 .. n /\ l[i] = x
        /\ \A j \in 1 .. n : j # i => l[j] = b.list[j]
    <3>1. i \in 1 .. n
      BY Zenon, <1>1
    <3>2. l \in Seq(Pair) /\ Len(l) = n /\ \A j \in 1 .. n : l[j] = IF j = i THEN x ELSE b.list[j]
      BY <1>1, <1>2, <3>1, ExceptSeq
    <3>3. DOMAIN l = 1 .. n
      BY Zenon, <3>2, LenProperties
    <3> HIDE DEF l, x
    <3> QED BY Zenon, <3>1, <3>2, <3>3
  <2> HIDE DEF l, x
  <2>5. c \in Bucket /\ c.list = l /\ c.depth = b.depth
    <3> DEFINE e == [b EXCEPT !.list = l]
    <3>1. e \in Bucket /\ e.list = l /\ e.depth = b.depth
      BY Zenon, <2>4, SetList
    <3> HIDE DEF e
    <3> QED BY Zenon, <2>3, <3>1 DEF e
  <2>6. \A j \in 1 .. n : l[j].key = b.list[j].key
    BY Zenon, <1>2, <2>1, <2>4
  <2>7. Distinct(c)
    BY Zenon, <1>1, <2>4, <2>5, <2>6 DEF Distinct
  <2>8. ASSUME NEW p \in Held(c), p # x
        PROVE  p \in Held(b) /\ p.key # k
    <3>1. PICK j \in 1 .. n : p = l[j]
      BY Zenon, <2>4, <2>5 DEF Held, Range
    <3>2. j # i /\ p = b.list[j]
      BY Zenon, <2>4, <2>8, <3>1
    <3> QED BY Zenon, <1>1, <2>1, <3>2 DEF Held, Range, Distinct
  <2>9. ASSUME NEW p \in Held(b), p.key # k
        PROVE  p \in Held(c)
    <3>1. PICK j \in 1 .. n : p = b.list[j]
      BY Zenon, <1>1 DEF Held, Range
    <3>2. p = l[j]
      BY Zenon, <2>1, <2>4, <2>9, <3>1
    <3> QED BY Zenon, <2>4, <2>5, <3>2 DEF Held, Range
  <2>10. x \in Held(c)
    BY Zenon, <1>1, <2>4, <2>5 DEF Held, Range
  <2>11. Held(c) = {p \in Held(b) : p.key # k} \cup {x}
    BY Zenon, <2>8, <2>9, <2>10
  <2> QED BY Zenon, <2>4, <2>5, <2>7, <2>11 DEF x
<1>4. CASE PosIn(b, k) = {}
  <2> DEFINE l == Append(b.list, x)
  <2>1. \A p \in Held(b) : p.key # k
    BY Zenon, <1>4, Unplaced
  <2>2. ~IsFull(b) /\ c = [b EXCEPT !.list = l]
    BY Zenon, <1>4 DEF BucketInsert, BucketAccepts
  <2>3. /\ l \in Seq(Pair) /\ Len(l) = n + 1 /\ DOMAIN l = 1 .. n + 1 /\ l[n + 1] = x
        /\ \A j \in 1 .. n : l[j] = b.list[j]
    <3>1. l \in Seq(Pair) /\ Len(l) = n + 1 /\ l[n + 1] = x /\ \A j \in 1 .. n : l[j] = b.list[j]
      <4> HIDE DEF x
      <4>1. Len(b.list) + 1 = n + 1
        BY Zenon
      <4> QED BY <1>1, <1>2, <4>1, AppendProperties
    <3> QED BY Zenon, <3>1, LenProperties
  <2> HIDE DEF l, x
  <2>4. c \in Bucket /\ c.list = l /\ c.depth = b.depth
    <3> DEFINE e == [b EXCEPT !.list = l]
    <3>1. e \in Bucket /\ e.list = l /\ e.depth = b.depth
      BY Zenon, <2>3, SetList
    <3> HIDE DEF e
    <3> QED BY Zenon, <2>2, <3>1 DEF e
  <2>5. \A j \in 1 .. n + 1 : j \in 1 .. n \/ j = n + 1
    BY <1>1
  <2>6. n + 1 \in 1 .. n + 1 /\ \A j \in 1 .. n : j \in 1 .. n + 1
    BY <1>1
  <2>7. \A j \in 1 .. n : l[j] \in Held(b) /\ l[j].key # k
    BY Zenon, <1>1, <2>1, <2>3 DEF Held, Range
  <2>8. Distinct(c)
    <3>1. ASSUME NEW i \in 1 .. n + 1, NEW j \in 1 .. n + 1, l[i].key = l[j].key
          PROVE  i = j
      <4>1. CASE i \in 1 .. n /\ j \in 1 .. n
        BY Zenon, <1>1, <2>3, <3>1, <4>1 DEF Distinct
      <4> QED BY Zenon, <1>2, <2>3, <2>5, <2>7, <3>1, <4>1
    <3> QED BY Zenon, <2>3, <2>4, <3>1 DEF Distinct
  <2>9. ASSUME NEW p \in Held(c), p # x
        PROVE  p \in Held(b) /\ p.key # k
    <3>1. PICK j \in 1 .. n + 1 : p = l[j]
      BY Zenon, <2>3, <2>4 DEF Held, Range
    <3> QED BY Zenon, <2>3, <2>5, <2>7, <2>9, <3>1
  <2>10. ASSUME NEW p \in Held(b)
         PROVE  p \in Held(c)
    <3>1. PICK j \in 1 .. n : p = b.list[j]
      BY Zenon, <1>1 DEF Held, Range
    <3>2. j \in DOMAIN c.list /\ c.list[j] = p
      BY Zenon, <2>3, <2>4, <2>6, <3>1
    <3> QED BY Zenon, <3>2 DEF Held, Range
  <2>11. x \in Held(c)
    BY Zenon, <2>3, <2>4, <2>6 DEF Held, Range
  <2>12. Held(c) = {p \in Held(b) : p.key # k} \cup {x}
    BY Zenon, <2>9, <2>10, <2>11
  <2> QED BY Zenon, <2>2, <2>3, <2>4, <2>8, <2>12 DEF x
<1> QED BY Zenon, <1>3, <1>4

-----------------------------------------------------------------------------
(* The first n turns of the loop of RedistributeBucket. *)
Start(b, index) ==
  [bucket |-> b, split_bucket |-> [depth |-> b.depth, list |-> <<>>], split_index |-> index + b.depth]

Turns(g, b, n, index, gd) ==
  g = [m \in 0 .. n |-> IF m = 0 THEN Start(b, index) ELSE MovePair(g[m - 1], b.list[m], index, gd)]

(* The loop makes its turns one after the other. *)
LEMMA TurnsMade ==
  ASSUME NEW b, NEW index, NEW gd, NEW n \in Nat
  PROVE  \E g : Turns(g, b, n, index, gd)
<1> DEFINE Stuck == {m \in Nat : ~\E g : Turns(g, b, m, index, gd)}
           z == Start(b, index)
<1> SUFFICES ASSUME Stuck # {} PROVE FALSE
  BY Zenon
<1>1. PICK m \in Stuck : \A y \in Stuck : m <= y
  <2>1. Stuck \in SUBSET Nat
    BY Zenon
  <2> HIDE DEF Stuck
  <2> QED BY Zenon, <2>1, LeastOf
<1>2. m \in Nat /\ ~\E g : Turns(g, b, m, index, gd)
  BY Zenon, <1>1
<1>3. CASE m = 0
  <2> DEFINE g == [i \in 0 .. 0 |-> z]
  <2>1. \A i \in 0 .. 0 : i = 0
    OBVIOUS
  <2>2. Turns(g, b, 0, index, gd)
    BY Zenon, <2>1 DEF Turns
  <2> QED BY Zenon, <1>2, <1>3, <2>2
<1>4. CASE m # 0
  <2>1. m - 1 \in Nat /\ ~(m <= m - 1)
    BY <1>2, <1>4
  <2>2. m - 1 \notin Stuck
    BY Zenon, <1>1, <2>1
  <2>3. PICK h : Turns(h, b, m - 1, index, gd)
    BY Zenon, <2>1, <2>2
  <2> DEFINE Turn(x, i) == MovePair(x, b.list[i], index, gd)
             g == [i \in 0 .. m |-> IF i = m THEN Turn(h[m - 1], m) ELSE h[i]]
  <2>4. h = [i \in 0 .. m - 1 |-> IF i = 0 THEN z ELSE Turn(h[i - 1], i)]
    BY Zenon, <2>3 DEF Turns
  <2> HIDE DEF z, Turn
  <2>5. ASSUME NEW i \in 0 .. m
        PROVE  g[i] = IF i = 0 THEN z ELSE Turn(g[i - 1], i)
    <3>1. i # 0 => i - 1 \in 0 .. m /\ i - 1 # m
      BY <1>2
    <3>2. i # 0 => g[i - 1] = h[i - 1]
      BY Zenon, <3>1
    <3>3. CASE i = m
      BY Zenon, <1>4, <3>2, <3>3
    <3>4. CASE i # m
      <4>1. i \in 0 .. m - 1
        BY <1>2, <3>4
      <4>2. h[i] = IF i = 0 THEN z ELSE Turn(h[i - 1], i)
        BY Zenon, <2>4, <4>1
      <4>3. g[i] = h[i]
        BY Zenon, <3>4
      <4> HIDE DEF g
      <4> QED BY Zenon, <3>2, <4>2, <4>3
    <3> QED BY Zenon, <3>3, <3>4
  <2>6. g = [i \in 0 .. m |-> g[i]]
    BY Zenon
  <2> HIDE DEF g
  <2>7. g = [i \in 0 .. m |-> IF i = 0 THEN z ELSE Turn(g[i - 1], i)]
    BY Zenon, <2>5, <2>6
  <2>8. Turns(g, b, m, index, gd)
    BY Zenon, <2>7 DEF Turns, Turn, z
  <2> QED BY Zenon, <1>2, <2>8
<1> QED BY Zenon, <1>3, <1>4

LEMMA SpreadIs ==
  ASSUME NEW b \in Bucket, NEW index, NEW gd
  PROVE  \E g : Turns(g, b, Len(b.list), index, gd) /\ Spread(b, index, gd) = g[Len(b.list)]
<1> DEFINE after == CHOOSE g : Turns(g, b, Len(b.list), index, gd)
<1>1. Spread(b, index, gd) = after[Len(b.list)]
  BY Zenon DEF Spread, Turns, Start
<1>2. Len(b.list) \in Nat
  BY Zenon, BucketFields
<1>3. \E g : Turns(g, b, Len(b.list), index, gd)
  BY Zenon, <1>2, TurnsMade
<1>4. Turns(after, b, Len(b.list), index, gd)
  BY Zenon, <1>3
<1> HIDE DEF after
<1> QED BY Zenon, <1>1, <1>4

(* Between two turns: the pairs of the turns made are in the bucket IndexOf *)
(* chooses between the two, the others still in the old one, and            *)
(* split_index is the index of a pair that moved, if one did.               *)
Midway(s, b, n, index, gd) ==
  /\ s.bucket \in Bucket /\ Distinct(s.bucket) /\ s.bucket.depth = b.depth
  /\ Len(s.bucket.list) <= Len(b.list)
  /\ Held(s.bucket) \subseteq Held(b)
  /\ \A i \in DOMAIN b.list :
       b.list[i] \in Held(s.bucket) <=> i > n \/ IndexAt(b.list[i].key, gd) = index
  /\ s.split_bucket \in Bucket /\ Distinct(s.split_bucket) /\ s.split_bucket.depth = b.depth
  /\ Len(s.split_bucket.list) <= n
  /\ Held(s.split_bucket) \subseteq Held(b)
  /\ \A i \in DOMAIN b.list :
       b.list[i] \in Held(s.split_bucket) <=> i <= n /\ IndexAt(b.list[i].key, gd) # index
  /\ \/ s.split_index = index + b.depth /\ Held(s.split_bucket) = {}
     \/ \E p \in Held(s.split_bucket) : s.split_index = IndexAt(p.key, gd)

(* Midway from the contents of the two buckets. *)
LEMMA MidwayOf ==
  ASSUME NEW s, NEW b, NEW n, NEW index, NEW gd, NEW u, NEW w, s.bucket = u, s.split_bucket = w,
         u \in Bucket, Distinct(u), u.depth = b.depth, Len(u.list) <= Len(b.list),
         Held(u) \subseteq Held(b),
         \A i \in DOMAIN b.list :
           b.list[i] \in Held(u) <=> i > n \/ IndexAt(b.list[i].key, gd) = index,
         w \in Bucket, Distinct(w), w.depth = b.depth, Len(w.list) <= n, Held(w) \subseteq Held(b),
         \A i \in DOMAIN b.list :
           b.list[i] \in Held(w) <=> i <= n /\ IndexAt(b.list[i].key, gd) # index,
         \/ s.split_index = index + b.depth /\ Held(w) = {}
         \/ \E p \in Held(w) : s.split_index = IndexAt(p.key, gd)
  PROVE  Midway(s, b, n, index, gd)
BY SMTT(30) DEF Midway

LEMMA PairIs ==
  ASSUME NEW p \in Pair
  PROVE  [key |-> p.key, value |-> p.value] = p
BY DEF Pair

LEMMA MidwayStart ==
  ASSUME NEW b \in Bucket, Distinct(b), NEW index, NEW gd
  PROVE  Midway(Start(b, index), b, 0, index, gd)
<1> DEFINE e == [depth |-> b.depth, list |-> <<>>]
           s == Start(b, index)
<1>1. s.bucket = b /\ s.split_bucket = e /\ s.split_index = index + b.depth
  BY Zenon DEF Start
<1>2. e \in Bucket /\ e.depth = b.depth /\ e.list = <<>> /\ <<>> \in Seq(Pair)
  BY BucketFields DEF Bucket
<1>3. DOMAIN e.list = {} /\ Len(e.list) = 0
  BY <1>2
<1>4. Held(e) = {}
  BY Zenon, <1>3 DEF Held, Range
<1>5. Distinct(e)
  BY Zenon, <1>3 DEF Distinct
<1>6. Len(b.list) <= Len(b.list) /\ 0 <= 0
  BY BucketFields
<1>7. \A i \in DOMAIN b.list : b.list[i] \in Held(b)
  BY Zenon DEF Held, Range
<1>8. \A i \in DOMAIN b.list : i > 0 /\ ~(i <= 0)
  BY BucketFields
<1> HIDE DEF e
<1>9. Held(b) \subseteq Held(b) /\ Held(e) \subseteq Held(b)
  BY Zenon, <1>4
<1>10. \A i \in DOMAIN b.list :
         /\ b.list[i] \in Held(b) <=> i > 0 \/ IndexAt(b.list[i].key, gd) = index
         /\ b.list[i] \in Held(e) <=> i <= 0 /\ IndexAt(b.list[i].key, gd) # index
  BY Zenon, <1>4, <1>7, <1>8
<1>11. Len(e.list) <= 0
  BY Zenon, <1>3, <1>6
<1>12. s.split_index = index + b.depth /\ Held(e) = {}
  BY Zenon, <1>1, <1>4
<1> QED BY Zenon, MidwayOf, <1>1, <1>2, <1>5, <1>6, <1>9, <1>10, <1>11, <1>12

LEMMA MidwayStep ==
  ASSUME NEW b \in Bucket, Distinct(b), Len(b.list) <= bucket_size_,
         NEW index, NEW gd, NEW s, NEW n \in 1 .. Len(b.list),
         Midway(s, b, n - 1, index, gd)
  PROVE  Midway(MovePair(s, b.list[n], index, gd), b, n, index, gd)
<1> DEFINE p == b.list[n]
           t == MovePair(s, p, index, gd)
<1>0. Len(b.list) \in Nat /\ DOMAIN b.list = 1 .. Len(b.list) /\ n \in DOMAIN b.list /\ n \in Nat
  BY BucketFields
<1>1. p \in Pair /\ p.key \in Keys /\ p.value \in Values
  BY Zenon, <1>0, BucketFields
<1>2. \A i \in DOMAIN b.list : i # n => b.list[i].key # p.key /\ b.list[i] # p
  BY Zenon, <1>0 DEF Distinct
<1>3. \A i \in DOMAIN b.list : i # n => (i > n - 1 <=> i > n) /\ (i <= n - 1 <=> i <= n)
  BY <1>0
<1>4. n > n - 1 /\ ~(n > n) /\ n <= n /\ ~(n <= n - 1)
  BY <1>0
<1>5. s.bucket \in Bucket /\ Distinct(s.bucket) /\ s.split_bucket \in Bucket /\ Distinct(s.split_bucket)
  BY Zenon DEF Midway
<1>6. /\ Len(s.split_bucket.list) \in Nat /\ Len(s.bucket.list) \in Nat
      /\ Len(s.split_bucket.list) <= n - 1 /\ Len(s.bucket.list) <= Len(b.list)
  BY Zenon, <1>5, BucketFields DEF Midway
<1>7. CASE IndexAt(p.key, gd) = index
  <2>1. t = s
    BY Zenon, <1>7 DEF MovePair
  <2>2. Len(s.split_bucket.list) <= n
    BY <1>0, <1>6
  <2>3. ASSUME NEW i \in DOMAIN b.list
        PROVE  /\ b.list[i] \in Held(s.bucket) <=> i > n \/ IndexAt(b.list[i].key, gd) = index
               /\ b.list[i] \in Held(s.split_bucket) <=> i <= n /\ IndexAt(b.list[i].key, gd) # index
    <3>1. /\ b.list[i] \in Held(s.bucket) <=> i > n - 1 \/ IndexAt(b.list[i].key, gd) = index
          /\ b.list[i] \in Held(s.split_bucket) <=> i <= n - 1 /\ IndexAt(b.list[i].key, gd) # index
      BY Zenon DEF Midway
    <3>2. CASE i = n
      BY Zenon, <3>1, <3>2, <1>4, <1>7
    <3>3. CASE i # n
      BY Zenon, <3>1, <3>3, <1>3
    <3> QED BY Zenon, <3>2, <3>3
  <2>4. Midway(s, b, n, index, gd)
    BY Zenon, <2>2, <2>3 DEF Midway
  <2> QED BY Zenon, <2>1, <2>4
<1>8. CASE IndexAt(p.key, gd) # index
  <2> DEFINE u == BucketRemove(s.bucket, p.key)
             w == BucketInsert(s.split_bucket, p.key, p.value)
  <2>1. t.bucket = u /\ t.split_bucket = w /\ t.split_index = IndexAt(p.key, gd)
    BY Zenon, <1>8 DEF MovePair
  <2>2. /\ u \in Bucket /\ Distinct(u) /\ u.depth = s.bucket.depth /\ Len(u.list) <= Len(s.bucket.list)
        /\ Held(u) = {x \in Held(s.bucket) : x.key # p.key}
    BY ZenonT(40), <1>5, RemoveHeld
  <2>3. ~IsFull(s.split_bucket)
    <3>1. Len(s.split_bucket.list) # bucket_size_
      BY <1>0, <1>6, SizeAssumption
    <3> QED BY Zenon, <3>1 DEF IsFull
  <2>4. BucketAccepts(s.split_bucket, p.key)
    BY Zenon, <2>3 DEF BucketAccepts
  <2>5. /\ w \in Bucket /\ Distinct(w) /\ w.depth = s.split_bucket.depth
        /\ Held(w) = {x \in Held(s.split_bucket) : x.key # p.key} \cup {[key |-> p.key, value |-> p.value]}
        /\ \/ Len(w.list) = Len(s.split_bucket.list)
           \/ Len(w.list) = Len(s.split_bucket.list) + 1 /\ ~IsFull(s.split_bucket)
    <3> DEFINE c == s.split_bucket
    <3>1. c \in Bucket /\ Distinct(c) /\ BucketAccepts(c, p.key)
      BY Zenon, <1>5, <2>4
    <3> HIDE DEF p, c
    <3>2. /\ BucketInsert(c, p.key, p.value) \in Bucket /\ Distinct(BucketInsert(c, p.key, p.value))
          /\ BucketInsert(c, p.key, p.value).depth = c.depth
          /\ Held(BucketInsert(c, p.key, p.value))
               = {x \in Held(c) : x.key # p.key} \cup {[key |-> p.key, value |-> p.value]}
          /\ \/ Len(BucketInsert(c, p.key, p.value).list) = Len(c.list)
             \/ Len(BucketInsert(c, p.key, p.value).list) = Len(c.list) + 1 /\ ~IsFull(c)
      BY Zenon, <1>1, <3>1, InsertHeld
    <3> QED BY Zenon, <3>2 DEF c
  <2>6. [key |-> p.key, value |-> p.value] = p
    BY Zenon, <1>1, PairIs
  <2>7. p \in Held(w) /\ p \in Held(b) /\ p \notin Held(u)
    BY Zenon, <1>0, <2>2, <2>5, <2>6 DEF Held, Range
  <2>8. u.depth = b.depth /\ w.depth = b.depth
    BY Zenon, <2>2, <2>5 DEF Midway
  <2>9. Len(u.list) <= Len(b.list) /\ Len(w.list) <= n
    <3>1. Len(u.list) \in Nat /\ Len(w.list) \in Nat
      BY Zenon, <2>2, <2>5, BucketFields
    <3> HIDE DEF u, w
    <3> QED BY <3>1, <2>2, <2>5, <1>0, <1>6
  <2>10. Held(u) \subseteq Held(b) /\ Held(w) \subseteq Held(b)
    <3>1. Held(s.bucket) \subseteq Held(b) /\ Held(s.split_bucket) \subseteq Held(b)
      BY Zenon DEF Midway
    <3> HIDE DEF u, w
    <3> QED BY Zenon, <3>1, <2>2, <2>5, <2>6, <2>7
  <2>11. ASSUME NEW i \in DOMAIN b.list
         PROVE  /\ b.list[i] \in Held(u) <=> i > n \/ IndexAt(b.list[i].key, gd) = index
                /\ b.list[i] \in Held(w) <=> i <= n /\ IndexAt(b.list[i].key, gd) # index
    <3>1. /\ b.list[i] \in Held(s.bucket) <=> i > n - 1 \/ IndexAt(b.list[i].key, gd) = index
          /\ b.list[i] \in Held(s.split_bucket) <=> i <= n - 1 /\ IndexAt(b.list[i].key, gd) # index
      BY Zenon DEF Midway
    <3> HIDE DEF u, w
    <3>2. CASE i = n
      BY Zenon, <3>2, <1>4, <1>8, <2>7
    <3>3. CASE i # n
      <4>1. b.list[i].key # p.key /\ b.list[i] # p
        BY Zenon, <1>2, <3>3
      <4>2. b.list[i] \in Held(u) <=> b.list[i] \in Held(s.bucket)
        BY Zenon, <2>2, <4>1
      <4>3. b.list[i] \in Held(w) <=> b.list[i] \in Held(s.split_bucket)
        BY Zenon, <2>5, <2>6, <4>1
      <4> QED BY Zenon, <3>1, <3>3, <1>3, <4>2, <4>3
    <3> QED BY Zenon, <3>2, <3>3
  <2> HIDE DEF u, w
  <2>12. \E x \in Held(w) : t.split_index = IndexAt(x.key, gd)
    BY Zenon, <2>1, <2>7
  <2> QED BY Zenon, MidwayOf, <2>1, <2>2, <2>5, <2>8, <2>9, <2>10, <2>11, <2>12
<1> QED BY Zenon, <1>7, <1>8

(* The whole loop: every pair ends in the bucket its index calls for. *)
LEMMA SpreadHeld ==
  ASSUME NEW b \in Bucket, Distinct(b), Len(b.list) <= bucket_size_, NEW index, NEW gd
  PROVE  Midway(Spread(b, index, gd), b, Len(b.list), index, gd)
<1>1. PICK g : Turns(g, b, Len(b.list), index, gd) /\ Spread(b, index, gd) = g[Len(b.list)]
  BY Zenon, SpreadIs
<1> DEFINE n == Len(b.list)
           Bad == {m \in 0 .. n : ~Midway(g[m], b, m, index, gd)}
<1>2. n \in Nat
  BY Zenon, BucketFields
<1> HIDE DEF n
<1>3. \A m \in 0 .. n : g[m] = IF m = 0 THEN Start(b, index) ELSE MovePair(g[m - 1], b.list[m], index, gd)
  BY Zenon, <1>1 DEF Turns, n
<1>4. Bad = {}
  <2> SUFFICES ASSUME Bad # {} PROVE FALSE
    BY Zenon
  <2>1. Bad \in SUBSET Nat
    BY <1>2
  <2>2. PICK m \in Bad : \A y \in Bad : m <= y
    <3> HIDE DEF Bad
    <3> QED BY Zenon, <2>1, LeastOf
  <2>3. m \in 0 .. n /\ ~Midway(g[m], b, m, index, gd)
    BY Zenon, <2>2
  <2>4. m # 0
    <3> SUFFICES ASSUME m = 0 PROVE FALSE
      BY Zenon
    <3>1. g[m] = Start(b, index)
      BY Zenon, <1>3, <2>3
    <3> QED BY Zenon, <2>3, <3>1, MidwayStart
  <2>5. m - 1 \in 0 .. n /\ ~(m <= m - 1) /\ m \in 1 .. n
    BY <1>2, <2>3, <2>4
  <2>6. Midway(g[m - 1], b, m - 1, index, gd)
    BY Zenon, <2>2, <2>5
  <2>7. g[m] = MovePair(g[m - 1], b.list[m], index, gd)
    BY Zenon, <1>3, <2>3, <2>4
  <2>8. Midway(MovePair(g[m - 1], b.list[m], index, gd), b, m, index, gd)
    BY Zenon, <2>5, <2>6, MidwayStep DEF n
  <2> QED BY Zenon, <2>3, <2>7, <2>8
<1>5. n \in 0 .. n
  BY <1>2
<1>6. Midway(g[n], b, n, index, gd)
  BY Zenon, <1>4, <1>5
<1> QED BY Zenon, <1>1, <1>6 DEF n

-----------------------------------------------------------------------------
(* The buckets: none over its size, none with a key twice, none deeper than *)
(* the directory.                                                           *)
TableInv ==
  /\ TypeOK
  /\ \A b \in 0 .. num_buckets_ - 1 :
       /\ Distinct(bucket[b])
       /\ Len(bucket[b].list) <= bucket_size_
       /\ bucket[b].depth <= global_depth_

(* What TableInv says of the bucket of a slot. *)
LEMMA SlotBucket ==
  ASSUME TableInv, NEW i \in DOMAIN dir_
  PROVE  /\ dir_[i] \in 0 .. num_buckets_ - 1 /\ bucket[dir_[i]] \in Bucket /\ Distinct(bucket[dir_[i]])
         /\ Len(bucket[dir_[i]].list) <= bucket_size_ /\ bucket[dir_[i]].depth <= global_depth_
<1>1. dir_[i] \in 0 .. num_buckets_ - 1
  BY Zenon DEF TableInv, TypeOK
<1>2. bucket[dir_[i]] \in Bucket
  BY Zenon, <1>1 DEF TableInv, TypeOK
<1> QED BY Zenon, <1>1, <1>2 DEF TableInv

(* The directory has a slot for every index IndexOf computes. *)
LEMMA IndexIn ==
  ASSUME TableInv, NEW k \in Keys
  PROVE  IndexOf(k) \in DOMAIN dir_
<1>1. DOMAIN dir_ = 0 .. 2^global_depth_ - 1 /\ global_depth_ \in Nat
  BY Zenon DEF TableInv, TypeOK
<1>2. 2^global_depth_ \in Nat \ {0}
  BY Zenon, <1>1, Power
<1>3. Hash[k] \in Int
  BY HashAssumption
<1>4. Hash[k] % 2^global_depth_ \in 0 .. 2^global_depth_ - 1
  BY Zenon, <1>2, <1>3, Remainder
<1> QED BY Zenon, <1>1, <1>4 DEF IndexOf, IndexAt

(* A change to one bucket. *)
LEMMA BucketChanged ==
  ASSUME TableInv, NEW c \in 0 .. num_buckets_ - 1, NEW x \in Bucket,
         Distinct(x), Len(x.list) <= bucket_size_, x.depth = bucket[c].depth,
         bucket' = [bucket EXCEPT ![c] = x], inserting' \in Pair \cup {NoValue},
         UNCHANGED <<global_depth_, num_buckets_, dir_>>
  PROVE  TableInv'
<1>1. global_depth_' = global_depth_ /\ num_buckets_' = num_buckets_ /\ dir_' = dir_
  OBVIOUS
<1>2. DOMAIN bucket = 0 .. num_buckets_ - 1 /\ bucket' \in [0 .. num_buckets_ - 1 -> Bucket]
  BY Zenon DEF TableInv, TypeOK
<1>3. TypeOK'
  BY Zenon, <1>1, <1>2 DEF TableInv, TypeOK
<1>4. bucket'[c] = x /\ \A b \in 0 .. num_buckets_ - 1 : b # c => bucket'[b] = bucket[b]
  BY Zenon, <1>2
<1>5. \A b \in 0 .. num_buckets_ - 1 : /\ Distinct(bucket'[b]) /\ Len(bucket'[b].list) <= bucket_size_
                                       /\ bucket'[b].depth <= global_depth_
  BY Zenon, <1>4 DEF TableInv
<1>6. \A b \in 0 .. num_buckets_' - 1 : /\ Distinct(bucket'[b]) /\ Len(bucket'[b].list) <= bucket_size_
                                        /\ bucket'[b].depth <= global_depth_'
  BY Zenon, <1>1, <1>5
<1> QED BY Zenon, <1>3, <1>6 DEF TableInv, Distinct

-----------------------------------------------------------------------------
(* The parts of a split of the bucket of slot index. *)
DepthAfter(index) ==
  IF bucket[dir_[index]].depth = global_depth_ THEN global_depth_ + 1 ELSE global_depth_
DirAfter(index) ==
  IF bucket[dir_[index]].depth = global_depth_ THEN Doubled(dir_) ELSE dir_
Raised(index) == [bucket[dir_[index]] EXCEPT !.depth = @ + 1]
Parts(index) == Spread(Raised(index), index, DepthAfter(index))

LEMMA SplitIs ==
  ASSUME NEW index, RedistributeBucket(index)
  PROVE  /\ global_depth_' = DepthAfter(index) /\ num_buckets_' = num_buckets_ + 1
         /\ bucket' = [i \in 0 .. num_buckets_ |->
                         IF i = num_buckets_ THEN Parts(index).split_bucket
                         ELSE IF i = dir_[index] THEN Parts(index).bucket ELSE bucket[i]]
         /\ dir_' = [i \in DOMAIN DirAfter(index) |->
                       IF i = Parts(index).split_index THEN num_buckets_ ELSE DirAfter(index)[i]]
BY Zenon DEF RedistributeBucket, DepthAfter, DirAfter, Raised, Parts

(* Doubled or not, the slots that agree on the old low bits name one bucket. *)
LEMMA DirAfterIs ==
  ASSUME TableInv, NEW index \in DOMAIN dir_
  PROVE  /\ DepthAfter(index) \in Nat /\ global_depth_ <= DepthAfter(index)
         /\ DirAfter(index) \in [0 .. 2^DepthAfter(index) - 1 -> 0 .. num_buckets_ - 1]
         /\ \A i \in 0 .. 2^DepthAfter(index) - 1 :
              i % 2^global_depth_ \in DOMAIN dir_ /\ DirAfter(index)[i] = dir_[i % 2^global_depth_]
         /\ \A i \in DOMAIN dir_ : i \in 0 .. 2^DepthAfter(index) - 1 /\ i % 2^global_depth_ = i
<1> DEFINE n == 2^global_depth_
           m == 2^DepthAfter(index)
<1>1. global_depth_ \in Nat /\ dir_ \in [0 .. n - 1 -> 0 .. num_buckets_ - 1]
  BY Zenon DEF TableInv, TypeOK
<1>2. n \in Nat \ {0} /\ 2^(global_depth_ + 1) = 2 * n
  BY Zenon, <1>1, Power
<1>3. \A i \in Nat : i % n \in 0 .. n - 1
  <2>1. \A i \in Nat : i \in Int
    OBVIOUS
  <2> QED BY Zenon, <2>1, <1>2, Remainder
<1>4. \A i \in 0 .. n - 1 : i % n = i
  BY Zenon, <1>2, RemainderSmall
<1>5. DepthAfter(index) \in Nat /\ global_depth_ <= DepthAfter(index)
  BY <1>1 DEF DepthAfter
<1> HIDE DEF n
<1>6. CASE bucket[dir_[index]].depth = global_depth_
  <2>1. m = 2 * n /\ DirAfter(index) = Doubled(dir_)
    BY Zenon, <1>2, <1>6 DEF DepthAfter, DirAfter
  <2>2. Cardinality(DOMAIN dir_) = n
    <3>1. Cardinality(0 .. n - 1) = n
      <4>1. 0 \in Int /\ n - 1 \in Int /\ ~(0 > n - 1) /\ (n - 1) - 0 + 1 = n
        BY <1>2
      <4> QED BY Zenon, <4>1, FS_Interval
    <3> QED BY Zenon, <1>1, <3>1
  <2>3. Doubled(dir_) = [i \in 0 .. 2 * n - 1 |-> dir_[i % n]]
    BY Zenon, <2>2 DEF Doubled
  <2>4. \A i \in 0 .. 2 * n - 1 : i \in Nat
    BY <1>2
  <2>5. \A i \in 0 .. n - 1 : i \in 0 .. 2 * n - 1
    BY <1>2
  <2> HIDE DEF m
  <2>6. DirAfter(index) \in [0 .. m - 1 -> 0 .. num_buckets_ - 1]
    BY Zenon, <1>1, <1>3, <2>1, <2>3, <2>4
  <2>7. \A i \in 0 .. m - 1 : i % n \in DOMAIN dir_ /\ DirAfter(index)[i] = dir_[i % n]
    BY Zenon, <1>1, <1>3, <2>1, <2>3, <2>4
  <2> QED BY Zenon, <1>1, <1>4, <1>5, <2>1, <2>5, <2>6, <2>7 DEF m, n
<1>7. CASE bucket[dir_[index]].depth # global_depth_
  <2>1. m = n /\ DirAfter(index) = dir_
    BY Zenon, <1>7 DEF DepthAfter, DirAfter, n
  <2> HIDE DEF m
  <2> QED BY Zenon, <1>1, <1>4, <1>5, <2>1 DEF m, n
<1> QED BY Zenon, <1>6, <1>7

(* The bucket that is split, with its depth raised. *)
LEMMA RaisedIs ==
  ASSUME TableInv, NEW index \in DOMAIN dir_
  PROVE  /\ Raised(index) \in Bucket /\ Distinct(Raised(index))
         /\ Raised(index).list = bucket[dir_[index]].list
         /\ Raised(index).depth = bucket[dir_[index]].depth + 1
         /\ Len(Raised(index).list) <= bucket_size_
         /\ Raised(index).depth <= DepthAfter(index)
<1> DEFINE b == bucket[dir_[index]]
           r == Raised(index)
<1>1. b \in Bucket /\ Distinct(b) /\ Len(b.list) <= bucket_size_ /\ b.depth <= global_depth_
  BY Zenon, SlotBucket
<1>2. b.depth \in Nat /\ b.list \in Seq(Pair) /\ global_depth_ \in Nat
  BY Zenon, <1>1, BucketFields DEF TableInv, TypeOK
<1>3. r = [b EXCEPT !.depth = b.depth + 1]
  BY Zenon DEF Raised
<1>4. r = [depth |-> b.depth + 1, list |-> b.list]
  <2> HIDE DEF b
  <2>1. b = [depth |-> b.depth, list |-> b.list]
    BY <1>1 DEF Bucket
  <2> HIDE DEF r
  <2> QED BY <1>3, <2>1
<1>5. r.depth = b.depth + 1 /\ r.list = b.list
  <2> HIDE DEF r, b
  <2> QED BY Zenon, <1>4
<1>6. b.depth + 1 \in Nat
  BY <1>2
<1>7. r \in Bucket
  <2> HIDE DEF r, b
  <2> QED BY Zenon, <1>2, <1>4, <1>6 DEF Bucket
<1>8. b.depth + 1 <= DepthAfter(index)
  BY <1>1, <1>2 DEF DepthAfter
<1>9. Distinct(r)
  BY Zenon, <1>1, <1>5 DEF Distinct
<1> QED BY Zenon, <1>1, <1>5, <1>7, <1>8, <1>9

LEMMA PartsAre ==
  ASSUME TableInv, NEW index \in DOMAIN dir_
  PROVE  Midway(Parts(index), Raised(index), Len(Raised(index).list), index, DepthAfter(index))
BY Zenon, RaisedIs, SpreadHeld DEF Parts

(* A split keeps the buckets in order, whatever slot it redirects. *)
LEMMA SplitKeeps ==
  ASSUME TableInv, NEW index \in DOMAIN dir_, RedistributeBucket(index),
         inserting' \in Pair \cup {NoValue}
  PROVE  TableInv'
<1> DEFINE n == num_buckets_
           s == Parts(index)
           r == Raised(index)
           D == DirAfter(index)
           g == DepthAfter(index)
           u == s.bucket
           w == s.split_bucket
<1>1. n \in Nat /\ global_depth_ \in Nat /\ bucket \in [0 .. n - 1 -> Bucket]
  BY Zenon DEF TableInv, TypeOK
<1>2. /\ global_depth_' = g /\ num_buckets_' = n + 1
      /\ bucket' = [i \in 0 .. n |-> IF i = n THEN w ELSE IF i = dir_[index] THEN u ELSE bucket[i]]
      /\ dir_' = [i \in DOMAIN D |-> IF i = s.split_index THEN n ELSE D[i]]
  BY Zenon, SplitIs
<1>3. g \in Nat /\ global_depth_ <= g /\ D \in [0 .. 2^g - 1 -> 0 .. n - 1]
  BY Zenon, DirAfterIs
<1>4. /\ r \in Bucket /\ Len(r.list) <= bucket_size_ /\ r.depth <= g
      /\ Len(r.list) \in Nat /\ r.depth \in Nat
  BY Zenon, RaisedIs, BucketFields
<1>5. /\ u \in Bucket /\ Distinct(u) /\ Len(u.list) <= Len(r.list) /\ u.depth <= g
      /\ w \in Bucket /\ Distinct(w) /\ Len(w.list) <= Len(r.list) /\ w.depth <= g
  BY Zenon, <1>4, PartsAre DEF Midway
<1> HIDE DEF u, w, g, r, D, n
<1>6. Len(u.list) <= bucket_size_ /\ Len(w.list) <= bucket_size_
  <2>1. Len(u.list) \in Nat /\ Len(w.list) \in Nat
    BY Zenon, <1>5, BucketFields
  <2> QED BY <2>1, <1>4, <1>5, SizeAssumption
<1>7. n + 1 \in Nat /\ (n + 1) - 1 = n /\ \A i \in 0 .. n : i # n => i \in 0 .. n - 1
  BY <1>1
<1>8. \A i \in 0 .. n - 1 : i \in 0 .. n
  BY <1>1
<1>9. n \in 0 .. n
  BY <1>1
<1>10. dir_' \in [0 .. 2^g - 1 -> 0 .. n]
  <2> DEFINE x == s.split_index
  <2> HIDE DEF x
  <2>1. dir_' = [i \in DOMAIN D |-> IF i = x THEN n ELSE D[i]]
    BY Zenon, <1>2 DEF x
  <2> QED BY Zenon, <1>3, <1>8, <1>9, <2>1
<1>11. ASSUME NEW i \in 0 .. n
       PROVE  /\ bucket'[i] \in Bucket /\ Distinct(bucket'[i])
              /\ Len(bucket'[i].list) <= bucket_size_ /\ bucket'[i].depth <= g
  <2>1. bucket'[i] = IF i = n THEN w ELSE IF i = dir_[index] THEN u ELSE bucket[i]
    BY Zenon, <1>2
  <2>2. CASE i = n
    BY Zenon, <2>1, <2>2, <1>5, <1>6
  <2>3. CASE i # n /\ i = dir_[index]
    BY Zenon, <2>1, <2>3, <1>5, <1>6
  <2>4. CASE i # n /\ i # dir_[index]
    <3>1. bucket'[i] = bucket[i] /\ i \in 0 .. n - 1
      BY Zenon, <2>1, <2>4, <1>7
    <3>2. /\ bucket[i] \in Bucket /\ Distinct(bucket[i]) /\ Len(bucket[i].list) <= bucket_size_
          /\ bucket[i].depth <= global_depth_
      BY Zenon, <3>1, <1>1 DEF TableInv, n
    <3>3. bucket[i].depth \in Nat
      BY Zenon, <3>2, BucketFields
    <3>4. bucket[i].depth <= g
      BY <1>1, <1>3, <3>2, <3>3
    <3> QED BY Zenon, <3>1, <3>2, <3>4
  <2> QED BY Zenon, <2>2, <2>3, <2>4
<1>12. bucket' \in [0 .. n -> Bucket]
  <2>1. bucket' = [i \in 0 .. n |-> bucket'[i]]
    BY Zenon, <1>2
  <2> QED BY Zenon, <2>1, <1>11
<1>13. num_buckets_' - 1 = n /\ num_buckets_' \in Nat
  BY Zenon, <1>2, <1>7
<1>14. TypeOK'
  BY Zenon, <1>2, <1>3, <1>10, <1>12, <1>13 DEF TypeOK
<1> QED BY Zenon, <1>2, <1>11, <1>13, <1>14 DEF TableInv, Distinct

LEMMA InsertKeeps ==
  ASSUME TableInv, NEW k \in Keys, NEW v \in Values, InsertInternal(k, v)
  PROVE  TableInv'
<1> DEFINE i == IndexOf(k)
           c == dir_[i]
<1>1. i \in DOMAIN dir_
  BY Zenon, IndexIn
<1>2. /\ c \in 0 .. num_buckets_ - 1 /\ bucket[c] \in Bucket /\ Distinct(bucket[c])
      /\ Len(bucket[c].list) <= bucket_size_
  BY Zenon, <1>1, SlotBucket
<1>3. CASE BucketAccepts(bucket[c], k)
  <2> DEFINE b == bucket[c]
             x == BucketInsert(b, k, v)
  <2>1. Place(k, v)
    BY Zenon, <1>3 DEF InsertInternal
  <2>2. /\ x \in Bucket /\ Distinct(x) /\ x.depth = b.depth
        /\ \/ Len(x.list) = Len(b.list)
           \/ Len(x.list) = Len(b.list) + 1 /\ ~IsFull(b)
    <3> HIDE DEF b
    <3>1. b \in Bucket /\ Distinct(b) /\ BucketAccepts(b, k)
      BY Zenon, <1>2, <1>3 DEF b
    <3> QED BY Zenon, <3>1, InsertHeld
  <2>3. Len(x.list) <= bucket_size_
    <3>1. ~IsFull(b) => Len(b.list) # bucket_size_
      BY Zenon DEF IsFull
    <3>2. Len(b.list) \in Nat
      BY Zenon, <1>2, BucketFields
    <3> HIDE DEF x, b
    <3>3. Len(b.list) <= bucket_size_
      BY Zenon, <1>2 DEF b
    <3> QED BY <2>2, <3>1, <3>2, <3>3, SizeAssumption
  <2>4. bucket' = [bucket EXCEPT ![c] = x] /\ inserting' \in Pair \cup {NoValue}
    BY Zenon, <2>1 DEF Place
  <2>5. UNCHANGED <<global_depth_, num_buckets_, dir_>>
    BY Zenon, <2>1 DEF Place
  <2> HIDE DEF x, c
  <2> QED BY Zenon, <1>2, <2>2, <2>3, <2>4, <2>5, BucketChanged
<1>4. CASE ~BucketAccepts(bucket[c], k)
  <2>1. SplitOrThrow(k, v)
    BY Zenon, <1>4 DEF InsertInternal
  <2>2. RedistributeBucket(i)
    BY Zenon, <2>1 DEF SplitOrThrow
  <2>3. inserting' = [key |-> k, value |-> v] \/ inserting' = NoValue
    BY Zenon, <2>1 DEF SplitOrThrow
  <2>4. [key |-> k, value |-> v] \in Pair
    BY Zenon DEF Pair
  <2>5. inserting' \in Pair \cup {NoValue}
    BY Zenon, <2>3, <2>4
  <2> HIDE DEF i
  <2> QED BY Zenon, <1>1, <2>2, <2>5, SplitKeeps
<1> QED BY Zenon, <1>3, <1>4

LEMMA RemoveKeeps ==
  ASSUME TableInv, NEW k \in Keys, Remove(k)
  PROVE  TableInv'
<1> DEFINE c == dir_[IndexOf(k)]
           x == BucketRemove(bucket[c], k)
<1>1. IndexOf(k) \in DOMAIN dir_
  BY Zenon, IndexIn
<1>2. /\ c \in 0 .. num_buckets_ - 1 /\ bucket[c] \in Bucket /\ Distinct(bucket[c])
      /\ Len(bucket[c].list) <= bucket_size_
  BY Zenon, <1>1, SlotBucket
<1>3. /\ x \in Bucket /\ Distinct(x) /\ x.depth = bucket[c].depth
      /\ Len(x.list) <= Len(bucket[c].list)
  BY Zenon, <1>2, RemoveHeld
<1>4. Len(x.list) <= bucket_size_
  <2>1. Len(x.list) \in Nat /\ Len(bucket[c].list) \in Nat
    BY Zenon, <1>2, <1>3, BucketFields
  <2> HIDE DEF x, c
  <2> QED BY <2>1, <1>2, <1>3, SizeAssumption
<1>5. inserting' \in Pair \cup {NoValue} /\ UNCHANGED <<global_depth_, num_buckets_, dir_>>
  BY Zenon DEF Remove, TableInv, TypeOK
<1>6. bucket' = [bucket EXCEPT ![c] = x] \/ bucket' = bucket
  BY Zenon DEF Remove
<1>7. CASE bucket' = [bucket EXCEPT ![c] = x]
  <2> HIDE DEF x, c
  <2> QED BY Zenon, <1>2, <1>3, <1>4, <1>5, <1>7, BucketChanged
<1>8. CASE bucket' = bucket
  <2>1. global_depth_' = global_depth_ /\ num_buckets_' = num_buckets_ /\ dir_' = dir_
    BY Zenon, <1>5
  <2> QED BY Zenon, <1>5, <1>8, <2>1 DEF TableInv, TypeOK, Distinct
<1> QED BY Zenon, <1>6, <1>7, <1>8

LEMMA TableStep == TableInv /\ [Next]_vars => TableInv'
<1> SUFFICES ASSUME TableInv, [Next]_vars PROVE TableInv'
  BY Zenon
<1>1. CASE UNCHANGED vars
  <2>1. /\ global_depth_' = global_depth_ /\ num_buckets_' = num_buckets_ /\ dir_' = dir_
        /\ bucket' = bucket /\ inserting' = inserting
    BY Zenon, <1>1 DEF vars
  <2> QED BY Zenon, <2>1 DEF TableInv, TypeOK, Distinct
<1>2. ASSUME NEW k \in Keys, Find(k) PROVE TableInv'
  <2>1. /\ global_depth_' = global_depth_ /\ num_buckets_' = num_buckets_ /\ dir_' = dir_
        /\ bucket' = bucket /\ inserting' = inserting
    BY Zenon, <1>2 DEF Find
  <2> QED BY Zenon, <2>1 DEF TableInv, TypeOK, Distinct
<1>3. ASSUME NEW k \in Keys, Remove(k) PROVE TableInv'
  BY Zenon, <1>3, RemoveKeeps
<1>4. ASSUME NEW k \in Keys, NEW v \in Values, Insert(k, v) PROVE TableInv'
  BY Zenon, <1>4, InsertKeeps DEF Insert
<1>5. CASE InsertRetry
  <2>1. inserting \in Pair
    BY Zenon, <1>5 DEF InsertRetry, TableInv, TypeOK
  <2>2. inserting.key \in Keys /\ inserting.value \in Values
    BY Zenon, <2>1 DEF Pair
  <2> QED BY Zenon, <1>5, <2>2, InsertKeeps DEF InsertRetry
<1> QED BY Zenon, <1>1, <1>2, <1>3, <1>4, <1>5 DEF Next

(* A new table: one empty bucket, and a directory of one slot. *)
LEMMA TableStart == Init => TableInv
<1> SUFFICES ASSUME Init PROVE TableInv
  BY Zenon
<1>1. /\ global_depth_ = 0 /\ num_buckets_ = 1 /\ dir_ = [i \in {0} |-> 0] /\ inserting = NoValue
      /\ bucket = [b \in {0} |-> [depth |-> 0, list |-> <<>>]]
  BY Zenon DEF Init
<1>2. 2^0 = 1 /\ 0 .. 0 = {0} /\ 1 - 1 = 0 /\ 0 \in Nat /\ 1 \in Nat /\ 0 <= 0
  OBVIOUS
<1>3. <<>> \in Seq(Pair) /\ Len(<<>>) = 0 /\ 0 <= bucket_size_ /\ DOMAIN <<>> = {}
  BY SizeAssumption
<1> DEFINE e == [depth |-> 0, list |-> <<>>]
<1>4. e \in Bucket /\ e.depth = 0 /\ e.list = <<>>
  BY Zenon, <1>2, <1>3 DEF Bucket
<1>5. Distinct(e)
  BY Zenon, <1>3, <1>4 DEF Distinct
<1> HIDE DEF e
<1>6. bucket \in [{0} -> Bucket] /\ bucket[0] = e
  BY Zenon, <1>1, <1>4 DEF e
<1>7. dir_ \in [{0} -> {0}]
  BY Zenon, <1>1
<1>8. 0 .. 2^global_depth_ - 1 = {0} /\ 0 .. num_buckets_ - 1 = {0}
  BY Zenon, <1>1, <1>2
<1>9. TypeOK
  BY Zenon, <1>1, <1>2, <1>6, <1>7, <1>8 DEF TypeOK
<1>10. Len(e.list) <= bucket_size_ /\ e.depth <= global_depth_
  BY Zenon, <1>1, <1>2, <1>3, <1>4
<1> QED BY Zenon, <1>5, <1>6, <1>8, <1>9, <1>10 DEF TableInv

LEMMA TableSound == TableInv => TypeOK /\ BucketsSound
<1> SUFFICES ASSUME TableInv PROVE TypeOK /\ BucketsSound
  BY Zenon
<1>1. TypeOK /\ DOMAIN bucket = 0 .. num_buckets_ - 1
  BY Zenon DEF TableInv, TypeOK
<1>2. ASSUME NEW b \in DOMAIN bucket, NEW k \in Keys
      PROVE  Cardinality(PosIn(bucket[b], k)) <= 1
  <2>1. Distinct(bucket[b])
    BY Zenon, <1>1 DEF TableInv
  <2>2. CASE PosIn(bucket[b], k) = {}
    <3>1. Cardinality(PosIn(bucket[b], k)) = 0
      BY Zenon, <2>2, FS_EmptySet
    <3> QED BY <3>1
  <2>3. CASE PosIn(bucket[b], k) # {}
    <3>1. PICK i \in DOMAIN bucket[b].list : bucket[b].list[i].key = k
      BY Zenon, <2>3, Unplaced
    <3>2. PosIn(bucket[b], k) = {i}
      BY Zenon, <2>1, <3>1 DEF PosIn, Distinct
    <3>3. Cardinality(PosIn(bucket[b], k)) = 1
      BY Zenon, <3>2, FS_Singleton
    <3> QED BY <3>3
  <2> QED BY Zenon, <2>2, <2>3
<1> QED BY Zenon, <1>1, <1>2 DEF TableInv, BucketsSound

(***************************************************************************)
(* Whatever the keys, the hash function and the bucket size, and even when *)
(* dir_.at throws half way through a split: the directory has exactly the  *)
(* slots IndexOf can compute, each naming an allocated bucket, and no      *)
(* bucket exceeds its size, holds a key twice or is deeper than the        *)
(* directory.                                                              *)
(***************************************************************************)
THEOREM BucketsCorrect == Spec => [](TypeOK /\ BucketsSound)
<1>1. Init => TableInv
  BY Zenon, TableStart
<1>2. TableInv /\ [Next]_vars => TableInv'
  BY Zenon, TableStep
<1>3. TableInv => TypeOK /\ BucketsSound
  BY Zenon, TableSound
<1> QED BY <1>1, <1>2, <1>3, PTL DEF Spec

-----------------------------------------------------------------------------
(* The directory of extendible hashing: two slots name the same bucket when *)
(* they agree on as many low bits as its depth, every bucket has a slot,    *)
(* and every pair is in the bucket of the slot IndexOf computes.            *)
DirInv ==
  /\ \A i, j \in DOMAIN dir_ :
       dir_[i] = dir_[j] <=> i % 2^bucket[dir_[i]].depth = j % 2^bucket[dir_[i]].depth
  /\ \A b \in 0 .. num_buckets_ - 1 : \E i \in DOMAIN dir_ : dir_[i] = b
  /\ \A b \in 0 .. num_buckets_ - 1 : \A p \in Held(bucket[b]) : dir_[IndexOf(p.key)] = b

LEMMA DirSound == TableInv /\ DirInv => DirectoryIntegrity
<1> SUFFICES ASSUME TableInv, DirInv PROVE DirectoryIntegrity
  BY Zenon
<1>1. num_buckets_ \in Nat /\ dir_ \in [0 .. 2^global_depth_ - 1 -> 0 .. num_buckets_ - 1]
  BY Zenon DEF TableInv, TypeOK
<1>2. Range(dir_) = 0 .. num_buckets_ - 1
  <2>1. \A i \in DOMAIN dir_ : dir_[i] \in 0 .. num_buckets_ - 1
    BY Zenon, <1>1
  <2>2. \A b \in 0 .. num_buckets_ - 1 : \E i \in DOMAIN dir_ : dir_[i] = b
    BY Zenon DEF DirInv
  <2> QED BY Zenon, <2>1, <2>2 DEF Range
<1>3. Cardinality(0 .. num_buckets_ - 1) = num_buckets_
  <2>1. 0 \in Int /\ num_buckets_ - 1 \in Int
    BY <1>1
  <2>2. Cardinality(0 .. num_buckets_ - 1)
          = IF 0 > num_buckets_ - 1 THEN 0 ELSE (num_buckets_ - 1) - 0 + 1
    BY Zenon, <2>1, FS_Interval
  <2> QED BY <1>1, <2>2
<1>4. ASSUME NEW b \in Range(dir_), NEW i \in Slots(b)
      PROVE  Slots(b) = {j \in DOMAIN dir_ : i % 2^bucket[b].depth = j % 2^bucket[b].depth}
  <2>1. i \in DOMAIN dir_ /\ dir_[i] = b
    BY Zenon DEF Slots
  <2>2. \A j \in DOMAIN dir_ : dir_[j] = b <=> i % 2^bucket[b].depth = j % 2^bucket[b].depth
    BY Zenon, <2>1 DEF DirInv
  <2> QED BY Zenon, <2>2 DEF Slots
<1>5. ASSUME NEW b \in Range(dir_), NEW p \in Range(bucket[b].list)
      PROVE  dir_[IndexOf(p.key)] = b
  BY Zenon, <1>2 DEF DirInv, Held
<1>6. num_buckets_ = Cardinality(Range(dir_))
  BY Zenon, <1>2, <1>3
<1> QED BY Zenon, <1>4, <1>5, <1>6 DEF DirectoryIntegrity

LEMMA DirStart == Init => DirInv
<1> SUFFICES ASSUME Init PROVE DirInv
  BY Zenon
<1>1. /\ num_buckets_ = 1 /\ dir_ = [i \in {0} |-> 0] /\ 0 .. 1 - 1 = {0}
      /\ bucket = [b \in {0} |-> [depth |-> 0, list |-> <<>>]]
  BY DEF Init
<1>2. DOMAIN dir_ = {0} /\ dir_[0] = 0 /\ bucket[0] = [depth |-> 0, list |-> <<>>]
  BY Zenon, <1>1
<1>3. bucket[0].list = <<>> /\ DOMAIN <<>> = {}
  BY <1>2
<1>4. Held(bucket[0]) = {}
  BY Zenon, <1>3 DEF Held, Range
<1> QED BY Zenon, <1>1, <1>2, <1>4 DEF DirInv

(* The low bits of an index do not change when the directory doubles. *)
LEMMA LowBits ==
  ASSUME NEW a \in Int, NEW d \in Nat, NEW g \in Nat, d <= g
  PROVE  (a % 2^g) % 2^d = a % 2^d
<1>1. PICK c \in Nat \ {0} : 2^g = 2^d * c
  BY Zenon, PowerDivides
<1>2. 2^d \in Nat \ {0}
  BY Zenon, Power
<1>3. (a % (2^d * c)) % 2^d = a % 2^d
  <2> DEFINE m == 2^d
  <2> HIDE DEF m
  <2>1. m \in Nat \ {0}
    BY Zenon, <1>2 DEF m
  <2>2. (a % (m * c)) % m = a % m
    BY Zenon, <2>1, RemainderNested
  <2> QED BY Zenon, <2>2 DEF m
<1> QED BY Zenon, <1>1, <1>3

(* A split that one slot serves: the bucket had the slots index and         *)
(* split_index, and each part gets one of the two.                          *)
LEMMA TwoSlots ==
  ASSUME TableInv, DirInv, NEW index \in DOMAIN dir_, RedistributeBucket(index), OneSlotServes
  PROVE  /\ DepthAfter(index) = bucket[dir_[index]].depth + 1
         /\ Parts(index).split_index \in 0 .. 2^DepthAfter(index) - 1
         /\ Parts(index).split_index # index
         /\ \A i \in 0 .. 2^DepthAfter(index) - 1 :
              DirAfter(index)[i] = dir_[index] <=> i = index \/ i = Parts(index).split_index
<1> DEFINE n == num_buckets_
           s == Parts(index)
           r == Raised(index)
           D == DirAfter(index)
           g == DepthAfter(index)
           b == dir_[index]
           d == bucket[b].depth
           x == s.split_index
           h == global_depth_
<1>1. n \in Nat /\ h \in Nat /\ dir_ \in [0 .. 2^h - 1 -> 0 .. n - 1]
  BY Zenon DEF TableInv, TypeOK
<1>2. /\ global_depth_' = g /\ num_buckets_' = n + 1
      /\ bucket' = [i \in 0 .. n |-> IF i = n THEN s.split_bucket ELSE IF i = b THEN s.bucket ELSE bucket[i]]
      /\ dir_' = [i \in DOMAIN D |-> IF i = x THEN n ELSE D[i]]
  BY Zenon, SplitIs
<1>3. g \in Nat /\ h <= g /\ D \in [0 .. 2^g - 1 -> 0 .. n - 1]
  BY Zenon, DirAfterIs
<1>4. /\ \A i \in 0 .. 2^g - 1 : i % 2^h \in DOMAIN dir_ /\ D[i] = dir_[i % 2^h]
      /\ \A i \in DOMAIN dir_ : i \in 0 .. 2^g - 1 /\ i % 2^h = i
  BY Zenon, DirAfterIs
<1>5. bucket[b] \in Bucket /\ b \in 0 .. n - 1 /\ d <= h
  BY Zenon, SlotBucket
<1>6. d \in Nat
  BY Zenon, <1>5, BucketFields
<1>7. r.depth = d + 1 /\ r \in Bucket
  BY Zenon, RaisedIs
<1>8. Midway(s, r, Len(r.list), index, g)
  BY Zenon, PartsAre
<1>9. s.split_bucket.depth = d + 1
  BY Zenon, <1>7, <1>8 DEF Midway
<1> HIDE DEF n, s, r, D, g, d, x, h
<1>10. n \in 0 .. n /\ n # n + 1 /\ n \notin 0 .. n - 1 /\ \A i \in 0 .. n - 1 : i \in 0 .. n /\ i # n
  BY <1>1
<1>11. bucket'[n] = s.split_bucket
  BY Zenon, <1>2, <1>10
<1>12. PICK i \in DOMAIN dir_' :
         dir_'[i] = n /\ bucket'[dir_[i % 2^h]].depth # bucket[dir_[i % 2^h]].depth
  BY Zenon, <1>2, <1>10 DEF OneSlotServes, n, h
<1>13. g = d + 1
  BY Zenon, <1>2, <1>9, <1>10, <1>11 DEF OneSlotServes, n
<1>14. i \in 0 .. 2^g - 1 /\ i = x
  <2>1. i \in DOMAIN D /\ DOMAIN D = 0 .. 2^g - 1
    BY Zenon, <1>2, <1>3
  <2>2. D[i] # n
    BY Zenon, <1>3, <1>10, <2>1
  <2>3. dir_'[i] = IF i = x THEN n ELSE D[i]
    BY Zenon, <1>2, <2>1
  <2> QED BY Zenon, <1>12, <2>1, <2>2, <2>3
<1>15. D[x] = b
  <2>1. D[x] = dir_[i % 2^h] /\ D[x] \in 0 .. n - 1
    BY Zenon, <1>3, <1>4, <1>14
  <2>2. D[x] \in 0 .. n /\ D[x] # n
    BY Zenon, <2>1, <1>10
  <2>3. bucket'[D[x]] # bucket[D[x]]
    BY Zenon, <1>12, <2>1
  <2>4. bucket'[D[x]] = IF D[x] = b THEN s.bucket ELSE bucket[D[x]]
    BY Zenon, <1>2, <2>2
  <2> QED BY Zenon, <2>3, <2>4
<1>16. x # index
  <2>1. CASE x = index + r.depth
    <3>1. index \in Nat
      BY <1>1
    <3> QED BY <1>6, <1>7, <2>1, <3>1
  <2>2. CASE \E p \in Held(s.split_bucket) : x = IndexAt(p.key, g)
    <3>1. PICK p \in Held(s.split_bucket) : x = IndexAt(p.key, g)
      BY Zenon, <2>2
    <3>2. p \in Held(r)
      BY Zenon, <1>8, <3>1 DEF Midway
    <3>3. PICK j \in DOMAIN r.list : p = r.list[j]
      BY Zenon, <3>2 DEF Held, Range
    <3> QED BY Zenon, <1>8, <3>1, <3>3 DEF Midway
  <2> QED BY Zenon, <1>8, <2>1, <2>2 DEF Midway, x
<1>17. ASSUME NEW j \in 0 .. 2^g - 1, D[j] = b
       PROVE  j % 2^d = index % 2^d
  <2>1. j % 2^h \in DOMAIN dir_ /\ dir_[j % 2^h] = b
    BY Zenon, <1>4, <1>17
  <2>2. index % 2^d = (j % 2^h) % 2^d
    BY Zenon, <2>1 DEF DirInv, d
  <2>3. j \in Int
    OBVIOUS
  <2>4. (j % 2^h) % 2^d = j % 2^d
    BY Zenon, <1>1, <1>5, <1>6, <2>3, LowBits
  <2> QED BY Zenon, <2>2, <2>4
<1>18. D[index] = b /\ index \in 0 .. 2^g - 1
  BY Zenon, <1>4
<1>19. 2^d \in Nat \ {0} /\ 2^g = 2 * 2^d
  BY Zenon, <1>6, <1>13, Power
<1>20. ASSUME NEW j \in 0 .. 2^g - 1, D[j] = b
       PROVE  j = index \/ j = x
  <2> DEFINE P == 2^d
             q == index % P
  <2>1. j % P = q /\ x % P = q
    BY Zenon, <1>14, <1>15, <1>17, <1>20
  <2>2. j \in 0 .. 2 * P - 1 /\ x \in 0 .. 2 * P - 1 /\ index \in 0 .. 2 * P - 1 /\ P \in Nat \ {0}
    BY Zenon, <1>14, <1>18, <1>19
  <2> HIDE DEF P
  <2>3. /\ j = q \/ j = q + P
        /\ x = q \/ x = q + P
        /\ index = q \/ index = q + P
    BY Zenon, <2>1, <2>2, Halves
  <2> HIDE DEF q
  <2> QED BY Zenon, <2>3, <1>16
<1>21. \A j \in 0 .. 2^g - 1 : D[j] = b <=> j = index \/ j = x
  BY Zenon, <1>15, <1>18, <1>20
<1> QED BY Zenon, <1>13, <1>14, <1>16, <1>21 DEF g, x, s, D, d

(* Slot x has been given to the new bucket, slot index kept the old one, and *)
(* no other slot named the bucket that was split.                            *)
Served(index, x) ==
  /\ x \in DOMAIN dir_' /\ x # index /\ index \in DOMAIN dir_'
  /\ dir_'[index] = dir_[index] /\ dir_'[x] = num_buckets_
  /\ \A i \in DOMAIN dir_' :
       /\ i % 2^global_depth_ \in DOMAIN dir_
       /\ dir_[i % 2^global_depth_] = dir_[index] <=> i = index \/ i = x
       /\ dir_[i % 2^global_depth_] # dir_[index] => dir_'[i] = dir_[i % 2^global_depth_]

(* The pairs went where the new directory looks for them, or stayed. *)
Shared(index) ==
  /\ \A b \in 0 .. num_buckets_ - 1 : b # dir_[index] => bucket'[b] = bucket[b]
  /\ \A p : p \in Held(bucket[dir_[index]]) =>
       IF IndexAt(p.key, global_depth_') = index
       THEN p \in Held(bucket'[dir_[index]]) /\ p \notin Held(bucket'[num_buckets_])
       ELSE p \notin Held(bucket'[dir_[index]]) /\ p \in Held(bucket'[num_buckets_])
  /\ Held(bucket'[dir_[index]]) \subseteq Held(bucket[dir_[index]])
  /\ Held(bucket'[num_buckets_]) \subseteq Held(bucket[dir_[index]])

(* What a split that one slot serves leaves behind. *)
LEMMA SplitServed ==
  ASSUME TableInv, DirInv, NEW index \in DOMAIN dir_, RedistributeBucket(index), OneSlotServes
  PROVE  /\ \E x : Served(index, x)
         /\ Shared(index)
         /\ \A i \in DOMAIN dir_ : i \in DOMAIN dir_' /\ i % 2^global_depth_ = i
         /\ bucket'[dir_[index]].depth = global_depth_' /\ bucket'[num_buckets_].depth = global_depth_'
<1> DEFINE n == num_buckets_
           s == Parts(index)
           r == Raised(index)
           D == DirAfter(index)
           g == DepthAfter(index)
           b == dir_[index]
           x == s.split_index
           h == global_depth_
<1>1. n \in Nat
  BY Zenon DEF TableInv, TypeOK
<1>2. /\ global_depth_' = g /\ num_buckets_' = n + 1
      /\ bucket' = [i \in 0 .. n |-> IF i = n THEN s.split_bucket ELSE IF i = b THEN s.bucket ELSE bucket[i]]
      /\ dir_' = [i \in DOMAIN D |-> IF i = x THEN n ELSE D[i]]
  BY Zenon, SplitIs
<1>3. D \in [0 .. 2^g - 1 -> 0 .. n - 1]
  BY Zenon, DirAfterIs
<1>4. /\ \A i \in 0 .. 2^g - 1 : i % 2^h \in DOMAIN dir_ /\ D[i] = dir_[i % 2^h]
      /\ \A i \in DOMAIN dir_ : i \in 0 .. 2^g - 1 /\ i % 2^h = i
  BY Zenon, DirAfterIs
<1>5. /\ g = bucket[b].depth + 1 /\ x \in 0 .. 2^g - 1 /\ x # index
      /\ \A i \in 0 .. 2^g - 1 : D[i] = b <=> i = index \/ i = x
  BY Zenon, TwoSlots
<1>6. b \in 0 .. n - 1
  BY Zenon, SlotBucket
<1>7. r.depth = bucket[b].depth + 1 /\ r.list = bucket[b].list /\ r \in Bucket
  BY Zenon, RaisedIs
<1>8. Midway(s, r, Len(r.list), index, g)
  BY Zenon, PartsAre
<1> HIDE DEF n, s, r, D, g, b, x, h
<1>9. n \in 0 .. n /\ \A i \in 0 .. n - 1 : i \in 0 .. n /\ i # n
  BY <1>1
<1>10. bucket'[n] = s.split_bucket /\ bucket'[b] = s.bucket
  BY Zenon, <1>2, <1>6, <1>9
<1>11. \A c \in 0 .. n - 1 : c # b => bucket'[c] = bucket[c]
  BY Zenon, <1>2, <1>9
<1>12. DOMAIN dir_' = 0 .. 2^g - 1 /\ \A i \in DOMAIN dir_' : dir_'[i] = IF i = x THEN n ELSE D[i]
  BY Zenon, <1>2, <1>3
<1>13. index \in DOMAIN dir_' /\ x \in DOMAIN dir_' /\ dir_'[x] = n
  BY Zenon, <1>4, <1>5, <1>12
<1>14. dir_'[index] = b
  BY Zenon, <1>5, <1>12, <1>13
<1>15. ASSUME NEW i \in DOMAIN dir_'
       PROVE  /\ i % 2^h \in DOMAIN dir_
              /\ dir_[i % 2^h] = b <=> i = index \/ i = x
              /\ dir_[i % 2^h] # b => dir_'[i] = dir_[i % 2^h]
  BY Zenon, <1>4, <1>5, <1>12
<1>16. \A p : p \in Held(bucket[b]) =>
         IF IndexAt(p.key, g) = index
         THEN p \in Held(s.bucket) /\ p \notin Held(s.split_bucket)
         ELSE p \notin Held(s.bucket) /\ p \in Held(s.split_bucket)
  <2> SUFFICES ASSUME NEW p, p \in Held(bucket[b])
               PROVE  IF IndexAt(p.key, g) = index
                      THEN p \in Held(s.bucket) /\ p \notin Held(s.split_bucket)
                      ELSE p \notin Held(s.bucket) /\ p \in Held(s.split_bucket)
    BY Zenon
  <2>1. PICK j \in DOMAIN r.list : p = r.list[j]
    BY Zenon, <1>7 DEF Held, Range
  <2>2. j <= Len(r.list) /\ ~(j > Len(r.list))
    BY <1>7, BucketFields
  <2> QED BY Zenon, <1>8, <2>1, <2>2 DEF Midway
<1>17. Held(r) = Held(bucket[b])
  BY Zenon, <1>7 DEF Held
<1>18. /\ Held(s.bucket) \subseteq Held(bucket[b]) /\ Held(s.split_bucket) \subseteq Held(bucket[b])
       /\ s.bucket.depth = g /\ s.split_bucket.depth = g
  BY Zenon, <1>5, <1>7, <1>8, <1>17 DEF Midway
<1>19. Served(index, x)
  BY Zenon, <1>5, <1>13, <1>14, <1>15 DEF Served, b, n, h
<1>20. \A i \in DOMAIN dir_ : i \in DOMAIN dir_' /\ i % 2^h = i
  BY Zenon, <1>4, <1>12
<1>21. \A p : p \in Held(bucket[b]) =>
         IF IndexAt(p.key, global_depth_') = index
         THEN p \in Held(bucket'[b]) /\ p \notin Held(bucket'[n])
         ELSE p \notin Held(bucket'[b]) /\ p \in Held(bucket'[n])
  BY Zenon, <1>2, <1>10, <1>16
<1>22. /\ Held(bucket'[b]) \subseteq Held(bucket[b]) /\ Held(bucket'[n]) \subseteq Held(bucket[b])
       /\ bucket'[b].depth = global_depth_' /\ bucket'[n].depth = global_depth_'
  BY Zenon, <1>2, <1>10, <1>18
<1>23. Shared(index)
  BY Zenon, <1>11, <1>21, <1>22 DEF Shared, b, n
<1> QED BY Zenon, <1>19, <1>20, <1>22, <1>23 DEF b, n, h

(* Where a key is looked up in a larger directory. *)
LEMMA KeyIndex ==
  ASSUME TableInv, NEW k \in Keys, NEW g \in Nat, global_depth_ <= g
  PROVE  IndexAt(k, g) \in 0 .. 2^g - 1 /\ IndexAt(k, g) % 2^global_depth_ = IndexOf(k)
<1>1. Hash[k] \in Int
  BY HashAssumption
<1>2. 2^g \in Nat \ {0} /\ global_depth_ \in Nat
  BY Zenon, Power DEF TableInv, TypeOK
<1>3. Hash[k] % 2^g \in 0 .. 2^g - 1
  BY Zenon, <1>1, <1>2, Remainder
<1>4. (Hash[k] % 2^g) % 2^global_depth_ = Hash[k] % 2^global_depth_
  BY Zenon, <1>1, <1>2, LowBits
<1> QED BY Zenon, <1>3, <1>4 DEF IndexAt, IndexOf

(* The keys of a bucket are keys. *)
LEMMA HeldKeys ==
  ASSUME NEW b \in Bucket, NEW p \in Held(b)
  PROVE  p \in Pair /\ p.key \in Keys /\ p.value \in Values
<1>1. PICK i \in DOMAIN b.list : p = b.list[i]
  BY Zenon DEF Held, Range
<1> QED BY Zenon, <1>1, BucketFields

(* A split that one slot serves leaves the directory in order. *)
LEMMA SplitDirKept ==
  ASSUME TableInv, DirInv, TableInv', NEW index \in DOMAIN dir_, RedistributeBucket(index), OneSlotServes
  PROVE  DirInv'
<1> DEFINE n == num_buckets_
           b == dir_[index]
           h == global_depth_
           g == global_depth_'
<1>1. n \in Nat /\ h \in Nat /\ dir_ \in [0 .. 2^h - 1 -> 0 .. n - 1] /\ bucket \in [0 .. n - 1 -> Bucket]
  BY Zenon DEF TableInv, TypeOK
<1>2. g \in Nat /\ DOMAIN dir_' = 0 .. 2^g - 1
  BY Zenon DEF TableInv, TypeOK
<1>3. num_buckets_' = n + 1 /\ h <= g
  BY Zenon, SplitIs, DirAfterIs
<1>a. PICK x : Served(index, x)
  BY Zenon, SplitServed
<1>b. Shared(index)
  BY Zenon, SplitServed
<1>4. /\ x \in DOMAIN dir_' /\ x # index /\ index \in DOMAIN dir_' /\ dir_'[index] = b /\ dir_'[x] = n
      /\ \A i \in DOMAIN dir_' :
           /\ i % 2^h \in DOMAIN dir_
           /\ dir_[i % 2^h] = b <=> i = index \/ i = x
           /\ dir_[i % 2^h] # b => dir_'[i] = dir_[i % 2^h]
  BY Zenon, <1>a DEF Served
<1>c. /\ \A i \in DOMAIN dir_ : i \in DOMAIN dir_' /\ i % 2^h = i
      /\ bucket'[b].depth = g /\ bucket'[n].depth = g
  BY Zenon, SplitServed
<1>5. /\ \A c \in 0 .. n - 1 : c # b => bucket'[c] = bucket[c]
      /\ \A p : p \in Held(bucket[b]) =>
           IF IndexAt(p.key, g) = index
           THEN p \in Held(bucket'[b]) /\ p \notin Held(bucket'[n])
           ELSE p \notin Held(bucket'[b]) /\ p \in Held(bucket'[n])
      /\ Held(bucket'[b]) \subseteq Held(bucket[b]) /\ Held(bucket'[n]) \subseteq Held(bucket[b])
  BY Zenon, <1>b DEF Shared
<1>6. b \in 0 .. n - 1 /\ b # n /\ n \notin 0 .. n - 1 /\ (n + 1) - 1 = n
  BY <1>1, SlotBucket
<1>7. \A c \in 0 .. n : c # n => c \in 0 .. n - 1
  BY <1>1
<1>8. \A i \in DOMAIN dir_' : i \in Int
  BY <1>2
<1> HIDE DEF n, b, h, g
<1>9. ASSUME NEW i \in DOMAIN dir_', NEW j \in DOMAIN dir_', i = index \/ i = x
      PROVE  dir_'[i] = dir_'[j] <=> i % 2^bucket'[dir_'[i]].depth = j % 2^bucket'[dir_'[i]].depth
  <2>1. bucket'[dir_'[i]].depth = g
    BY Zenon, <1>c, <1>4, <1>9
  <2>2. i % 2^g = i /\ j % 2^g = j
    <3>1. 2^g \in Nat \ {0}
      BY Zenon, <1>2, Power
    <3> QED BY Zenon, <1>2, <3>1, RemainderSmall
  <2>3. CASE j = index \/ j = x
    BY Zenon, <1>4, <1>6, <1>9, <2>1, <2>2, <2>3
  <2>4. CASE ~(j = index \/ j = x)
    <3>1. dir_'[j] # b /\ dir_'[j] \in 0 .. n - 1
      BY Zenon, <1>1, <1>4, <2>4
    <3>2. dir_'[j] # dir_'[i] /\ j # i
      BY Zenon, <1>4, <1>6, <1>9, <2>4, <3>1
    <3> QED BY Zenon, <2>1, <2>2, <3>2
  <2> QED BY Zenon, <2>3, <2>4
<1>10. ASSUME NEW i \in DOMAIN dir_', NEW j \in DOMAIN dir_', ~(i = index \/ i = x)
       PROVE  dir_'[i] = dir_'[j] <=> i % 2^bucket'[dir_'[i]].depth = j % 2^bucket'[dir_'[i]].depth
  <2> DEFINE c == dir_[i % 2^h]
             e == bucket[c].depth
  <2>1. i % 2^h \in DOMAIN dir_ /\ j % 2^h \in DOMAIN dir_ /\ c # b /\ dir_'[i] = c
    BY Zenon, <1>4, <1>10
  <2>2. c \in 0 .. n - 1 /\ bucket[c] \in Bucket /\ e <= h
    BY Zenon, <2>1, SlotBucket DEF n, h
  <2>3. e \in Nat /\ bucket'[c] = bucket[c]
    BY Zenon, <1>5, <2>1, <2>2, BucketFields
  <2>4. (i % 2^h) % 2^e = i % 2^e /\ (j % 2^h) % 2^e = j % 2^e
    <3> HIDE DEF e
    <3> QED BY Zenon, <1>1, <1>8, <2>2, <2>3, LowBits
  <2>5. c = dir_[j % 2^h] <=> (i % 2^h) % 2^e = (j % 2^h) % 2^e
    BY Zenon, <2>1 DEF DirInv
  <2>6. dir_'[i] = dir_'[j] <=> c = dir_[j % 2^h]
    <3>1. CASE j = index \/ j = x
      <4>1. dir_[j % 2^h] = b /\ (dir_'[j] = b \/ dir_'[j] = n)
        BY Zenon, <1>4, <3>1
      <4>2. c # n
        BY Zenon, <1>6, <2>2
      <4> QED BY Zenon, <2>1, <4>1, <4>2
    <3>2. CASE ~(j = index \/ j = x)
      BY Zenon, <1>4, <2>1, <3>2
    <3> QED BY Zenon, <3>1, <3>2
  <2> HIDE DEF c, e
  <2>7. bucket'[dir_'[i]].depth = e
    BY Zenon, <2>1, <2>3 DEF e
  <2> QED BY Zenon, <2>4, <2>5, <2>6, <2>7
<1>11. ASSUME NEW c \in 0 .. n PROVE \E i \in DOMAIN dir_' : dir_'[i] = c
  <2>1. CASE c = n
    BY Zenon, <1>4, <2>1
  <2>2. CASE c = b
    BY Zenon, <1>4, <2>2
  <2>3. CASE c # n /\ c # b
    <3>1. PICK i \in DOMAIN dir_ : dir_[i] = c
      BY Zenon, <1>7, <2>3 DEF DirInv, n
    <3>2. i \in DOMAIN dir_' /\ i % 2^h = i
      BY Zenon, <1>c
    <3>3. dir_'[i] = c
      BY Zenon, <1>4, <2>3, <3>1, <3>2
    <3> QED BY Zenon, <3>2, <3>3
  <2> QED BY Zenon, <2>1, <2>2, <2>3
<1>12. ASSUME NEW c \in 0 .. n, NEW p \in Held(bucket'[c])
       PROVE  dir_'[IndexAt(p.key, g)] = c
  <2> DEFINE y == IndexAt(p.key, g)
             a == IF c = n THEN b ELSE c
  <2>1. a \in 0 .. n - 1 /\ p \in Held(bucket[a])
    <3>1. CASE c = n
      BY Zenon, <1>5, <1>6, <1>12, <3>1
    <3>2. CASE c = b
      BY Zenon, <1>5, <1>6, <1>12, <3>2
    <3>3. CASE c # n /\ c # b
      BY Zenon, <1>5, <1>7, <1>12, <3>3
    <3> QED BY Zenon, <3>1, <3>2, <3>3
  <2> HIDE DEF a
  <2>2. p.key \in Keys
    BY Zenon, <1>1, <2>1, HeldKeys
  <2>3. y \in DOMAIN dir_' /\ y % 2^h = IndexOf(p.key)
    BY Zenon, <1>2, <1>3, <2>2, KeyIndex DEF h
  <2>4. dir_[y % 2^h] = a
    <3>1. dir_[IndexOf(p.key)] = a
      BY Zenon, <2>1 DEF DirInv, n
    <3> HIDE DEF y
    <3> QED BY Zenon, <2>3, <3>1
  <2> HIDE DEF y
  <2>5. CASE c = n
    <3>1. a = b
      BY Zenon, <2>5 DEF a
    <3>2. y # index
      <4>1. p \in Held(bucket[b]) /\ p \in Held(bucket'[n])
        BY Zenon, <1>12, <2>1, <2>5, <3>1
      <4> QED BY Zenon, <1>5, <4>1 DEF y
    <3>3. y = x
      BY Zenon, <1>4, <2>3, <2>4, <3>1, <3>2
    <3> QED BY Zenon, <1>4, <2>5, <3>3 DEF y
  <2>6. CASE c = b
    <3>1. a = b
      BY Zenon, <1>6, <2>6 DEF a
    <3>2. y = index
      <4>1. p \in Held(bucket[b]) /\ p \in Held(bucket'[b])
        BY Zenon, <1>12, <2>1, <2>6, <3>1
      <4> QED BY Zenon, <1>5, <4>1 DEF y
    <3> QED BY Zenon, <1>4, <2>6, <3>2 DEF y
  <2>7. CASE c # n /\ c # b
    <3>1. a = c
      BY Zenon, <2>7 DEF a
    <3>2. dir_'[y] = dir_[y % 2^h]
      BY Zenon, <1>4, <2>3, <2>4, <2>7, <3>1
    <3> QED BY Zenon, <2>4, <3>1, <3>2 DEF y
  <2> QED BY Zenon, <2>5, <2>6, <2>7
<1>13. num_buckets_' - 1 = n
  BY Zenon, <1>3, <1>6
<1>14. \A i, j \in DOMAIN dir_' :
         dir_'[i] = dir_'[j] <=> i % 2^bucket'[dir_'[i]].depth = j % 2^bucket'[dir_'[i]].depth
  BY Zenon, <1>9, <1>10
<1>15. \A c \in 0 .. num_buckets_' - 1 : \A p \in Held(bucket'[c]) : dir_'[IndexAt(p.key, global_depth_')] = c
  BY Zenon, <1>12, <1>13 DEF g
<1>16. \A c \in 0 .. num_buckets_' - 1 : \E i \in DOMAIN dir_' : dir_'[i] = c
  BY Zenon, <1>11, <1>13
<1> QED BY Zenon, <1>14, <1>15, <1>16 DEF DirInv, Held, IndexOf, IndexAt

(* What is said of the directory depends on these four variables. *)
LEMMA DirSame ==
  ASSUME TableInv, DirInv, global_depth_' = global_depth_, num_buckets_' = num_buckets_,
         dir_' = dir_, bucket' = bucket
  PROVE  DirInv'
<1>1. \A i, j \in DOMAIN dir_' :
        dir_'[i] = dir_'[j] <=> i % 2^bucket'[dir_'[i]].depth = j % 2^bucket'[dir_'[i]].depth
  <2> SUFFICES ASSUME NEW i \in DOMAIN dir_', NEW j \in DOMAIN dir_'
               PROVE dir_'[i] = dir_'[j] <=> i % 2^bucket'[dir_'[i]].depth = j % 2^bucket'[dir_'[i]].depth
    BY Zenon
  <2>1. i \in DOMAIN dir_ /\ j \in DOMAIN dir_ /\ dir_'[i] = dir_[i] /\ dir_'[j] = dir_[j]
    BY Zenon
  <2>2. dir_[i] = dir_[j] <=> i % 2^bucket[dir_[i]].depth = j % 2^bucket[dir_[i]].depth
    BY Zenon, <2>1 DEF DirInv
  <2>3. bucket'[dir_'[i]].depth = bucket[dir_[i]].depth
    BY Zenon, <2>1
  <2> QED BY Zenon, <2>1, <2>2, <2>3
<1>2. \A b \in 0 .. num_buckets_' - 1 : \E i \in DOMAIN dir_' : dir_'[i] = b
  BY Zenon DEF DirInv
<1>3. \A b \in 0 .. num_buckets_' - 1 : \A p \in Held(bucket'[b]) : dir_'[IndexAt(p.key, global_depth_')] = b
  BY Zenon DEF DirInv, IndexOf
<1> QED BY Zenon, <1>1, <1>2, <1>3 DEF DirInv, Held, IndexOf, IndexAt

(* A change to the pairs of one bucket, all of them looked up there. *)
LEMMA BucketDirKept ==
  ASSUME TableInv, DirInv, NEW c \in 0 .. num_buckets_ - 1, NEW x \in Bucket,
         x.depth = bucket[c].depth, bucket' = [bucket EXCEPT ![c] = x],
         UNCHANGED <<global_depth_, num_buckets_, dir_>>,
         \A p \in Held(x) : p \in Held(bucket[c]) \/ dir_[IndexOf(p.key)] = c
  PROVE  DirInv'
<1>1. global_depth_' = global_depth_ /\ num_buckets_' = num_buckets_ /\ dir_' = dir_
  OBVIOUS
<1>2. DOMAIN bucket = 0 .. num_buckets_ - 1 /\ \A i \in DOMAIN dir_ : dir_[i] \in 0 .. num_buckets_ - 1
  BY Zenon DEF TableInv, TypeOK
<1>3. bucket'[c] = x /\ \A b \in 0 .. num_buckets_ - 1 : b # c => bucket'[b] = bucket[b]
  BY Zenon, <1>2
<1>4. \A b \in 0 .. num_buckets_ - 1 : bucket'[b].depth = bucket[b].depth
  BY Zenon, <1>3
<1>5. \A i, j \in DOMAIN dir_ :
        dir_[i] = dir_[j] <=> i % 2^bucket'[dir_[i]].depth = j % 2^bucket'[dir_[i]].depth
  <2> SUFFICES ASSUME NEW i \in DOMAIN dir_, NEW j \in DOMAIN dir_
               PROVE dir_[i] = dir_[j] <=> i % 2^bucket'[dir_[i]].depth = j % 2^bucket'[dir_[i]].depth
    BY Zenon
  <2>1. bucket'[dir_[i]].depth = bucket[dir_[i]].depth
    BY Zenon, <1>2, <1>4
  <2>2. dir_[i] = dir_[j] <=> i % 2^bucket[dir_[i]].depth = j % 2^bucket[dir_[i]].depth
    BY Zenon DEF DirInv
  <2> QED BY Zenon, <2>1, <2>2
<1>6. ASSUME NEW b \in 0 .. num_buckets_ - 1, NEW p \in Held(bucket'[b])
      PROVE  dir_[IndexOf(p.key)] = b
  <2>1. CASE b = c
    <3>1. p \in Held(x)
      BY Zenon, <1>3, <1>6, <2>1
    <3>2. p \in Held(bucket[c]) => dir_[IndexOf(p.key)] = c
      BY Zenon DEF DirInv
    <3> QED BY Zenon, <2>1, <3>1, <3>2
  <2>2. CASE b # c
    <3>1. p \in Held(bucket[b])
      BY Zenon, <1>3, <1>6, <2>2
    <3> QED BY Zenon, <3>1 DEF DirInv
  <2> QED BY Zenon, <2>1, <2>2
<1>7. \A b \in 0 .. num_buckets_ - 1 : \E i \in DOMAIN dir_ : dir_[i] = b
  BY Zenon DEF DirInv
<1>8. \A b \in 0 .. num_buckets_ - 1 : \A p \in Held(bucket'[b]) : dir_[IndexOf(p.key)] = b
  BY Zenon, <1>6
<1>9. \A i, j \in DOMAIN dir_' :
        dir_'[i] = dir_'[j] <=> i % 2^bucket'[dir_'[i]].depth = j % 2^bucket'[dir_'[i]].depth
  <2> SUFFICES ASSUME NEW i \in DOMAIN dir_', NEW j \in DOMAIN dir_'
               PROVE dir_'[i] = dir_'[j] <=> i % 2^bucket'[dir_'[i]].depth = j % 2^bucket'[dir_'[i]].depth
    BY Zenon
  <2>1. i \in DOMAIN dir_ /\ j \in DOMAIN dir_ /\ dir_'[i] = dir_[i] /\ dir_'[j] = dir_[j]
    BY Zenon, <1>1
  <2>2. dir_[i] = dir_[j] <=> i % 2^bucket'[dir_[i]].depth = j % 2^bucket'[dir_[i]].depth
    BY Zenon, <1>5, <2>1
  <2> QED BY Zenon, <2>1, <2>2
<1>10. \A b \in 0 .. num_buckets_' - 1 : \E i \in DOMAIN dir_' : dir_'[i] = b
  BY Zenon, <1>1, <1>7
<1>11. \A b \in 0 .. num_buckets_' - 1 : \A p \in Held(bucket'[b]) : dir_'[IndexAt(p.key, global_depth_')] = b
  BY Zenon, <1>1, <1>8 DEF IndexOf
<1> QED BY Zenon, <1>9, <1>10, <1>11 DEF DirInv, Held, IndexOf, IndexAt

LEMMA PlaceDirKept ==
  ASSUME TableInv, DirInv, NEW k \in Keys, NEW v \in Values,
         BucketAccepts(bucket[dir_[IndexOf(k)]], k), Place(k, v)
  PROVE  DirInv'
<1> DEFINE c == dir_[IndexOf(k)]
           b == bucket[c]
           x == BucketInsert(b, k, v)
<1>1. IndexOf(k) \in DOMAIN dir_
  BY Zenon, IndexIn
<1>2. c \in 0 .. num_buckets_ - 1 /\ b \in Bucket /\ Distinct(b) /\ BucketAccepts(b, k)
  BY Zenon, <1>1, SlotBucket
<1>3. bucket' = [bucket EXCEPT ![c] = x] /\ UNCHANGED <<global_depth_, num_buckets_, dir_>>
  BY Zenon DEF Place
<1>4. /\ x \in Bucket /\ x.depth = b.depth
      /\ Held(x) = {p \in Held(b) : p.key # k} \cup {[key |-> k, value |-> v]}
  <2> HIDE DEF b
  <2> QED BY Zenon, <1>2, InsertHeld
<1> HIDE DEF x
<1>5. ASSUME NEW p \in Held(x)
      PROVE  p \in Held(bucket[c]) \/ dir_[IndexOf(p.key)] = c
  <2>1. CASE p = [key |-> k, value |-> v]
    <3>1. p.key = k
      BY Zenon, <2>1
    <3> QED BY Zenon, <3>1
  <2> QED BY Zenon, <1>4, <2>1
<1> HIDE DEF c
<1> QED BY Zenon, <1>2, <1>3, <1>4, <1>5, BucketDirKept

LEMMA RemoveDirKept ==
  ASSUME TableInv, DirInv, NEW k \in Keys, Remove(k)
  PROVE  DirInv'
<1> DEFINE c == dir_[IndexOf(k)]
           x == BucketRemove(bucket[c], k)
<1>1. IndexOf(k) \in DOMAIN dir_
  BY Zenon, IndexIn
<1>2. c \in 0 .. num_buckets_ - 1 /\ bucket[c] \in Bucket /\ Distinct(bucket[c])
  BY Zenon, <1>1, SlotBucket
<1>3. x \in Bucket /\ x.depth = bucket[c].depth /\ Held(x) = {p \in Held(bucket[c]) : p.key # k}
  BY Zenon, <1>2, RemoveHeld
<1>4. UNCHANGED <<global_depth_, num_buckets_, dir_>>
  BY Zenon DEF Remove
<1>5. bucket' = [bucket EXCEPT ![c] = x] \/ bucket' = bucket
  BY Zenon DEF Remove
<1>6. \A p \in Held(x) : p \in Held(bucket[c])
  BY Zenon, <1>3
<1>7. CASE bucket' = [bucket EXCEPT ![c] = x]
  <2> HIDE DEF x, c
  <2> QED BY Zenon, <1>2, <1>3, <1>4, <1>6, <1>7, BucketDirKept
<1>8. CASE bucket' = bucket
  <2>1. global_depth_' = global_depth_ /\ num_buckets_' = num_buckets_ /\ dir_' = dir_
    BY Zenon, <1>4
  <2> QED BY Zenon, <1>8, <2>1, DirSame
<1> QED BY Zenon, <1>5, <1>7, <1>8

(* A split step changes the number of buckets, so it is one that serves. *)
LEMMA SplitChanges ==
  ASSUME TableInv, NEW index, RedistributeBucket(index), [OneSlotServes]_vars
  PROVE  OneSlotServes
<1>1. num_buckets_' = num_buckets_ + 1 /\ num_buckets_ \in Nat
  BY Zenon, SplitIs DEF TableInv, TypeOK
<1>2. num_buckets_' # num_buckets_
  BY <1>1
<1>3. ~UNCHANGED vars
  BY Zenon, <1>2 DEF vars
<1> QED BY Zenon, <1>3

LEMMA InsertDirKept ==
  ASSUME TableInv, DirInv, TableInv', NEW k \in Keys, NEW v \in Values,
         InsertInternal(k, v), [OneSlotServes]_vars
  PROVE  DirInv'
<1>1. IndexOf(k) \in DOMAIN dir_
  BY Zenon, IndexIn
<1>2. CASE BucketAccepts(bucket[dir_[IndexOf(k)]], k)
  BY Zenon, <1>2, PlaceDirKept DEF InsertInternal
<1>3. CASE ~BucketAccepts(bucket[dir_[IndexOf(k)]], k)
  <2>1. RedistributeBucket(IndexOf(k))
    BY Zenon, <1>3 DEF InsertInternal, SplitOrThrow
  <2>2. OneSlotServes
    BY Zenon, <2>1, SplitChanges
  <2> DEFINE i == IndexOf(k)
  <2>3. i \in DOMAIN dir_ /\ RedistributeBucket(i)
    BY Zenon, <1>1, <2>1
  <2> HIDE DEF i
  <2> QED BY Zenon, <2>2, <2>3, SplitDirKept
<1> QED BY Zenon, <1>2, <1>3

LEMMA DirStep == TableInv /\ DirInv /\ [Next]_vars /\ [OneSlotServes]_vars => DirInv'
<1> SUFFICES ASSUME TableInv, DirInv, [Next]_vars, [OneSlotServes]_vars PROVE DirInv'
  BY Zenon
<1>0. TableInv'
  BY Zenon, TableStep
<1>1. CASE UNCHANGED <<global_depth_, num_buckets_, dir_, bucket>>
  <2>1. global_depth_' = global_depth_ /\ num_buckets_' = num_buckets_ /\ dir_' = dir_ /\ bucket' = bucket
    BY Zenon, <1>1
  <2> QED BY Zenon, <2>1, DirSame
<1>2. CASE UNCHANGED vars
  <2>1. UNCHANGED <<global_depth_, num_buckets_, dir_, bucket>>
    BY Zenon, <1>2 DEF vars
  <2> QED BY Zenon, <1>1, <2>1
<1>3. ASSUME NEW k \in Keys, Find(k) PROVE DirInv'
  <2>1. UNCHANGED <<global_depth_, num_buckets_, dir_, bucket>>
    BY Zenon, <1>3 DEF Find
  <2> QED BY Zenon, <1>1, <2>1
<1>4. ASSUME NEW k \in Keys, Remove(k) PROVE DirInv'
  BY Zenon, <1>4, RemoveDirKept
<1>5. ASSUME NEW k \in Keys, NEW v \in Values, InsertInternal(k, v) PROVE DirInv'
  BY Zenon, <1>0, <1>5, InsertDirKept
<1>6. CASE InsertRetry
  <2>1. inserting \in Pair
    BY Zenon, <1>6 DEF InsertRetry, TableInv, TypeOK
  <2>2. inserting.key \in Keys /\ inserting.value \in Values
    BY Zenon, <2>1 DEF Pair
  <2> QED BY Zenon, <1>5, <1>6, <2>2 DEF InsertRetry
<1> QED BY Zenon, <1>2, <1>3, <1>4, <1>5, <1>6 DEF Next, Insert

(***************************************************************************)
(* As long as every split is one that the single slot RedistributeBucket   *)
(* redirects can serve, the directory stays the one of extendible hashing, *)
(* for every hash function, bucket size and number of splits: a bucket of  *)
(* local depth d has the slots that agree on their low d bits, every pair  *)
(* is where IndexOf looks for it, and no bucket is cut off.                *)
(***************************************************************************)
THEOREM DirectoryCorrect == Spec /\ [][OneSlotServes]_vars => []DirectoryIntegrity
<1>1. Init => TableInv /\ DirInv
  BY Zenon, TableStart, DirStart
<1>2. TableInv /\ DirInv /\ [Next]_vars /\ [OneSlotServes]_vars => (TableInv /\ DirInv)'
  BY Zenon, TableStep, DirStep
<1>3. TableInv /\ DirInv => DirectoryIntegrity
  BY Zenon, DirSound
<1> QED BY <1>1, <1>2, <1>3, PTL DEF Spec

-----------------------------------------------------------------------------
(* What Find sees of a key depends on the pairs with that key only. *)
LEMMA SameFind ==
  ASSUME NEW b \in Bucket, Distinct(b), NEW c \in Bucket, Distinct(c), NEW k,
         \A p : p.key = k => (p \in Held(b) <=> p \in Held(c))
  PROVE  BucketFind(b, k) = BucketFind(c, k)
<1>1. CASE \E p \in Held(b) : p.key = k
  <2>1. PICK p \in Held(b) : p.key = k
    BY Zenon, <1>1
  <2>2. p \in Held(c)
    BY Zenon, <2>1
  <2>3. BucketFind(b, p.key) = p.value /\ BucketFind(c, p.key) = p.value
    BY Zenon, <2>1, <2>2, FindHeld
  <2> QED BY Zenon, <2>1, <2>3
<1>2. CASE \A p \in Held(b) : p.key # k
  <2>1. \A p \in Held(c) : p.key # k
    BY Zenon, <1>2
  <2> QED BY Zenon, <1>2, <2>1, FindHeld
<1> QED BY Zenon, <1>1, <1>2

LEMMA Seen ==
  ASSUME TableInv, NEW k \in Keys
  PROVE  FindInternal(k) = BucketFind(bucket[dir_[IndexOf(k)]], k)
BY Zenon, IndexIn DEF FindInternal

(* The same after a step. *)
LEMMA SeenAfter ==
  ASSUME TableInv', NEW k \in Keys
  PROVE  /\ IndexAt(k, global_depth_') \in DOMAIN dir_'
         /\ FindInternal(k)' = BucketFind(bucket'[dir_'[IndexAt(k, global_depth_')]], k)
<1>1. DOMAIN dir_' = 0 .. 2^global_depth_' - 1 /\ global_depth_' \in Nat
  BY Zenon DEF TableInv, TypeOK
<1>2. 2^global_depth_' \in Nat \ {0}
  BY Zenon, <1>1, Power
<1>3. Hash[k] \in Int
  BY HashAssumption
<1>4. Hash[k] % 2^global_depth_' \in 0 .. 2^global_depth_' - 1
  BY Zenon, <1>2, <1>3, Remainder
<1>5. IndexAt(k, global_depth_') \in DOMAIN dir_'
  BY Zenon, <1>1, <1>4 DEF IndexAt
<1>6. FindInternal(k)' = IF IndexAt(k, global_depth_') \in DOMAIN dir_'
                         THEN BucketFind(bucket'[dir_'[IndexAt(k, global_depth_')]], k) ELSE NoValue
  BY Zenon DEF FindInternal, IndexOf, IndexAt, BucketFind, PosIn
<1> QED BY Zenon, <1>5, <1>6

LEMMA BucketsAfter ==
  ASSUME TableInv', NEW c \in 0 .. num_buckets_' - 1
  PROVE  bucket'[c] \in Bucket /\ Distinct(bucket'[c])
<1>1. bucket'[c] \in Bucket
  BY Zenon DEF TableInv, TypeOK
<1>2. Distinct(bucket'[c])
  BY Zenon DEF TableInv, Distinct
<1> QED BY Zenon, <1>1, <1>2

(* Bucket::Insert and Bucket::Remove change what is found of their key. *)
LEMMA ChangeSeen ==
  ASSUME TableInv, TableInv', NEW k \in Keys, NEW x \in Bucket, Distinct(x),
         bucket' = [bucket EXCEPT ![dir_[IndexOf(k)]] = x],
         UNCHANGED <<global_depth_, num_buckets_, dir_>>,
         \A p : p.key # k => (p \in Held(x) <=> p \in Held(bucket[dir_[IndexOf(k)]])),
         NEW j \in Keys
  PROVE  FindInternal(j)' = IF j = k THEN BucketFind(x, k) ELSE FindInternal(j)
<1> DEFINE c == dir_[IndexOf(k)]
           e == dir_[IndexOf(j)]
<1>1. global_depth_' = global_depth_ /\ dir_' = dir_
  OBVIOUS
<1>2. DOMAIN bucket = 0 .. num_buckets_ - 1
  BY Zenon DEF TableInv, TypeOK
<1>3. IndexOf(k) \in DOMAIN dir_ /\ IndexOf(j) \in DOMAIN dir_
  BY Zenon, IndexIn
<1>4. c \in DOMAIN bucket /\ e \in DOMAIN bucket /\ bucket[c] \in Bucket /\ Distinct(bucket[c])
  BY Zenon, <1>2, <1>3, SlotBucket
<1>5. FindInternal(j) = BucketFind(bucket[e], j)
  BY Zenon, Seen
<1>6. FindInternal(j)' = BucketFind(bucket'[e], j)
  <2>1. FindInternal(j)' = BucketFind(bucket'[dir_'[IndexAt(j, global_depth_')]], j)
    BY Zenon, SeenAfter
  <2>2. dir_'[IndexAt(j, global_depth_')] = e
    BY Zenon, <1>1 DEF IndexOf
  <2> QED BY Zenon, <2>1, <2>2
<1>7. CASE e # c
  <2>1. bucket'[e] = bucket[e] /\ j # k
    BY Zenon, <1>4, <1>7
  <2> QED BY Zenon, <1>5, <1>6, <2>1
<1>8. CASE e = c
  <2>1. bucket'[e] = x
    BY Zenon, <1>4, <1>8
  <2>2. j # k => BucketFind(x, j) = BucketFind(bucket[c], j)
    <3> SUFFICES ASSUME j # k PROVE BucketFind(x, j) = BucketFind(bucket[c], j)
      BY Zenon
    <3>1. \A p : p.key = j => (p \in Held(x) <=> p \in Held(bucket[c]))
      BY Zenon
    <3> HIDE DEF c
    <3> QED BY Zenon, <1>4, <3>1, SameFind
  <2> QED BY Zenon, <1>5, <1>6, <1>8, <2>1, <2>2
<1> QED BY Zenon, <1>7, <1>8

LEMMA PlaceSeen ==
  ASSUME TableInv, TableInv', NEW k \in Keys, NEW v \in Values,
         BucketAccepts(bucket[dir_[IndexOf(k)]], k), Place(k, v), NEW j \in Keys
  PROVE  FindInternal(j)' = IF j = k THEN v ELSE FindInternal(j)
<1> DEFINE b == bucket[dir_[IndexOf(k)]]
           x == BucketInsert(b, k, v)
           p == [key |-> k, value |-> v]
<1>1. b \in Bucket /\ Distinct(b) /\ BucketAccepts(b, k)
  BY Zenon, IndexIn, SlotBucket
<1>2. bucket' = [bucket EXCEPT ![dir_[IndexOf(k)]] = x] /\ UNCHANGED <<global_depth_, num_buckets_, dir_>>
  BY Zenon DEF Place
<1> HIDE DEF b
<1>3. x \in Bucket /\ Distinct(x) /\ Held(x) = {q \in Held(b) : q.key # k} \cup {p}
  BY Zenon, <1>1, InsertHeld
<1> HIDE DEF x
<1>4. p.key = k /\ p.value = v
  BY Zenon
<1> HIDE DEF p
<1>5. BucketFind(x, k) = v
  <2>1. p \in Held(x)
    BY Zenon, <1>3
  <2>2. BucketFind(x, p.key) = p.value
    BY Zenon, <1>3, <2>1, FindHeld
  <2> QED BY Zenon, <1>4, <2>2
<1>6. \A q : q.key # k => (q \in Held(x) <=> q \in Held(bucket[dir_[IndexOf(k)]]))
  BY Zenon, <1>3, <1>4 DEF b
<1>7. FindInternal(j)' = IF j = k THEN BucketFind(x, k) ELSE FindInternal(j)
  BY Zenon, <1>2, <1>3, <1>6, ChangeSeen
<1> QED BY Zenon, <1>5, <1>7

LEMMA RemoveSeen ==
  ASSUME TableInv, TableInv', NEW k \in Keys, Remove(k), NEW j \in Keys
  PROVE  FindInternal(j)' = IF j = k THEN NoValue ELSE FindInternal(j)
<1> DEFINE b == bucket[dir_[IndexOf(k)]]
           x == BucketRemove(b, k)
<1>1. b \in Bucket /\ Distinct(b)
  BY Zenon, IndexIn, SlotBucket
<1>2. UNCHANGED <<global_depth_, num_buckets_, dir_>>
  BY Zenon DEF Remove
<1>3. CASE FindInternal(k) = NoValue
  <2>1. global_depth_' = global_depth_ /\ dir_' = dir_ /\ bucket' = bucket
    BY Zenon, <1>3 DEF Remove
  <2>2. FindInternal(j)' = FindInternal(j)
    BY Zenon, <2>1 DEF FindInternal, IndexOf, IndexAt, BucketFind, PosIn
  <2> QED BY Zenon, <1>3, <2>2
<1>4. CASE FindInternal(k) # NoValue
  <2>1. bucket' = [bucket EXCEPT ![dir_[IndexOf(k)]] = x]
    BY Zenon, <1>4 DEF Remove
  <2> HIDE DEF b
  <2>2. x \in Bucket /\ Distinct(x) /\ Held(x) = {q \in Held(b) : q.key # k}
    BY Zenon, <1>1, RemoveHeld
  <2> HIDE DEF x
  <2>3. BucketFind(x, k) = NoValue
    <3>1. \A q \in Held(x) : q.key # k
      BY Zenon, <2>2
    <3> QED BY Zenon, <2>2, <3>1, FindHeld
  <2>4. \A q : q.key # k => (q \in Held(x) <=> q \in Held(bucket[dir_[IndexOf(k)]]))
    BY Zenon, <2>2 DEF b
  <2>5. FindInternal(j)' = IF j = k THEN BucketFind(x, k) ELSE FindInternal(j)
    BY Zenon, <1>2, <2>1, <2>2, <2>4, ChangeSeen
  <2> QED BY Zenon, <2>3, <2>5
<1> QED BY Zenon, <1>3, <1>4

(* A caller sees nothing of a split that one slot serves. *)
LEMMA SplitSeen ==
  ASSUME TableInv, DirInv, TableInv', NEW index \in DOMAIN dir_, RedistributeBucket(index), OneSlotServes,
         NEW k \in Keys
  PROVE  FindInternal(k)' = FindInternal(k)
<1> DEFINE n == num_buckets_
           b == dir_[index]
           h == global_depth_
           g == global_depth_'
           y == IndexAt(k, g)
           e == dir_[IndexOf(k)]
<1>1. n \in Nat /\ g \in Nat /\ h <= g /\ num_buckets_' = n + 1
  BY Zenon, SplitIs, DirAfterIs DEF TableInv, TypeOK
<1>a. PICK x : Served(index, x)
  BY Zenon, SplitServed
<1>b. Shared(index)
  BY Zenon, SplitServed
<1>2. /\ x \in DOMAIN dir_' /\ x # index /\ index \in DOMAIN dir_' /\ dir_'[index] = b /\ dir_'[x] = n
      /\ \A i \in DOMAIN dir_' :
           /\ i % 2^h \in DOMAIN dir_
           /\ dir_[i % 2^h] = b <=> i = index \/ i = x
           /\ dir_[i % 2^h] # b => dir_'[i] = dir_[i % 2^h]
  BY Zenon, <1>a DEF Served
<1>3. /\ \A c \in 0 .. n - 1 : c # b => bucket'[c] = bucket[c]
      /\ \A p : p \in Held(bucket[b]) =>
           IF IndexAt(p.key, g) = index
           THEN p \in Held(bucket'[b]) /\ p \notin Held(bucket'[n])
           ELSE p \notin Held(bucket'[b]) /\ p \in Held(bucket'[n])
      /\ Held(bucket'[b]) \subseteq Held(bucket[b]) /\ Held(bucket'[n]) \subseteq Held(bucket[b])
  BY Zenon, <1>b DEF Shared
<1>4. y \in DOMAIN dir_' /\ FindInternal(k)' = BucketFind(bucket'[dir_'[y]], k)
  BY Zenon, SeenAfter
<1>5. y % 2^h = IndexOf(k)
  BY Zenon, <1>1, KeyIndex
<1>6. FindInternal(k) = BucketFind(bucket[e], k) /\ e \in 0 .. n - 1
  BY Zenon, Seen, IndexIn, SlotBucket
<1>7. b \in 0 .. n - 1 /\ bucket[b] \in Bucket /\ Distinct(bucket[b])
  BY Zenon, SlotBucket
<1> HIDE DEF b, n, g, h
<1>8. b \in 0 .. num_buckets_' - 1 /\ n \in 0 .. num_buckets_' - 1
  BY <1>1, <1>7
<1>9. /\ bucket'[b] \in Bucket /\ Distinct(bucket'[b])
      /\ bucket'[n] \in Bucket /\ Distinct(bucket'[n])
  BY Zenon, <1>8, BucketsAfter
<1>10. e = dir_[y % 2^h]
  BY Zenon, <1>5
<1> HIDE DEF e
<1>11. CASE e # b
  <2>1. dir_'[y] = e /\ bucket'[e] = bucket[e]
    BY Zenon, <1>2, <1>3, <1>4, <1>6, <1>10, <1>11
  <2> QED BY Zenon, <1>4, <1>6, <2>1
<1>12. CASE e = b /\ y = index
  <2>1. dir_'[y] = b
    BY Zenon, <1>2, <1>12
  <2>2. \A p : p.key = k => (p \in Held(bucket[b]) <=> p \in Held(bucket'[b]))
    BY Zenon, <1>3, <1>12
  <2>3. BucketFind(bucket[b], k) = BucketFind(bucket'[b], k)
    BY Zenon, <1>7, <1>9, <2>2, SameFind
  <2> QED BY Zenon, <1>4, <1>6, <1>12, <2>1, <2>3
<1>13. CASE e = b /\ y # index
  <2>1. dir_'[y] = n
    BY Zenon, <1>2, <1>4, <1>10, <1>13
  <2>2. \A p : p.key = k => (p \in Held(bucket[b]) <=> p \in Held(bucket'[n]))
    BY Zenon, <1>3, <1>13
  <2>3. BucketFind(bucket[b], k) = BucketFind(bucket'[n], k)
    BY Zenon, <1>7, <1>9, <2>2, SameFind
  <2> QED BY Zenon, <1>4, <1>6, <1>13, <2>1, <2>3
<1> QED BY Zenon, <1>11, <1>12, <1>13

(* The dictionary a caller sees. *)
Dictionary == [k \in Keys |-> FindInternal(k)]

LEMMA SeenUpdate ==
  ASSUME NEW k \in Keys, NEW v, \A j \in Keys : FindInternal(j)' = IF j = k THEN v ELSE FindInternal(j)
  PROVE  Dictionary' = [Dictionary EXCEPT ![k] = v]
<1>1. Dictionary' = [j \in Keys |-> FindInternal(j)']
  BY Zenon DEF Dictionary
<1>2. [Dictionary EXCEPT ![k] = v] = [j \in Keys |-> IF j = k THEN v ELSE FindInternal(j)]
  BY Zenon DEF Dictionary
<1>3. [j \in Keys |-> FindInternal(j)'] = [j \in Keys |-> IF j = k THEN v ELSE FindInternal(j)]
  BY Zenon
<1> QED BY Zenon, <1>1, <1>2, <1>3

LEMMA SeenSame ==
  ASSUME \A j \in Keys : FindInternal(j)' = FindInternal(j)
  PROVE  Dictionary' = Dictionary
BY Zenon DEF Dictionary

LEMMA InsertMaps ==
  ASSUME TableInv, DirInv, TableInv', NEW k \in Keys, NEW v \in Values,
         InsertInternal(k, v), [OneSlotServes]_vars
  PROVE  Map!Insert(k, v) \/ (Dictionary' = Dictionary /\ ret' = ret)
<1>1. IndexOf(k) \in DOMAIN dir_
  BY Zenon, IndexIn
<1>2. CASE BucketAccepts(bucket[dir_[IndexOf(k)]], k)
  <2>1. Place(k, v)
    BY Zenon, <1>2 DEF InsertInternal
  <2>2. \A j \in Keys : FindInternal(j)' = IF j = k THEN v ELSE FindInternal(j)
    BY Zenon, <1>2, <2>1, PlaceSeen
  <2>3. Dictionary' = [Dictionary EXCEPT ![k] = v]
    BY Zenon, <2>2, SeenUpdate
  <2>4. ret' = Map!Outcome("insert", k, v)
    BY Zenon, <2>1 DEF Place, Outcome, Map!Outcome
  <2> QED BY Zenon, <2>3, <2>4 DEF Map!Insert, Dictionary
<1>3. CASE ~BucketAccepts(bucket[dir_[IndexOf(k)]], k)
  <2> DEFINE i == IndexOf(k)
  <2>1. SplitOrThrow(k, v)
    BY Zenon, <1>3 DEF InsertInternal
  <2>2. i \in DOMAIN dir_ /\ RedistributeBucket(i)
    BY Zenon, <1>1, <2>1 DEF SplitOrThrow
  <2> HIDE DEF i
  <2>3. OneSlotServes
    BY Zenon, <2>2, SplitChanges
  <2>4. \A j \in Keys : FindInternal(j)' = FindInternal(j)
    BY Zenon, <2>2, <2>3, SplitSeen
  <2>5. \E x \in DOMAIN dir_' : dir_'[x] = num_buckets_
    <3>1. PICK x : Served(i, x)
      BY Zenon, <2>2, <2>3, SplitServed
    <3> QED BY Zenon, <3>1 DEF Served
  <2>6. num_buckets_ \in Range(dir_')
    BY Zenon, <2>5 DEF Range
  <2>7. ret' = ret
    BY Zenon, <2>1, <2>6 DEF SplitOrThrow
  <2> QED BY Zenon, <2>4, <2>7, SeenSame
<1> QED BY Zenon, <1>2, <1>3

LEMMA MapStep ==
  TableInv /\ DirInv /\ TableInv' /\ [Next]_vars /\ [OneSlotServes]_vars
    => Map!Next \/ (Dictionary' = Dictionary /\ ret' = ret)
<1> SUFFICES ASSUME TableInv, DirInv, TableInv', [Next]_vars, [OneSlotServes]_vars
             PROVE  Map!Next \/ (Dictionary' = Dictionary /\ ret' = ret)
  BY Zenon
<1>1. ASSUME global_depth_' = global_depth_, dir_' = dir_, bucket' = bucket
      PROVE  Dictionary' = Dictionary
  <2>1. \A j \in Keys : FindInternal(j)' = FindInternal(j)
    BY Zenon, <1>1 DEF FindInternal, IndexOf, IndexAt, BucketFind, PosIn
  <2> QED BY Zenon, <2>1, SeenSame
<1>2. CASE UNCHANGED vars
  <2>1. global_depth_' = global_depth_ /\ dir_' = dir_ /\ bucket' = bucket /\ ret' = ret
    BY Zenon, <1>2 DEF vars
  <2> QED BY Zenon, <1>1, <2>1
<1>3. ASSUME NEW k \in Keys, Find(k) PROVE Map!Next
  <2>1. global_depth_' = global_depth_ /\ dir_' = dir_ /\ bucket' = bucket
    BY Zenon, <1>3 DEF Find
  <2>2. Dictionary' = Dictionary
    BY Zenon, <1>1, <2>1
  <2>3. ret' = Map!Outcome("find", k, Dictionary[k])
    BY Zenon, <1>3 DEF Find, Outcome, Map!Outcome, Dictionary
  <2>4. Map!Find(k)
    BY Zenon, <2>2, <2>3 DEF Map!Find, Dictionary
  <2> QED BY Zenon, <2>4 DEF Map!Next
<1>4. ASSUME NEW k \in Keys, Remove(k) PROVE Map!Next
  <2>1. \A j \in Keys : FindInternal(j)' = IF j = k THEN NoValue ELSE FindInternal(j)
    BY Zenon, <1>4, RemoveSeen
  <2>2. Dictionary' = [Dictionary EXCEPT ![k] = NoValue]
    BY Zenon, <2>1, SeenUpdate
  <2>3. ret' = Map!Outcome("remove", k, Dictionary[k] # NoValue)
    BY Zenon, <1>4 DEF Remove, Outcome, Map!Outcome, Dictionary
  <2>4. Map!Remove(k)
    BY Zenon, <2>2, <2>3 DEF Map!Remove, Dictionary
  <2> QED BY Zenon, <2>4 DEF Map!Next
<1>5. ASSUME NEW k \in Keys, NEW v \in Values, InsertInternal(k, v)
      PROVE  Map!Next \/ (Dictionary' = Dictionary /\ ret' = ret)
  BY Zenon, <1>5, InsertMaps DEF Map!Next
<1>6. CASE InsertRetry
  <2>1. inserting \in Pair
    BY Zenon, <1>6 DEF InsertRetry, TableInv, TypeOK
  <2>2. inserting.key \in Keys /\ inserting.value \in Values
    BY Zenon, <2>1 DEF Pair
  <2> QED BY Zenon, <1>5, <1>6, <2>2 DEF InsertRetry
<1> QED BY Zenon, <1>2, <1>3, <1>4, <1>5, <1>6 DEF Next, Insert

LEMMA MapStart == Init => Map!Init
<1> SUFFICES ASSUME Init PROVE Map!Init
  BY Zenon
<1>1. TableInv
  BY Zenon, TableStart
<1>2. /\ bucket = [b \in {0} |-> [depth |-> 0, list |-> <<>>]] /\ dir_ = [i \in {0} |-> 0]
      /\ ret = Outcome("none", NoValue, NoValue)
  BY Zenon DEF Init
<1>3. bucket[0].list = <<>> /\ DOMAIN <<>> = {}
  BY <1>2
<1>4. ASSUME NEW k \in Keys PROVE FindInternal(k) = NoValue
  <2>1. IndexOf(k) \in {0}
    BY Zenon, <1>1, <1>2, IndexIn
  <2>2. dir_[IndexOf(k)] = 0
    BY Zenon, <1>2, <2>1
  <2>3. PosIn(bucket[0], k) = {}
    BY Zenon, <1>3 DEF PosIn
  <2>4. BucketFind(bucket[0], k) = NoValue
    BY Zenon, <2>3 DEF BucketFind
  <2> QED BY Zenon, <1>1, <2>2, <2>4, Seen
<1>5. [k \in Keys |-> FindInternal(k)] = [k \in Keys |-> NoValue]
  BY Zenon, <1>4
<1> QED BY Zenon, <1>2, <1>5 DEF Map!Init, Outcome, Map!Outcome

(***************************************************************************)
(* As long as every split is one that the single redirected slot can       *)
(* serve, a caller cannot tell the table from a dictionary: Find answers   *)
(* what the last Insert of the key stored unless Remove took it, Remove    *)
(* says whether the key was there, no Insert throws, and neither doubling  *)
(* the directory nor splitting a bucket in the middle of an Insert shows.  *)
(***************************************************************************)
THEOREM TableImplementsMap == Spec /\ [][OneSlotServes]_vars => ImplementsMap
<1>1. Init => TableInv /\ DirInv
  BY Zenon, TableStart, DirStart
<1>2. TableInv /\ DirInv /\ [Next]_vars /\ [OneSlotServes]_vars => (TableInv /\ DirInv)'
  BY Zenon, TableStep, DirStep
<1>3. Init => Map!Init
  BY Zenon, MapStart
<1>4. TableInv /\ DirInv /\ (TableInv /\ DirInv)' /\ [Next]_vars /\ [OneSlotServes]_vars
        => [Map!Next]_<<Dictionary, ret>>
  BY Zenon, MapStep
<1> QED BY <1>1, <1>2, <1>3, <1>4, PTL DEF Spec, ImplementsMap, Map!Spec, Dictionary

(* A dictionary forgets a key only when it is removed. *)
LEMMA ForgetsRemoved ==
  ASSUME Map!Next \/ (Dictionary' = Dictionary /\ ret' = ret), NEW k \in Keys,
         FindInternal(k) # NoValue, FindInternal(k)' = NoValue
  PROVE  ret'.op = "remove" /\ ret'.key = k
<1>1. Dictionary[k] # NoValue /\ Dictionary'[k] = NoValue
  <2>1. Dictionary[k] = FindInternal(k)
    BY Zenon DEF Dictionary
  <2>2. Dictionary'[k] = FindInternal(k)'
    BY Zenon DEF Dictionary
  <2> QED BY Zenon, <2>1, <2>2
<1>2. DOMAIN Dictionary = Keys
  BY Zenon DEF Dictionary
<1>3. Map!Next
  BY Zenon, <1>1
<1>4. PICK j \in Keys : Map!Find(j) \/ Map!Remove(j) \/ \E v \in Values : Map!Insert(j, v)
  BY Zenon, <1>3 DEF Map!Next
<1>5. CASE Map!Find(j)
  <2>1. Dictionary' = Dictionary
    BY Zenon, <1>5 DEF Map!Find, Dictionary
  <2> QED BY Zenon, <1>1, <2>1
<1>6. CASE \E v \in Values : Map!Insert(j, v)
  <2>1. PICK v \in Values : Map!Insert(j, v)
    BY Zenon, <1>6
  <2>2. Dictionary' = [Dictionary EXCEPT ![j] = v]
    BY Zenon, <2>1 DEF Map!Insert, Dictionary
  <2>3. v # NoValue
    BY Zenon, NoValueAssumption
  <2> QED BY Zenon, <1>1, <1>2, <2>2, <2>3
<1>7. CASE Map!Remove(j)
  <2>1. /\ Dictionary' = [Dictionary EXCEPT ![j] = NoValue]
        /\ ret' = Map!Outcome("remove", j, Dictionary[j] # NoValue)
    BY Zenon, <1>7 DEF Map!Remove, Dictionary
  <2>2. j = k
    BY Zenon, <1>1, <1>2, <2>1
  <2>3. ret'.op = "remove" /\ ret'.key = j
    BY Zenon, <2>1 DEF Map!Outcome
  <2> QED BY Zenon, <2>2, <2>3
<1> QED BY Zenon, <1>4, <1>5, <1>6, <1>7

(***************************************************************************)
(* Only a split that its one slot does not serve can cut off a key: in a   *)
(* history without one, a pair whose Insert has returned is found until    *)
(* Remove takes it.                                                        *)
(***************************************************************************)
THEOREM KeysKept == Spec /\ [][OneSlotServes]_vars => NoKeyLost
<1>1. Init => TableInv /\ DirInv
  BY Zenon, TableStart, DirStart
<1>2. TableInv /\ DirInv /\ [Next]_vars /\ [OneSlotServes]_vars => (TableInv /\ DirInv)'
  BY Zenon, TableStep, DirStep
<1> DEFINE Kept == \A k \in Keys : FindInternal(k) # NoValue /\ FindInternal(k)' = NoValue
                                     => ret'.op = "remove" /\ ret'.key = k
<1>3. TableInv /\ DirInv /\ (TableInv /\ DirInv)' /\ [Next]_vars /\ [OneSlotServes]_vars => [Kept]_vars
  BY Zenon, MapStep, ForgetsRemoved
<1> QED BY <1>1, <1>2, <1>3, PTL DEF Spec, NoKeyLost

-----------------------------------------------------------------------------
(* What DirectoryIntegrity says of the slots: the buckets in use are as many *)
(* as num_buckets_ counts, and slots of one bucket are those that agree.     *)
SlotsAgree ==
  /\ num_buckets_ = Cardinality(Range(dir_))
  /\ \A i, j \in DOMAIN dir_ :
       dir_[i] = dir_[j] <=> i % 2^bucket[dir_[i]].depth = j % 2^bucket[dir_[i]].depth

LEMMA IntegrityAgrees == DirectoryIntegrity => SlotsAgree
<1> SUFFICES ASSUME DirectoryIntegrity, NEW i \in DOMAIN dir_, NEW j \in DOMAIN dir_
             PROVE  dir_[i] = dir_[j] <=> i % 2^bucket[dir_[i]].depth = j % 2^bucket[dir_[i]].depth
  BY Zenon DEF DirectoryIntegrity, SlotsAgree
<1>1. dir_[i] \in Range(dir_) /\ i \in Slots(dir_[i])
  BY Zenon DEF Range, Slots
<1>2. Slots(dir_[i])
        = {a \in DOMAIN dir_ : i % 2^bucket[dir_[i]].depth = a % 2^bucket[dir_[i]].depth}
  BY Zenon, <1>1 DEF DirectoryIntegrity
<1>3. dir_[i] = dir_[j] <=> j \in Slots(dir_[i])
  BY Zenon DEF Slots
<1> QED BY Zenon, <1>2, <1>3

(* An index that alone has its low bits in the directory has all the bits. *)
LEMMA AloneIsDeep ==
  ASSUME NEW e \in Nat, NEW g \in Nat, e <= g, NEW x \in 0 .. 2^g - 1,
         \A j \in 0 .. 2^g - 1 : x % 2^e = j % 2^e => j = x
  PROVE  e = g
<1> SUFFICES ASSUME e # g PROVE FALSE
  BY Zenon
<1> DEFINE P == 2^e
           q == x \div P
           r == x % P
<1>1. P \in Nat \ {0} /\ 2^(e + 1) = 2 * P
  BY Zenon, Power
<1>2. e + 1 \in Nat /\ e + 1 <= g
  OBVIOUS
<1>3. PICK c \in Nat \ {0} : 2^g = 2^(e + 1) * c
  BY Zenon, <1>2, PowerDivides
<1> DEFINE Q == 2^g
<1>4. Q = (2 * P) * c
  BY Zenon, <1>1, <1>3
<1>5. x \in 0 .. Q - 1 /\ \A j \in 0 .. Q - 1 : x % P = j % P => j = x
  BY Zenon
<1> HIDE DEF P, Q
<1>6. 2 * P <= Q /\ Q \in Nat
  <2>1. c >= 1 /\ 2 * P \in Nat
    BY <1>1
  <2> DEFINE M == 2 * P
  <2>2. Q = M * c /\ M \in Nat
    BY Zenon, <1>4, <2>1
  <2> HIDE DEF M
  <2>3. M <= Q /\ Q \in Nat
    BY <2>1, <2>2
  <2> QED BY Zenon, <2>3 DEF M
<1>7. x \in Int
  OBVIOUS
<1>8. r \in 0 .. P - 1 /\ q \in Int /\ x = P * q + r
  BY Zenon, <1>1, <1>7, Remainder
<1>9. q + 1 \in Int /\ q - 1 \in Int
  BY <1>8
<1>10. (P * (q + 1) + r) % P = r /\ (P * (q - 1) + r) % P = r
  BY Zenon, <1>1, <1>8, <1>9, RemainderIs
<1>11. P * (q + 1) + r = x + P /\ P * (q - 1) + r = x - P
  <2> HIDE DEF q, r
  <2> QED BY <1>1, <1>8
<1>12. (x + P) % P = x % P /\ (x - P) % P = x % P
  BY Zenon, <1>10, <1>11
<1> HIDE DEF q, r
<1>13. x + P # x /\ x - P # x
  BY <1>1, <1>7
<1>14. x + P \in 0 .. Q - 1 \/ x - P \in 0 .. Q - 1
  BY <1>1, <1>5, <1>6
<1> QED BY Zenon, <1>5, <1>12, <1>13, <1>14

(* A split that leaves such a directory is one that the one slot served. *)
LEMMA ServesNeeded ==
  ASSUME TableInv, SlotsAgree, TableInv', SlotsAgree', NEW index \in DOMAIN dir_, RedistributeBucket(index)
  PROVE  OneSlotServes
<1> DEFINE n == num_buckets_
           s == Parts(index)
           D == DirAfter(index)
           g == DepthAfter(index)
           b == dir_[index]
           d == bucket[b].depth
           x == s.split_index
           h == global_depth_
<1>1. n \in Nat /\ h \in Nat /\ bucket \in [0 .. n - 1 -> Bucket]
  BY Zenon DEF TableInv, TypeOK
<1>2. /\ global_depth_' = g /\ num_buckets_' = n + 1
      /\ bucket' = [i \in 0 .. n |-> IF i = n THEN s.split_bucket ELSE IF i = b THEN s.bucket ELSE bucket[i]]
      /\ dir_' = [i \in DOMAIN D |-> IF i = x THEN n ELSE D[i]]
  BY Zenon, SplitIs
<1>3. g \in Nat /\ h <= g /\ D \in [0 .. 2^g - 1 -> 0 .. n - 1]
  BY Zenon, DirAfterIs
<1>4. \A i \in 0 .. 2^g - 1 : i % 2^h \in DOMAIN dir_ /\ D[i] = dir_[i % 2^h]
  BY Zenon, DirAfterIs
<1>5. bucket[b] \in Bucket /\ b \in 0 .. n - 1
  BY Zenon, SlotBucket
<1>6. d \in Nat
  BY Zenon, <1>5, BucketFields
<1>7. s.split_bucket.depth = d + 1 /\ s.bucket.depth = d + 1 /\ d + 1 <= g
  BY Zenon, RaisedIs, PartsAre DEF Midway
<1> HIDE DEF n, s, D, g, d, x, h, b
<1>8. n \in 0 .. n /\ n \notin 0 .. n - 1 /\ \A i \in 0 .. n - 1 : i \in 0 .. n /\ i # n
  BY <1>1
<1>9. bucket'[n] = s.split_bucket /\ bucket'[b] = s.bucket
  BY Zenon, <1>2, <1>5, <1>8
<1>10. \A c \in 0 .. n - 1 : c # b => bucket'[c] = bucket[c]
  BY Zenon, <1>2, <1>8
<1>11. DOMAIN dir_' = 0 .. 2^g - 1 /\ \A i \in DOMAIN dir_' : dir_'[i] = IF i = x THEN n ELSE D[i]
  BY Zenon, <1>2, <1>3
<1>12. \A c \in 0 .. n : \E i \in DOMAIN dir_' : dir_'[i] = c
  <2> DEFINE R == Range(dir_')
  <2>1. R \in SUBSET (0 .. n)
    <3>1. \A i \in DOMAIN dir_' : dir_'[i] \in 0 .. n
      BY Zenon, <1>3, <1>8, <1>11
    <3> QED BY Zenon, <3>1 DEF Range
  <2>2. Cardinality(R) = n + 1
    BY Zenon, <1>2 DEF SlotsAgree, Range
  <2>3. IsFiniteSet(0 .. n) /\ Cardinality(0 .. n) = n + 1
    <3>1. 0 \in Int /\ n \in Int /\ ~(0 > n) /\ n - 0 + 1 = n + 1
      BY <1>1
    <3> QED BY Zenon, <3>1, FS_Interval
  <2> HIDE DEF R
  <2>4. R = 0 .. n
    BY Zenon, <2>1, <2>2, <2>3, FS_Subset
  <2> QED BY Zenon, <2>4 DEF R, Range
<1>13. \A i, j \in DOMAIN dir_' :
         dir_'[i] = dir_'[j] <=> i % 2^bucket'[dir_'[i]].depth = j % 2^bucket'[dir_'[i]].depth
  BY Zenon DEF SlotsAgree
<1>14. PICK i \in DOMAIN dir_' : dir_'[i] = n
  BY Zenon, <1>8, <1>12
<1>15. \A j \in DOMAIN dir_' : dir_'[j] = n => j = x
  BY Zenon, <1>3, <1>8, <1>11
<1>16. i = x
  BY Zenon, <1>14, <1>15
<1>17. d + 1 = g
  <2>1. \A j \in 0 .. 2^g - 1 : x % 2^(d + 1) = j % 2^(d + 1) => j = x
    <3>1. bucket'[dir_'[x]].depth = d + 1 /\ dir_'[x] = n /\ x \in DOMAIN dir_'
      BY Zenon, <1>7, <1>9, <1>14, <1>16
    <3>2. ASSUME NEW j \in DOMAIN dir_', x % 2^(d + 1) = j % 2^(d + 1)
          PROVE  j = x
      <4>1. dir_'[x] = dir_'[j]
        BY Zenon, <1>13, <3>1, <3>2
      <4> QED BY Zenon, <1>15, <3>1, <4>1
    <3> QED BY Zenon, <1>11, <3>2
  <2>2. d + 1 \in Nat /\ x \in 0 .. 2^g - 1
    BY <1>6, <1>11, <1>16
  <2> QED BY Zenon, <1>3, <1>7, <2>1, <2>2, AloneIsDeep
<1>18. D[x] = b
  <2> SUFFICES ASSUME D[x] # b PROVE FALSE
    BY Zenon
  <2> DEFINE c == D[x]
             m == bucket[c].depth
  <2>1. x \in 0 .. 2^g - 1 /\ c \in 0 .. n - 1 /\ c \in 0 .. n /\ c # n
    BY Zenon, <1>3, <1>8, <1>11, <1>16
  <2>2. PICK j \in DOMAIN dir_' : dir_'[j] = c
    BY Zenon, <1>12, <2>1
  <2>3. j # x /\ D[j] = c /\ j \in 0 .. 2^g - 1
    BY Zenon, <1>11, <1>14, <1>16, <2>1, <2>2
  <2>4. x % 2^h \in DOMAIN dir_ /\ j % 2^h \in DOMAIN dir_ /\ dir_[x % 2^h] = c /\ dir_[j % 2^h] = c
    BY Zenon, <1>4, <2>1, <2>3
  <2>5. bucket[c] \in Bucket /\ m <= h
    BY Zenon, <2>4, SlotBucket DEF h
  <2>6. m \in Nat /\ bucket'[c] = bucket[c]
    BY Zenon, <1>10, <2>1, <2>5, BucketFields
  <2> HIDE DEF c, m
  <2>7. (j % 2^h) % 2^m = (x % 2^h) % 2^m
    <3> DEFINE u == j % 2^h
               w == x % 2^h
    <3>1. u \in DOMAIN dir_ /\ w \in DOMAIN dir_ /\ dir_[u] = c /\ dir_[w] = c
      BY Zenon, <2>4
    <3> HIDE DEF u, w
    <3>2. dir_[u] = dir_[w] <=> u % 2^bucket[dir_[u]].depth = w % 2^bucket[dir_[u]].depth
      BY Zenon, <3>1 DEF SlotsAgree
    <3>3. u % 2^m = w % 2^m
      BY Zenon, <3>1, <3>2 DEF m
    <3> QED BY Zenon, <3>3 DEF u, w
  <2>8. x \in Int /\ j \in Int
    BY <2>1, <2>3
  <2>9. (j % 2^h) % 2^m = j % 2^m /\ (x % 2^h) % 2^m = x % 2^m
    BY Zenon, <1>1, <2>5, <2>6, <2>8, LowBits
  <2>10. bucket'[dir_'[j]].depth = m
    BY Zenon, <2>2, <2>6 DEF m
  <2>11. dir_'[j] = dir_'[x]
    <3>1. j % 2^m = x % 2^m /\ x \in DOMAIN dir_'
      BY Zenon, <1>14, <1>16, <2>7, <2>9
    <3>2. dir_'[j] = dir_'[x] <=> j % 2^bucket'[dir_'[j]].depth = x % 2^bucket'[dir_'[j]].depth
      BY Zenon, <1>13, <3>1
    <3> QED BY Zenon, <2>10, <3>1, <3>2
  <2> QED BY Zenon, <1>14, <1>16, <2>1, <2>2, <2>11 DEF c
<1>19. bucket'[n].depth = global_depth_'
  BY Zenon, <1>2, <1>7, <1>9, <1>17
<1>20. dir_[x % 2^h] = b /\ bucket'[b].depth # bucket[b].depth
  <2>1. d + 1 # d
    BY <1>6
  <2>2. x % 2^h \in DOMAIN dir_ /\ D[x] = dir_[x % 2^h]
    BY Zenon, <1>4, <1>11, <1>16
  <2> QED BY Zenon, <1>7, <1>9, <1>18, <2>1, <2>2 DEF d
<1>21. /\ x \in DOMAIN dir_' /\ dir_'[x] = n
       /\ bucket'[dir_[x % 2^h]].depth # bucket[dir_[x % 2^h]].depth
  BY Zenon, <1>14, <1>16, <1>20
<1> QED BY Zenon, <1>19, <1>21 DEF OneSlotServes, n, h

LEMMA NeededStep ==
  TableInv /\ SlotsAgree /\ TableInv' /\ SlotsAgree' /\ [Next]_vars => [OneSlotServes]_vars
<1> SUFFICES ASSUME TableInv, SlotsAgree, TableInv', SlotsAgree', Next
             PROVE  OneSlotServes
  BY Zenon
<1>1. CASE num_buckets_' = num_buckets_
  BY Zenon, <1>1 DEF OneSlotServes
<1>2. CASE \E k \in Keys, v \in Values : InsertInternal(k, v)
  <2>1. PICK k \in Keys, v \in Values : InsertInternal(k, v)
    BY Zenon, <1>2
  <2>2. CASE Place(k, v)
    <3>1. num_buckets_' = num_buckets_
      BY Zenon, <2>2 DEF Place
    <3> QED BY Zenon, <1>1, <3>1
  <2>3. CASE SplitOrThrow(k, v)
    <3> DEFINE i == IndexOf(k)
    <3>1. i \in DOMAIN dir_ /\ RedistributeBucket(i)
      BY Zenon, <2>3, IndexIn DEF SplitOrThrow
    <3> HIDE DEF i
    <3> QED BY Zenon, <3>1, ServesNeeded
  <2> QED BY Zenon, <2>1, <2>2, <2>3 DEF InsertInternal
<1>3. ASSUME NEW k \in Keys, Find(k) \/ Remove(k) PROVE OneSlotServes
  <2>1. num_buckets_' = num_buckets_
    BY Zenon, <1>3 DEF Find, Remove
  <2> QED BY Zenon, <1>1, <2>1
<1>4. CASE InsertRetry
  <2>1. inserting \in Pair
    BY Zenon, <1>4 DEF InsertRetry, TableInv, TypeOK
  <2>2. inserting.key \in Keys /\ inserting.value \in Values
    BY Zenon, <2>1 DEF Pair
  <2> QED BY Zenon, <1>2, <1>4, <2>2 DEF InsertRetry
<1> QED BY Zenon, <1>2, <1>3, <1>4 DEF Next, Insert

(***************************************************************************)
(* The condition is exact: a history of calls keeps the directory of       *)
(* extendible hashing if, and only if, each of its splits is one that the  *)
(* single slot RedistributeBucket redirects can serve.                     *)
(***************************************************************************)
THEOREM OneSlotExact == Spec => ([]DirectoryIntegrity <=> [][OneSlotServes]_vars)
<1>1. Init => TableInv
  BY Zenon, TableStart
<1>2. TableInv /\ [Next]_vars => TableInv'
  BY Zenon, TableStep
<1>3. DirectoryIntegrity => SlotsAgree
  BY Zenon, IntegrityAgrees
<1>4. TableInv /\ SlotsAgree /\ TableInv' /\ SlotsAgree' /\ [Next]_vars => [OneSlotServes]_vars
  BY Zenon, NeededStep
<1>5. Spec /\ [][OneSlotServes]_vars => []DirectoryIntegrity
  BY DirectoryCorrect
<1> QED BY <1>1, <1>2, <1>3, <1>4, <1>5, PTL DEF Spec

=============================================================================
