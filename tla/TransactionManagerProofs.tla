----------------------- MODULE TransactionManagerProofs -----------------------
(***************************************************************************)
(* Transactions on a table heap for every number of transactions, pages,   *)
(* tuples and write records.                                               *)
(*                                                                         *)
(* Most of the module is about values and none of that about behaviours.   *)
(* The first part is about rows: a function from rids to slots, the write  *)
(* records, phases and locks of the transactions, and the history of what  *)
(* was committed.  Owned says why no assertion can fail and Kept why       *)
(* commit and abort are atomic; the lemmas say which changes keep them.    *)
(* The second part is about the slotted pages the rows lie in, and what    *)
(* each operation does to the slots and to the free space of a page.  The  *)
(* free space contains a sum over the slots, and facts about the sum are   *)
(* proved by taking a smallest set of slots that contradicts them.  The    *)
(* third part joins the two: setting one slot of one page sets one row.    *)
(*                                                                         *)
(* The last part is about behaviours.  The invariants are written over     *)
(* explicit arguments, so that a step of the transactions is a change of   *)
(* arguments, and the lemmas before say that such a change keeps them.     *)
(***************************************************************************)
EXTENDS TransactionManager, FiniteSetTheorems, WellFoundedInduction, TLAPS

(* The write records of a transaction; an update's has the old tuple. *)
WriteRecord ==
  {rec \in [rid : Nat \X Nat, wtype : {"INSERT", "DELETE", "UPDATE"}, tuple : Tuples \cup {NoTuple}] :
     rec.tuple # NoTuple <=> rec.wtype = "UPDATE"}

(* The rows that the records w name, and those of them with a DELETE record. *)
Foot(w) == {w[i].rid : i \in DOMAIN w}
Marked(w) == {w[i].rid : i \in {j \in DOMAIN w : w[j].wtype = "DELETE"}}
(* The rows whose end still depends on the records: once a transaction is    *)
(* committing only its deletes do.                                           *)
Live(w, p) == IF p = "committing" THEN Marked(w) ELSE Foot(w)
(* What the history com says was committed in row r. *)
Com(com, r) == IF r \in DOMAIN com THEN com[r] ELSE NoTuple

(* Of one row an insert comes first and a delete last. *)
Ordered(w) ==
  \A i, j \in DOMAIN w :
    i < j /\ w[i].rid = w[j].rid => w[i].wtype # "DELETE" /\ w[j].wtype # "INSERT"

(* The rows that depend on the records hold a tuple, marked if there is a    *)
(* DELETE record.                                                            *)
InUse(row, w, p) ==
  \A r \in Live(w, p) : /\ r \in DOMAIN row /\ row[r].tuple # NoTuple
                        /\ row[r].deleted <=> r \in Marked(w)

(* No row depends on two transactions. *)
Apart(ws, pcs) == \A t, u \in Txns : t # u => Live(ws[t], pcs[t]) \cap Live(ws[u], pcs[u]) = {}

(* Why the assertions hold: the rows of the records are in use, each by one  *)
(* transaction, which has locked them.                                       *)
Owned(row, ws, pcs, lk) ==
  /\ \A t \in Txns : Ordered(ws[t]) /\ InUse(row, ws[t], pcs[t]) /\ Foot(ws[t]) \subseteq lk[t]
  /\ Apart(ws, pcs)

(* Record i is the oldest of its row. *)
First(w, i) == \A j \in 1 .. i - 1 : w[j].rid # w[i].rid

(* What undoing the record leaves in its row. *)
Image(row, rec) == IF rec.wtype = "DELETE" THEN row[rec.rid].tuple ELSE rec.tuple

(* Undoing the oldest record of a row restores what was committed. *)
OldImages(row, com, w) ==
  \A i \in DOMAIN w : First(w, i) => Com(com, w[i].rid) = Image(row, w[i])

(* Why commit and abort are atomic: the deletes that remain of a committing  *)
(* transaction are committed, the oldest records of the others remember what *)
(* was committed, and a row that depends on no transaction is as committed.  *)
Kept(row, ws, pcs, com) ==
  /\ \A t \in Txns : IF pcs[t] = "committing" THEN \A r \in Marked(ws[t]) : Com(com, r) = NoTuple
                     ELSE OldImages(row, com, ws[t])
  /\ \A r \in DOMAIN row : (\A t \in Txns : r \notin Live(ws[t], pcs[t])) =>
       row[r] = [tuple |-> Com(com, r), deleted |-> FALSE]

(* The records w are v with rec at the end. *)
Grown(v, rec, w) ==
  /\ v \in Seq(WriteRecord) /\ w \in Seq(WriteRecord) /\ rec \in WriteRecord
  /\ Len(w) = Len(v) + 1 /\ w[Len(w)] = rec
  /\ \A i \in 1 .. Len(v) : w[i] = v[i]

(* Append and Front relate the records in this way. *)
LEMMA AppendGrows ==
  ASSUME NEW v \in Seq(WriteRecord), NEW rec \in WriteRecord
  PROVE  Grown(v, rec, Append(v, rec))
BY DEF Grown

(* The records but the last are those of v. *)
LEMMA GrownDomain ==
  ASSUME NEW v, NEW rec, NEW w, Grown(v, rec, w)
  PROVE  /\ DOMAIN v = 1 .. Len(v) /\ DOMAIN w = DOMAIN v \cup {Len(v) + 1} /\ Len(v) \in Nat
         /\ w[Len(v) + 1] = rec /\ \A i \in DOMAIN v : w[i] = v[i]
         /\ Len(v) + 1 \notin DOMAIN v
BY DEF Grown

(* The rows of the records when one is added or taken. *)
LEMMA GrownSets ==
  ASSUME NEW v, NEW rec, NEW w, Grown(v, rec, w)
  PROVE  /\ Foot(w) = Foot(v) \cup {rec.rid}
         /\ rec.wtype = "DELETE" => Marked(w) = Marked(v) \cup {rec.rid}
         /\ rec.wtype # "DELETE" => Marked(w) = Marked(v)
         /\ Marked(v) \subseteq Foot(v)
<1>0. /\ DOMAIN v = 1 .. Len(v) /\ DOMAIN w = DOMAIN v \cup {Len(v) + 1} /\ Len(v) \in Nat
      /\ w[Len(v) + 1] = rec /\ \A i \in DOMAIN v : w[i] = v[i]
      /\ Len(v) + 1 \notin DOMAIN v
  BY GrownDomain, Zenon
<1> DEFINE n == Len(v) + 1
<1>1. /\ DOMAIN w = DOMAIN v \cup {n} /\ w[n] = rec
      /\ \A i \in DOMAIN v : w[i] = v[i]
  BY Zenon, <1>0
<1> HIDE DEF n
<1>2. Foot(w) = Foot(v) \cup {rec.rid}
  BY <1>1 DEF Foot
<1>3. rec.wtype = "DELETE" => Marked(w) = Marked(v) \cup {rec.rid}
  BY <1>1 DEF Marked
<1>4. rec.wtype # "DELETE" => Marked(w) = Marked(v)
  BY Zenon, <1>1 DEF Marked
<1>5. Marked(v) \subseteq Foot(v)
  BY Zenon DEF Marked, Foot
<1> QED BY Zenon, <1>2, <1>3, <1>4, <1>5

(* When a record may be added. *)
LEMMA GrownOrder ==
  ASSUME NEW v, NEW rec, NEW w, Grown(v, rec, w)
  PROVE  Ordered(w) <=> /\ Ordered(v) /\ rec.rid \notin Marked(v)
                        /\ rec.wtype = "INSERT" => rec.rid \notin Foot(v)
<1>0. /\ DOMAIN v = 1 .. Len(v) /\ DOMAIN w = DOMAIN v \cup {Len(v) + 1} /\ Len(v) \in Nat
      /\ w[Len(v) + 1] = rec /\ \A i \in DOMAIN v : w[i] = v[i]
      /\ Len(v) + 1 \notin DOMAIN v
  BY GrownDomain, Zenon
<1> DEFINE n == Len(v) + 1
<1>1. /\ DOMAIN v = 1 .. Len(v) /\ DOMAIN w = DOMAIN v \cup {n} /\ Len(v) \in Nat
      /\ w[n] = rec /\ \A i \in DOMAIN v : w[i] = v[i]
  BY Zenon, <1>0
<1>2. \A i \in DOMAIN v : i < n /\ ~(n < i)
  BY <1>1
<1>3. ~(n < n)
  BY <1>1
<1> HIDE DEF n
<1>4. ASSUME Ordered(w)
      PROVE  /\ Ordered(v) /\ rec.rid \notin Marked(v)
             /\ rec.wtype = "INSERT" => rec.rid \notin Foot(v)
  BY Zenon, <1>1, <1>2, <1>4 DEF Ordered, Marked, Foot
<1>5. ASSUME Ordered(v), rec.rid \notin Marked(v),
             rec.wtype = "INSERT" => rec.rid \notin Foot(v),
             NEW i \in DOMAIN w, NEW j \in DOMAIN w, i < j, w[i].rid = w[j].rid
      PROVE  w[i].wtype # "DELETE" /\ w[j].wtype # "INSERT"
  <2>1. i \in DOMAIN v
    BY Zenon, <1>1, <1>2, <1>3, <1>5
  <2>2. CASE j = n
    BY Zenon, <2>1, <2>2, <1>1, <1>5 DEF Marked, Foot
  <2>3. CASE j \in DOMAIN v
    BY Zenon, <2>1, <2>3, <1>1, <1>5 DEF Ordered
  <2> QED BY Zenon, <2>2, <2>3, <1>1
<1> QED BY Zenon, <1>4, <1>5 DEF Ordered

(* What adding a record asks of the committed rows. *)
LEMMA GrownImages ==
  ASSUME NEW v, NEW rec, NEW w, Grown(v, rec, w), NEW row, NEW com
  PROVE  OldImages(row, com, w) <=>
           /\ OldImages(row, com, v)
           /\ rec.rid \notin Foot(v) => Com(com, rec.rid) = Image(row, rec)
<1>0. /\ DOMAIN v = 1 .. Len(v) /\ DOMAIN w = DOMAIN v \cup {Len(v) + 1} /\ Len(v) \in Nat
      /\ w[Len(v) + 1] = rec /\ \A i \in DOMAIN v : w[i] = v[i]
      /\ Len(v) + 1 \notin DOMAIN v
  BY GrownDomain, Zenon
<1> DEFINE n == Len(v) + 1
<1>1. /\ DOMAIN v = 1 .. Len(v) /\ DOMAIN w = DOMAIN v \cup {n} /\ Len(v) \in Nat
      /\ w[n] = rec /\ \A i \in DOMAIN v : w[i] = v[i]
  BY Zenon, <1>0
<1>2. \A i \in DOMAIN v : First(w, i) <=> First(v, i)
  <2>1. \A i \in DOMAIN v : \A j \in 1 .. i - 1 : j \in DOMAIN v
    BY <1>1
  <2> QED BY Zenon, <1>1, <2>1 DEF First
<1>3. First(w, n) <=> rec.rid \notin Foot(v)
  <2>1. 1 .. n - 1 = DOMAIN v
    BY <1>1
  <2> HIDE DEF n
  <2> QED BY Zenon, <1>1, <2>1 DEF First, Foot
<1> HIDE DEF n
<1> QED BY Zenon, <1>1, <1>2, <1>3 DEF OldImages

(* A running transaction adds a write record to its row r. *)
(* Transaction t adds the record rec, which makes its records w, and the row *)
(* of rec takes its new content.                                             *)
Writes(row, row2, ws, ws2, pcs, t, rec, w) ==
  /\ ws \in [Txns -> Seq(WriteRecord)] /\ pcs[t] # "committing"
  /\ Grown(ws[t], rec, w) /\ ws2 = [ws EXCEPT ![t] = w]
  /\ \A u \in Txns \ {t} : rec.rid \notin Live(ws[u], pcs[u])
  /\ rec.rid \notin Marked(ws[t]) /\ (rec.wtype = "INSERT" => rec.rid \notin Foot(ws[t]))
  /\ DOMAIN row2 = DOMAIN row \cup {rec.rid}
  /\ \A q \in DOMAIN row \ {rec.rid} : row2[q] = row[q]
  /\ row2[rec.rid].tuple # NoTuple /\ (row2[rec.rid].deleted <=> rec.wtype = "DELETE")

(* Transaction t has taken its last record rec, which leaves v. *)
Pops(row, row2, ws, ws2, pcs, t, rec, v) ==
  /\ ws \in [Txns -> Seq(WriteRecord)]
  /\ Grown(v, rec, ws[t]) /\ ws2 = [ws EXCEPT ![t] = v]
  /\ DOMAIN row2 = DOMAIN row
  /\ \A q \in DOMAIN row \ {rec.rid} : row2[q] = row[q]
  /\ pcs[t] = "committing" /\ rec.wtype # "DELETE" => row2 = row
  /\ pcs[t] # "committing" /\ rec.rid \in Foot(v) =>
       row2[rec.rid].tuple # NoTuple /\ ~row2[rec.rid].deleted

(* Transaction t locks the row r as well. *)
LocksGrow(lk, lk2, t, r) == (\A u \in Txns \ {t} : lk2[u] = lk[u]) /\ lk[t] \cup {r} \subseteq lk2[t]

(* The first record of a row remembers what is committed of it. *)
Remembers(row2, ws, com, t, rec) ==
  rec.rid \notin Foot(ws[t]) => Com(com, rec.rid) = Image(row2, rec)

(* A row that leaves the records of t is as committed. *)
Restores(row2, pcs, com, t, rec, v) ==
  (pcs[t] = "committing" /\ rec.wtype = "DELETE") \/ (pcs[t] # "committing" /\ rec.rid \notin Foot(v)) =>
    row2[rec.rid] = [tuple |-> Com(com, rec.rid), deleted |-> FALSE]

(* A change of a row that nobody else depends on keeps the rows apart. *)
LEMMA WriteOwned ==
  ASSUME NEW row, NEW row2, NEW ws, NEW ws2, NEW pcs, NEW lk, NEW lk2, NEW t \in Txns, NEW rec, NEW w,
         Owned(row, ws, pcs, lk), Writes(row, row2, ws, ws2, pcs, t, rec, w),
         LocksGrow(lk, lk2, t, rec.rid)
  PROVE  Owned(row2, ws2, pcs, lk2)
<1>0. /\ ws \in [Txns -> Seq(WriteRecord)] /\ pcs[t] # "committing"
      /\ Grown(ws[t], rec, w) /\ ws2 = [ws EXCEPT ![t] = w]
      /\ \A u \in Txns \ {t} : rec.rid \notin Live(ws[u], pcs[u])
      /\ rec.rid \notin Marked(ws[t]) /\ (rec.wtype = "INSERT" => rec.rid \notin Foot(ws[t]))
      /\ DOMAIN row2 = DOMAIN row \cup {rec.rid}
      /\ \A q \in DOMAIN row \ {rec.rid} : row2[q] = row[q]
      /\ row2[rec.rid].tuple # NoTuple /\ (row2[rec.rid].deleted <=> rec.wtype = "DELETE")
      /\ (\A u \in Txns \ {t} : lk2[u] = lk[u]) /\ lk[t] \cup {rec.rid} \subseteq lk2[t]
  BY Zenon DEF Writes, LocksGrow
<1> USE <1>0
<1> DEFINE r == rec.rid
<1>1. ws2[t] = w /\ \A u \in Txns \ {t} : ws2[u] = ws[u]
  BY Zenon
<1>2. /\ Foot(w) = Foot(ws[t]) \cup {r}
      /\ rec.wtype = "DELETE" => Marked(w) = Marked(ws[t]) \cup {r}
      /\ rec.wtype # "DELETE" => Marked(w) = Marked(ws[t])
      /\ Marked(ws[t]) \subseteq Foot(ws[t])
  BY Zenon, GrownSets
<1>3. Ordered(w)
  <2>1. Ordered(ws[t])
    BY Zenon DEF Owned
  <2> QED BY Zenon, <2>1, GrownOrder
<1>4. Live(w, pcs[t]) = Live(ws[t], pcs[t]) \cup {r} /\ Live(ws[t], pcs[t]) = Foot(ws[t])
  BY Zenon, <1>2 DEF Live
<1>5. \A u \in Txns : InUse(row, ws[u], pcs[u])
  BY Zenon DEF Owned
<1> HIDE DEF r
<1>6. InUse(row2, w, pcs[t])
  <2> SUFFICES ASSUME NEW q \in Live(w, pcs[t])
               PROVE  /\ q \in DOMAIN row2 /\ row2[q].tuple # NoTuple
                      /\ row2[q].deleted <=> q \in Marked(w)
    BY Zenon DEF InUse
  <2>1. CASE q = r
    BY Zenon, <2>1, <1>2 DEF r
  <2>2. CASE q # r
    <3>1. q \in Live(ws[t], pcs[t])
      BY Zenon, <2>2, <1>4
    <3>2. /\ q \in DOMAIN row /\ row[q].tuple # NoTuple
          /\ row[q].deleted <=> q \in Marked(ws[t])
      BY Zenon, <3>1, <1>5 DEF InUse
    <3>3. q \in DOMAIN row2 /\ row2[q] = row[q]
      BY Zenon, <3>2, <2>2 DEF r
    <3>4. q \in Marked(w) <=> q \in Marked(ws[t])
      BY Zenon, <1>2, <2>2
    <3> QED BY Zenon, <3>2, <3>3, <3>4
  <2> QED BY Zenon, <2>1, <2>2
<1>7. ASSUME NEW u \in Txns \ {t}
      PROVE  InUse(row2, ws[u], pcs[u])
  <2>1. r \notin Live(ws[u], pcs[u])
    BY Zenon DEF r
  <2>2. \A q \in Live(ws[u], pcs[u]) : /\ q \in DOMAIN row /\ row[q].tuple # NoTuple
                                       /\ row[q].deleted <=> q \in Marked(ws[u])
    BY Zenon, <1>5 DEF InUse
  <2>3. \A q \in Live(ws[u], pcs[u]) : q \in DOMAIN row2 /\ row2[q] = row[q]
    BY Zenon, <2>1, <2>2 DEF r
  <2> QED BY Zenon, <2>2, <2>3 DEF InUse
<1>8. Apart(ws2, pcs)
  <2>1. \A u \in Txns : u # t => Live(w, pcs[t]) \cap Live(ws[u], pcs[u]) = {}
    <3>1. \A u \in Txns : u # t => Live(ws[t], pcs[t]) \cap Live(ws[u], pcs[u]) = {}
      BY Zenon DEF Owned, Apart
    <3> QED BY <3>1, <1>4 DEF r
  <2> QED BY Zenon, <2>1, <1>1 DEF Owned, Apart
<1>9. \A u \in Txns : Foot(ws2[u]) \subseteq lk2[u]
  <2>1. \A u \in Txns : Foot(ws[u]) \subseteq lk[u]
    BY Zenon DEF Owned
  <2>2. Foot(w) \subseteq lk2[t]
    BY Zenon, <2>1, <1>2 DEF r
  <2> QED BY Zenon, <2>1, <2>2, <1>1
<1>10. \A u \in Txns : Ordered(ws2[u]) /\ InUse(row2, ws2[u], pcs[u])
  <2>1. \A u \in Txns : Ordered(ws[u])
    BY Zenon DEF Owned
  <2> QED BY Zenon, <2>1, <1>1, <1>3, <1>6, <1>7
<1> QED BY Zenon, <1>8, <1>9, <1>10 DEF Owned

(* A change of a row keeps its committed content in the oldest record. *)
LEMMA WriteKept ==
  ASSUME NEW row, NEW row2, NEW ws, NEW ws2, NEW pcs, NEW lk, NEW com, NEW t \in Txns, NEW rec, NEW w,
         Owned(row, ws, pcs, lk), Kept(row, ws, pcs, com), Writes(row, row2, ws, ws2, pcs, t, rec, w),
         Remembers(row2, ws, com, t, rec)
  PROVE  Kept(row2, ws2, pcs, com)
<1>0. /\ ws \in [Txns -> Seq(WriteRecord)] /\ pcs[t] # "committing"
      /\ Grown(ws[t], rec, w) /\ ws2 = [ws EXCEPT ![t] = w]
      /\ \A u \in Txns \ {t} : rec.rid \notin Live(ws[u], pcs[u])
      /\ rec.rid \notin Marked(ws[t]) /\ (rec.wtype = "INSERT" => rec.rid \notin Foot(ws[t]))
      /\ DOMAIN row2 = DOMAIN row \cup {rec.rid}
      /\ \A q \in DOMAIN row \ {rec.rid} : row2[q] = row[q]
      /\ row2[rec.rid].tuple # NoTuple /\ (row2[rec.rid].deleted <=> rec.wtype = "DELETE")
      /\ rec.rid \notin Foot(ws[t]) => Com(com, rec.rid) = Image(row2, rec)
  BY Zenon DEF Writes, Remembers
<1> USE <1>0
<1> DEFINE r == rec.rid
<1>1. ws2[t] = w /\ \A u \in Txns \ {t} : ws2[u] = ws[u]
  BY Zenon
<1>2. Foot(w) = Foot(ws[t]) \cup {r} /\ Marked(ws[t]) \subseteq Foot(ws[t])
  BY GrownSets
<1>3. ASSUME NEW u \in Txns, pcs[u] # "committing"
      PROVE  OldImages(row2, com, ws[u])
  <2>1. OldImages(row, com, ws[u])
    BY Zenon, <1>3 DEF Kept
  <2>2. ASSUME NEW i \in DOMAIN ws[u], ws[u][i].wtype = "DELETE"
        PROVE  row2[ws[u][i].rid] = row[ws[u][i].rid]
    <3>1. ws[u][i].rid \in Marked(ws[u]) /\ ws[u][i].rid \in Live(ws[u], pcs[u])
      BY Zenon, <2>2, <1>3 DEF Marked, Live, Foot
    <3>2. ws[u][i].rid \in DOMAIN row
      BY Zenon, <3>1 DEF Owned, InUse
    <3>3. ws[u][i].rid # r
      BY Zenon, <3>1
    <3> QED BY Zenon, <3>2, <3>3
  <2>3. \A i \in DOMAIN ws[u] : Image(row2, ws[u][i]) = Image(row, ws[u][i])
    BY Zenon, <2>2 DEF Image
  <2> QED BY Zenon, <2>1, <2>3 DEF OldImages
<1>4. OldImages(row2, com, w)
  BY <1>3, GrownImages
<1>5. ASSUME NEW u \in Txns
      PROVE  IF pcs[u] = "committing" THEN \A q \in Marked(ws2[u]) : Com(com, q) = NoTuple
             ELSE OldImages(row2, com, ws2[u])
  <2>1. CASE u = t
    BY Zenon, <2>1, <1>1, <1>4
  <2>2. CASE u # t
    BY Zenon, <2>2, <1>1, <1>3 DEF Kept
  <2> QED BY Zenon, <2>1, <2>2
<1>6. ASSUME NEW q \in DOMAIN row2, \A u \in Txns : q \notin Live(ws2[u], pcs[u])
      PROVE  row2[q] = [tuple |-> Com(com, q), deleted |-> FALSE]
  <2>1. Live(w, pcs[t]) = Live(ws[t], pcs[t]) \cup {r}
    BY Zenon, <1>2 DEF Live
  <2>2. q # r /\ \A u \in Txns : q \notin Live(ws[u], pcs[u])
    BY Zenon, <2>1, <1>1, <1>6
  <2>3. q \in DOMAIN row /\ row2[q] = row[q]
    BY Zenon, <2>2
  <2> QED BY Zenon, <2>2, <2>3 DEF Kept
<1> QED BY Zenon, <1>5, <1>6 DEF Kept

(* Taking the last record of a transaction that ends keeps the rows apart. *)
LEMMA PopOwned ==
  ASSUME NEW row, NEW row2, NEW ws, NEW ws2, NEW pcs, NEW lk, NEW t \in Txns, NEW rec, NEW v,
         Owned(row, ws, pcs, lk), Pops(row, row2, ws, ws2, pcs, t, rec, v)
  PROVE  Owned(row2, ws2, pcs, lk)
<1>0. /\ ws \in [Txns -> Seq(WriteRecord)]
      /\ Grown(v, rec, ws[t]) /\ ws2 = [ws EXCEPT ![t] = v]
      /\ DOMAIN row2 = DOMAIN row
      /\ \A q \in DOMAIN row \ {rec.rid} : row2[q] = row[q]
      /\ pcs[t] = "committing" /\ rec.wtype # "DELETE" => row2 = row
      /\ pcs[t] # "committing" /\ rec.rid \in Foot(v) =>
           row2[rec.rid].tuple # NoTuple /\ ~row2[rec.rid].deleted
  BY Zenon DEF Pops
<1> USE <1>0
<1> DEFINE r == rec.rid
<1>1. ws2[t] = v /\ \A u \in Txns \ {t} : ws2[u] = ws[u]
  BY Zenon DEF Grown
<1>2. /\ Foot(ws[t]) = Foot(v) \cup {r}
      /\ rec.wtype = "DELETE" => Marked(ws[t]) = Marked(v) \cup {r}
      /\ rec.wtype # "DELETE" => Marked(ws[t]) = Marked(v)
      /\ Marked(v) \subseteq Foot(v)
  BY Zenon, GrownSets
<1>3. Ordered(v) /\ r \notin Marked(v)
  <2>1. Ordered(ws[t])
    BY Zenon DEF Owned
  <2> QED BY Zenon, <2>1, GrownOrder
<1>4. Live(v, pcs[t]) \subseteq Live(ws[t], pcs[t])
  BY Zenon, <1>2 DEF Live
<1>5. \A u \in Txns : InUse(row, ws[u], pcs[u])
  BY Zenon DEF Owned
<1> HIDE DEF r
<1>6. InUse(row2, v, pcs[t])
  <2> SUFFICES ASSUME NEW q \in Live(v, pcs[t])
               PROVE  /\ q \in DOMAIN row2 /\ row2[q].tuple # NoTuple
                      /\ row2[q].deleted <=> q \in Marked(v)
    BY Zenon DEF InUse
  <2>1. /\ q \in DOMAIN row /\ row[q].tuple # NoTuple
        /\ row[q].deleted <=> q \in Marked(ws[t])
    BY Zenon, <1>4, <1>5 DEF InUse
  <2>2. CASE q = r
    <3>1. pcs[t] # "committing" /\ q \in Foot(v)
      BY Zenon, <2>2, <1>3 DEF Live
    <3> QED BY Zenon, <3>1, <2>1, <2>2, <1>3 DEF r
  <2>3. CASE q # r
    <3>1. row2[q] = row[q]
      BY Zenon, <2>1, <2>3 DEF r
    <3>2. q \in Marked(v) <=> q \in Marked(ws[t])
      BY Zenon, <1>2, <2>3
    <3> QED BY Zenon, <2>1, <3>1, <3>2
  <2> QED BY Zenon, <2>2, <2>3
<1>7. ASSUME NEW u \in Txns \ {t}
      PROVE  InUse(row2, ws[u], pcs[u])
  <2>1. CASE row2 = row
    BY Zenon, <2>1, <1>5
  <2>2. CASE row2 # row
    <3>1. r \in Live(ws[t], pcs[t])
      BY Zenon, <2>2, <1>2 DEF Live
    <3>2. r \notin Live(ws[u], pcs[u])
      BY Zenon, <3>1 DEF Owned, Apart
    <3>3. \A q \in Live(ws[u], pcs[u]) : /\ q \in DOMAIN row /\ row[q].tuple # NoTuple
                                         /\ row[q].deleted <=> q \in Marked(ws[u])
      BY Zenon, <1>5 DEF InUse
    <3>4. \A q \in Live(ws[u], pcs[u]) : row2[q] = row[q]
      BY Zenon, <3>2, <3>3 DEF r
    <3> QED BY Zenon, <3>3, <3>4 DEF InUse
  <2> QED BY Zenon, <2>1, <2>2
<1>8. Apart(ws2, pcs)
  <2>1. \A u \in Txns : u # t => Live(v, pcs[t]) \cap Live(ws[u], pcs[u]) = {}
    <3>1. \A u \in Txns : u # t => Live(ws[t], pcs[t]) \cap Live(ws[u], pcs[u]) = {}
      BY Zenon DEF Owned, Apart
    <3> QED BY Zenon, <3>1, <1>4
  <2> QED BY Zenon, <2>1, <1>1 DEF Owned, Apart
<1>9. \A u \in Txns : Ordered(ws2[u]) /\ InUse(row2, ws2[u], pcs[u]) /\ Foot(ws2[u]) \subseteq lk[u]
  <2>1. \A u \in Txns : Ordered(ws[u]) /\ Foot(ws[u]) \subseteq lk[u]
    BY Zenon DEF Owned
  <2>2. Foot(v) \subseteq lk[t]
    BY Zenon, <2>1, <1>2
  <2> QED BY Zenon, <2>1, <2>2, <1>1, <1>3, <1>6, <1>7
<1> QED BY Zenon, <1>8, <1>9 DEF Owned

(* Taking the last record leaves its row to the older records or as          *)
(* committed.                                                                *)
LEMMA PopKept ==
  ASSUME NEW row, NEW row2, NEW ws, NEW ws2, NEW pcs, NEW lk, NEW com, NEW t \in Txns, NEW rec, NEW v,
         Owned(row, ws, pcs, lk), Kept(row, ws, pcs, com), Pops(row, row2, ws, ws2, pcs, t, rec, v),
         Restores(row2, pcs, com, t, rec, v)
  PROVE  Kept(row2, ws2, pcs, com)
<1>0. /\ ws \in [Txns -> Seq(WriteRecord)]
      /\ Grown(v, rec, ws[t]) /\ ws2 = [ws EXCEPT ![t] = v]
      /\ DOMAIN row2 = DOMAIN row
      /\ \A q \in DOMAIN row \ {rec.rid} : row2[q] = row[q]
      /\ pcs[t] = "committing" /\ rec.wtype # "DELETE" => row2 = row
      /\ pcs[t] # "committing" /\ rec.rid \in Foot(v) =>
           row2[rec.rid].tuple # NoTuple /\ ~row2[rec.rid].deleted
      /\ (pcs[t] = "committing" /\ rec.wtype = "DELETE") \/ (pcs[t] # "committing" /\ rec.rid \notin Foot(v)) =>
           row2[rec.rid] = [tuple |-> Com(com, rec.rid), deleted |-> FALSE]
  BY Zenon DEF Pops, Restores
<1> USE <1>0
<1> DEFINE r == rec.rid
<1>1. ws2[t] = v /\ \A u \in Txns \ {t} : ws2[u] = ws[u]
  BY Zenon DEF Grown
<1>2. /\ Foot(ws[t]) = Foot(v) \cup {r}
      /\ rec.wtype = "DELETE" => Marked(ws[t]) = Marked(v) \cup {r}
      /\ rec.wtype # "DELETE" => Marked(ws[t]) = Marked(v)
      /\ Marked(v) \subseteq Foot(v)
  BY Zenon, GrownSets
<1>3. r \notin Marked(v)
  <2>1. Ordered(ws[t])
    BY Zenon DEF Owned
  <2> QED BY Zenon, <2>1, GrownOrder
<1>4. \A u \in Txns : ~(pcs[u] = "committing") => OldImages(row, com, ws[u])
  BY Zenon DEF Kept
<1>5. \A u \in Txns : pcs[u] = "committing" => \A q \in Marked(ws[u]) : Com(com, q) = NoTuple
  BY Zenon DEF Kept
<1> HIDE DEF r
<1>6. ASSUME NEW u \in Txns \ {t}, r \in Live(ws[t], pcs[t])
      PROVE  r \notin Live(ws[u], pcs[u])
  BY Zenon, <1>6 DEF Owned, Apart
<1>7. ASSUME NEW u \in Txns \ {t}, pcs[u] # "committing"
      PROVE  OldImages(row2, com, ws[u])
  <2>1. CASE row2 = row
    BY Zenon, <2>1, <1>4, <1>7
  <2>2. CASE row2 # row
    <3>1. r \in Live(ws[t], pcs[t])
      BY Zenon, <2>2, <1>2 DEF Live
    <3>2. r \notin Live(ws[u], pcs[u])
      BY Zenon, <3>1, <1>6
    <3>3. ASSUME NEW i \in DOMAIN ws[u]
          PROVE  Image(row2, ws[u][i]) = Image(row, ws[u][i])
      <4>1. ws[u][i].rid \in Live(ws[u], pcs[u])
        BY Zenon, <1>7 DEF Live, Foot
      <4>2. ws[u][i].rid \in DOMAIN row /\ ws[u][i].rid # r
        BY Zenon, <4>1, <3>2 DEF Owned, InUse
      <4> QED BY Zenon, <4>2 DEF Image, r
    <3> QED BY Zenon, <3>3, <1>4, <1>7 DEF OldImages
  <2> QED BY Zenon, <2>1, <2>2
<1>8. ASSUME pcs[t] # "committing"
      PROVE  OldImages(row2, com, v)
  <2>1. OldImages(row, com, v)
    BY Zenon, <1>4, <1>8, GrownImages
  <2>2. ASSUME NEW i \in DOMAIN v
        PROVE  Image(row2, v[i]) = Image(row, v[i])
    <3>1. CASE v[i].wtype # "DELETE"
      BY Zenon, <3>1 DEF Image
    <3>2. CASE v[i].wtype = "DELETE"
      <4>1. v[i].rid \in Marked(v)
        BY Zenon, <3>2 DEF Marked
      <4>2. v[i].rid # r /\ v[i].rid \in Live(ws[t], pcs[t])
        BY Zenon, <4>1, <1>2, <1>3, <1>8 DEF Live
      <4>3. v[i].rid \in DOMAIN row
        BY Zenon, <4>2 DEF Owned, InUse
      <4> QED BY Zenon, <4>2, <4>3 DEF Image, r
    <3> QED BY Zenon, <3>1, <3>2
  <2> QED BY Zenon, <2>1, <2>2 DEF OldImages
<1>9. ASSUME NEW u \in Txns
      PROVE  IF pcs[u] = "committing" THEN \A q \in Marked(ws2[u]) : Com(com, q) = NoTuple
             ELSE OldImages(row2, com, ws2[u])
  <2>1. CASE u = t /\ pcs[u] = "committing"
    BY Zenon, <2>1, <1>1, <1>2, <1>5
  <2>2. CASE u = t /\ pcs[u] # "committing"
    BY Zenon, <2>2, <1>1, <1>8
  <2>3. CASE u # t
    BY Zenon, <2>3, <1>1, <1>5, <1>7
  <2> QED BY Zenon, <2>1, <2>2, <2>3
<1>10. ASSUME NEW q \in DOMAIN row2, \A u \in Txns : q \notin Live(ws2[u], pcs[u])
       PROVE  row2[q] = [tuple |-> Com(com, q), deleted |-> FALSE]
  <2>1. \A u \in Txns \ {t} : q \notin Live(ws[u], pcs[u])
    BY Zenon, <1>1, <1>10
  <2>2. q \notin Live(v, pcs[t])
    BY Zenon, <1>1, <1>10
  <2>3. CASE q \notin Live(ws[t], pcs[t])
    <3>1. row[q] = [tuple |-> Com(com, q), deleted |-> FALSE]
      BY Zenon, <2>1, <2>3 DEF Kept
    <3>2. CASE q # r
      BY Zenon, <3>1, <3>2 DEF r
    <3>3. CASE q = r
      <4>1. pcs[t] = "committing" /\ rec.wtype # "DELETE"
        BY Zenon, <2>3, <3>3, <1>2 DEF Live
      <4> QED BY Zenon, <3>1, <4>1
    <3> QED BY Zenon, <3>2, <3>3
  <2>4. CASE q \in Live(ws[t], pcs[t])
    <3>1. q = r /\ (pcs[t] = "committing" => rec.wtype = "DELETE") /\ (pcs[t] # "committing" => r \notin Foot(v))
      BY Zenon, <2>2, <2>4, <1>2 DEF Live
    <3> QED BY Zenon, <3>1 DEF r
  <2> QED BY Zenon, <2>3, <2>4
<1> QED BY Zenon, <1>9, <1>10 DEF Kept

(* The functions f and g differ at t only. *)
Elsewhere(f, g, t) == \A u \in Txns \ {t} : g[u] = f[u]

(* The history takes from the rows of t what a reader would see. *)
Commits(row, ws, com, com2, t) ==
  \A r \in DOMAIN row : Com(com2, r) = IF r \in Foot(ws[t])
                                THEN IF row[r].deleted THEN NoTuple ELSE row[r].tuple
                                ELSE Com(com, r)

(* At the commit what the transaction leaves visible is committed. *)
LEMMA CommitKept ==
  ASSUME NEW row, NEW ws, NEW pcs, NEW pcs2, NEW lk, NEW com, NEW com2,
         Owned(row, ws, pcs, lk), Kept(row, ws, pcs, com), row \in [DOMAIN row -> Slot],
         NEW t \in Txns, pcs[t] = "running", pcs2[t] = "committing",
         Elsewhere(pcs, pcs2, t), Commits(row, ws, com, com2, t)
  PROVE  Owned(row, ws, pcs2, lk) /\ Kept(row, ws, pcs2, com2)
<1> USE DEF Elsewhere, Commits
<1>0. Marked(ws[t]) \subseteq Foot(ws[t])
  BY Zenon DEF Marked, Foot
<1>1. Live(ws[t], pcs[t]) = Foot(ws[t]) /\ Live(ws[t], pcs2[t]) = Marked(ws[t])
  BY Zenon DEF Live
<1>2. \A u \in Txns \ {t} : Live(ws[u], pcs2[u]) = Live(ws[u], pcs[u])
  BY Zenon
<1>3. \A u \in Txns : Live(ws[u], pcs2[u]) \subseteq Live(ws[u], pcs[u])
  BY Zenon, <1>0, <1>1, <1>2
<1>4. \A u \in Txns : \A r \in Live(ws[u], pcs[u]) :
        /\ r \in DOMAIN row /\ row[r].tuple # NoTuple
        /\ row[r].deleted <=> r \in Marked(ws[u])
  BY Zenon DEF Owned, InUse
<1>5. Owned(row, ws, pcs2, lk)
  <2>1. \A u \in Txns : InUse(row, ws[u], pcs2[u])
    BY Zenon, <1>3, <1>4 DEF InUse
  <2>2. Apart(ws, pcs2)
    BY Zenon, <1>3 DEF Owned, Apart
  <2> QED BY Zenon, <2>1, <2>2 DEF Owned
<1>6. ASSUME NEW u \in Txns \ {t}, NEW r \in Live(ws[u], pcs[u])
      PROVE  Com(com2, r) = Com(com, r)
  <2>1. r \notin Foot(ws[t])
    BY Zenon, <1>1 DEF Owned, Apart
  <2> QED BY Zenon, <2>1, <1>4
<1>7. ASSUME NEW r \in Marked(ws[t])
      PROVE  Com(com2, r) = NoTuple
  <2>1. r \in Live(ws[t], pcs[t])
    BY Zenon, <1>0, <1>1
  <2>2. r \in DOMAIN row /\ row[r].deleted
    BY Zenon, <2>1, <1>4
  <2>3. Com(com2, r) = IF r \in Foot(ws[t]) THEN IF row[r].deleted THEN NoTuple ELSE row[r].tuple ELSE Com(com, r)
    BY Zenon, <2>2
  <2> QED BY Zenon, <2>2, <2>3, <1>0
<1>8. ASSUME NEW u \in Txns
      PROVE  IF pcs2[u] = "committing" THEN \A q \in Marked(ws[u]) : Com(com2, q) = NoTuple
             ELSE OldImages(row, com2, ws[u])
  <2>1. CASE u = t
    BY Zenon, <2>1, <1>7
  <2>2. CASE u # t /\ pcs[u] = "committing"
    <3>1. Live(ws[u], pcs[u]) = Marked(ws[u])
      BY Zenon, <2>2 DEF Live
    <3> QED BY <2>2, <3>1, <1>6 DEF Kept
  <2>3. CASE u # t /\ pcs[u] # "committing"
    <3>1. \A i \in DOMAIN ws[u] : ws[u][i].rid \in Live(ws[u], pcs[u])
      BY Zenon, <2>3 DEF Live, Foot
    <3>2. OldImages(row, com, ws[u])
      BY Zenon, <2>3 DEF Kept
    <3> QED BY Zenon, <2>3, <3>1, <3>2, <1>6 DEF OldImages
  <2> QED BY Zenon, <2>1, <2>2, <2>3
<1>9. ASSUME NEW q \in DOMAIN row, \A u \in Txns : q \notin Live(ws[u], pcs2[u])
      PROVE  row[q] = [tuple |-> Com(com2, q), deleted |-> FALSE]
  <2>0. row[q] \in Slot
    BY Zenon
  <2>1. \A u \in Txns \ {t} : q \notin Live(ws[u], pcs[u])
    BY Zenon, <1>9, <1>2
  <2>2. q \notin Marked(ws[t])
    BY Zenon, <1>9, <1>1
  <2>3. CASE q \in Foot(ws[t])
    <3>1. ~row[q].deleted
      BY Zenon, <2>2, <2>3, <1>1, <1>4
    <3>2. Com(com2, q) = row[q].tuple
      BY Zenon, <2>3, <3>1
    <3> QED BY Zenon, <2>0, <3>1, <3>2 DEF Slot
  <2>4. CASE q \notin Foot(ws[t])
    <3>1. \A u \in Txns : q \notin Live(ws[u], pcs[u])
      BY Zenon, <2>1, <2>4, <1>1
    <3>2. Com(com2, q) = Com(com, q)
      BY Zenon, <2>4
    <3> QED BY Zenon, <3>1, <3>2 DEF Kept
  <2> QED BY Zenon, <2>3, <2>4
<1> QED BY Zenon, <1>5, <1>8, <1>9 DEF Kept

(* A transaction begins, aborts or has ended: no row changes hands. *)
LEMMA PhaseKept ==
  ASSUME NEW row, NEW ws, NEW pcs, NEW pcs2, NEW lk, NEW lk2, NEW com,
         Owned(row, ws, pcs, lk),
         NEW t \in Txns, Elsewhere(pcs, pcs2, t), Elsewhere(lk, lk2, t),
         ws[t] = <<>> \/ (lk2[t] = lk[t] /\ (pcs[t] = "committing" <=> pcs2[t] = "committing"))
  PROVE  Owned(row, ws, pcs2, lk2) /\ (Kept(row, ws, pcs, com) => Kept(row, ws, pcs2, com))
<1> USE DEF Elsewhere
<1>1. ws[t] = <<>> => Foot(ws[t]) = {} /\ Marked(ws[t]) = {} /\ OldImages(row, com, ws[t])
  BY DEF Foot, Marked, OldImages
<1>2. \A u \in Txns : Live(ws[u], pcs2[u]) = Live(ws[u], pcs[u])
  BY Zenon, <1>1 DEF Live
<1>3. Owned(row, ws, pcs2, lk2)
  <2>1. \A u \in Txns : InUse(row, ws[u], pcs2[u])
    BY Zenon, <1>2 DEF Owned, InUse
  <2>2. \A u \in Txns : Foot(ws[u]) \subseteq lk2[u]
    BY Zenon, <1>1 DEF Owned
  <2> QED BY Zenon, <2>1, <2>2, <1>2 DEF Owned, Apart
<1>4. ASSUME Kept(row, ws, pcs, com)
      PROVE  Kept(row, ws, pcs2, com)
  <2>1. \A u \in Txns : IF pcs2[u] = "committing" THEN \A q \in Marked(ws[u]) : Com(com, q) = NoTuple
                        ELSE OldImages(row, com, ws[u])
    BY Zenon, <1>1, <1>4 DEF Kept
  <2> QED BY Zenon, <2>1, <1>2, <1>4 DEF Kept
<1> QED BY Zenon, <1>3, <1>4

-----------------------------------------------------------------------------
(* The rows of a heap h by their rids. *)
RidsOf(h) == UNION {{p} \X DOMAIN h[p] : p \in DOMAIN h}
RowsOf(h) == [r \in RidsOf(h) |-> h[r[1]][r[2]]]

(* A rid is a page and one of its slots. *)
LEMMA RidMade ==
  ASSUME NEW h, NEW r
  PROVE  /\ r \in RidsOf(h) <=> \E p \in DOMAIN h : \E s \in DOMAIN h[p] : r = <<p, s>>
         /\ r \in RidsOf(h) => /\ r = <<r[1], r[2]>>
                               /\ r[1] \in DOMAIN h /\ r[2] \in DOMAIN h[r[1]]
                               /\ RowsOf(h)[r] = h[r[1]][r[2]]
         /\ DOMAIN RowsOf(h) = RidsOf(h)
<1>1. r \in RidsOf(h) <=> \E p \in DOMAIN h : \E s \in DOMAIN h[p] : r = <<p, s>>
  BY DEF RidsOf
<1>2. ASSUME r \in RidsOf(h)
      PROVE  r = <<r[1], r[2]>> /\ r[1] \in DOMAIN h /\ r[2] \in DOMAIN h[r[1]]
  BY <1>1, <1>2
<1> QED BY Zenon, <1>1, <1>2 DEF RowsOf

(* The row of a page and a slot. *)
LEMMA RowOf ==
  ASSUME NEW h, NEW p \in DOMAIN h, NEW s \in DOMAIN h[p]
  PROVE  <<p, s>> \in RidsOf(h) /\ RowsOf(h)[<<p, s>>] = h[p][s]
<1>1. <<p, s>> \in RidsOf(h)
  BY Zenon, RidMade
<1> QED BY <1>1, RidMade

(* From heap h to g only page p changes, to q, and of it only slot s. *)
PageWritten(h, p, s, q, g) ==
  /\ p \in DOMAIN h /\ DOMAIN g = DOMAIN h /\ g[p] = q /\ \A x \in DOMAIN h \ {p} : g[x] = h[x]
  /\ DOMAIN q = DOMAIN h[p] \cup {s} /\ \A k \in DOMAIN h[p] \ {s} : q[k] = h[p][k]

(* From heap h to g only row r changes or is added, and it holds x. *)
RowWritten(h, r, x, g) ==
  /\ RidsOf(g) = RidsOf(h) \cup {r}
  /\ DOMAIN RowsOf(g) = DOMAIN RowsOf(h) \cup {r}
  /\ RowsOf(g)[r] = x
  /\ \A k \in DOMAIN RowsOf(h) \ {r} : RowsOf(g)[k] = RowsOf(h)[k]

(* A page that changes in one slot changes one row. *)
LEMMA RowsSet ==
  ASSUME NEW h, NEW p, NEW s, NEW q, NEW g, PageWritten(h, p, s, q, g)
  PROVE  RowWritten(h, <<p, s>>, q[s], g)
<1>1. /\ p \in DOMAIN h /\ DOMAIN g = DOMAIN h /\ g[p] = q
      /\ \A x \in DOMAIN h \ {p} : g[x] = h[x]
      /\ DOMAIN q = DOMAIN h[p] \cup {s} /\ \A k \in DOMAIN h[p] \ {s} : q[k] = h[p][k]
  BY Zenon DEF PageWritten
<1>2. \A r : r \in RidsOf(g) <=> r \in RidsOf(h) \cup {<<p, s>>}
  <2>1. ASSUME NEW r, r \in RidsOf(g)
        PROVE  r \in RidsOf(h) \cup {<<p, s>>}
    <3>1. PICK x \in DOMAIN g : r \in {x} \X DOMAIN g[x]
      BY Zenon, <2>1 DEF RidsOf
    <3>2. PICK k \in DOMAIN g[x] : r = <<x, k>>
      BY <3>1
    <3>3. CASE x = p /\ k = s
      BY Zenon, <3>2, <3>3
    <3>4. CASE ~(x = p /\ k = s)
      <4>1. x \in DOMAIN h /\ k \in DOMAIN h[x]
        BY Zenon, <3>2, <3>4, <1>1
      <4> QED BY Zenon, <4>1, <3>2, RidMade
    <3> QED BY Zenon, <3>3, <3>4
  <2>2. ASSUME NEW r, r \in RidsOf(h) \cup {<<p, s>>}
        PROVE  r \in RidsOf(g)
    <3>1. CASE r = <<p, s>>
      <4>1. p \in DOMAIN g /\ s \in DOMAIN g[p]
        BY Zenon, <1>1
      <4> QED BY Zenon, <3>1, <4>1, RidMade
    <3>2. CASE r \in RidsOf(h)
      <4>1. PICK x \in DOMAIN h : \E k \in DOMAIN h[x] : r = <<x, k>>
        BY <3>2, RidMade
      <4>2. PICK k \in DOMAIN h[x] : r = <<x, k>>
        BY Zenon, <4>1
      <4>3. x \in DOMAIN g /\ k \in DOMAIN g[x]
        BY Zenon, <4>2, <1>1
      <4> QED BY Zenon, <4>2, <4>3, RidMade
    <3> QED BY Zenon, <2>2, <3>1, <3>2
  <2> QED BY Zenon, <2>1, <2>2
<1>3. RidsOf(g) = RidsOf(h) \cup {<<p, s>>}
  BY Zenon, <1>2
<1>4. RowsOf(g)[<<p, s>>] = q[s]
  <2>1. p \in DOMAIN g /\ s \in DOMAIN g[p]
    BY Zenon, <1>1
  <2>2. RowsOf(g)[<<p, s>>] = g[p][s]
    BY <2>1, RowOf, Zenon
  <2> QED BY Zenon, <2>2, <1>1
<1>5. ASSUME NEW r \in DOMAIN RowsOf(h), r # <<p, s>>
      PROVE  RowsOf(g)[r] = RowsOf(h)[r]
  <2>1. /\ r = <<r[1], r[2]>> /\ r[1] \in DOMAIN h /\ r[2] \in DOMAIN h[r[1]]
        /\ RowsOf(h)[r] = h[r[1]][r[2]]
    BY RidMade
  <2>2. r \in RidsOf(g)
    BY <1>3, RidMade
  <2>3. RowsOf(g)[r] = g[r[1]][r[2]]
    BY Zenon, <2>2, RidMade
  <2>4. ~(r[1] = p /\ r[2] = s)
    BY Zenon, <2>1, <1>5
  <2>5. g[r[1]][r[2]] = h[r[1]][r[2]]
    BY Zenon, <2>1, <2>4, <1>1
  <2> QED BY Zenon, <2>1, <2>3, <2>5
<1> QED BY Zenon, <1>3, <1>4, <1>5, RidMade DEF RowWritten

(* A new page without slots adds no row. *)
LEMMA RowsGrown ==
  ASSUME NEW h, NEW n, NEW g, n \notin DOMAIN h,
         g = [q \in DOMAIN h \cup {n} |-> IF q \in DOMAIN h THEN h[q] ELSE EmptyPage]
  PROVE  RidsOf(g) = RidsOf(h) /\ RowsOf(g) = RowsOf(h)
<1>1. DOMAIN g = DOMAIN h \cup {n} /\ DOMAIN g[n] = {} /\ \A x \in DOMAIN h : g[x] = h[x]
  BY Zenon DEF EmptyPage
<1>2. \A r : r \in RidsOf(g) <=> r \in RidsOf(h)
  <2>1. ASSUME NEW r, r \in RidsOf(g)
        PROVE  r \in RidsOf(h)
    <3>1. PICK x \in DOMAIN g : \E k \in DOMAIN g[x] : r = <<x, k>>
      BY <2>1, RidMade
    <3>2. x \in DOMAIN h /\ g[x] = h[x]
      BY Zenon, <3>1, <1>1
    <3> QED BY Zenon, <3>1, <3>2, RidMade
  <2>2. ASSUME NEW r, r \in RidsOf(h)
        PROVE  r \in RidsOf(g)
    <3>1. PICK x \in DOMAIN h : \E k \in DOMAIN h[x] : r = <<x, k>>
      BY <2>2, RidMade
    <3>2. x \in DOMAIN g /\ g[x] = h[x]
      BY Zenon, <3>1, <1>1
    <3> QED BY Zenon, <3>1, <3>2, RidMade
  <2> QED BY Zenon, <2>1, <2>2
<1>3. RidsOf(g) = RidsOf(h)
  BY Zenon, <1>2
<1>4. \A r \in RidsOf(h) : g[r[1]][r[2]] = h[r[1]][r[2]]
  BY Zenon, <1>1, RidMade
<1> QED BY Zenon, <1>3, <1>4 DEF RowsOf

-----------------------------------------------------------------------------

(* The bytes of the tuples in the slots S of a page: the sum in              *)
(* GetFreeSpaceRemaining.                                                    *)
Bytes(p, S) == MapThenSumSet(LAMBDA s : SizeAt(p, s), S)
Pick(s) == CHOOSE x \in s : TRUE
(* The fold behind the sum chooses a function f with this equation. *)
Iter(p, S, f) == f = [s \in SUBSET S |-> IF s = {} THEN 0 ELSE SizeAt(p, Pick(s)) + f[s \ {Pick(s)}]]

(* The sum is the value at S of the function that the fold chooses. *)
LEMMA BytesDef ==
  ASSUME NEW p, NEW S
  PROVE  Bytes(p, S) = (CHOOSE f : Iter(p, S, f))[S]
BY Zenon DEF Bytes, Iter, MapThenSumSet, MapThenFoldSet, Pick

(* A non-empty set of subsets of a finite set has one that contains no       *)
(* other: the induction principle of this module.                            *)
LEMMA SmallestSubset ==
  ASSUME NEW S, IsFiniteSet(S), NEW B \in SUBSET (SUBSET S), B # {}
  PROVE  \E T \in B : \A U \in B : ~(U \subseteq T /\ U # T)
<1>1. IsWellFoundedOn(StrictSubsetOrdering(S), FiniteSubsetsOf(S))
  BY Zenon, FS_StrictSubsetOrderingWellFounded
<1>2. B \subseteq FiniteSubsetsOf(S)
  BY Zenon, FS_Subset DEF FiniteSubsetsOf
<1>3. \E T \in B : \A U \in B : ~(<<U, T>> \in StrictSubsetOrdering(S))
  BY Zenon, <1>1, <1>2, WFMin
<1> QED BY Zenon, <1>3 DEF StrictSubsetOrdering

(* The element the fold takes first. *)
LEMMA Picked ==
  ASSUME NEW s, s # {}
  PROVE  Pick(s) \in s /\ s \ {Pick(s)} \subseteq s /\ s \ {Pick(s)} # s
BY Zenon DEF Pick

(* The equation of the fold at one set. *)
LEMMA IterAt ==
  ASSUME NEW p, NEW S, NEW f, Iter(p, S, f), NEW s \in SUBSET S
  PROVE  f[s] = IF s = {} THEN 0 ELSE SizeAt(p, Pick(s)) + f[s \ {Pick(s)}]
<1> DEFINE G(h) == [u \in SUBSET S |-> IF u = {} THEN 0 ELSE SizeAt(p, Pick(u)) + h[u \ {Pick(u)}]]
<1>1. f = G(f)
  BY Zenon DEF Iter
<1>2. G(f)[s] = IF s = {} THEN 0 ELSE SizeAt(p, Pick(s)) + f[s \ {Pick(s)}]
  BY Zenon
<1> HIDE DEF G
<1> QED BY Zenon, <1>1, <1>2

(* Two solutions of the equation agree where both are defined. *)
LEMMA IterUnique ==
  ASSUME NEW p, NEW S, NEW T, IsFiniteSet(S), NEW f, NEW g, Iter(p, S, f), Iter(p, T, g), S \subseteq T
  PROVE  \A s \in SUBSET S : f[s] = g[s]
<1> DEFINE B == {s \in SUBSET S : f[s] # g[s]}
<1> SUFFICES ASSUME B # {} PROVE FALSE
  BY Zenon
<1>0. B \in SUBSET (SUBSET S)
  BY Zenon
<1>1. PICK s \in B : \A u \in B : ~(u \subseteq s /\ u # s)
  <2> HIDE DEF B
  <2> QED BY <1>0, SmallestSubset
<1>2. s # {}
  BY Zenon, IterAt
<1>3. s \ {Pick(s)} \in SUBSET S /\ s \ {Pick(s)} \notin B
  BY Zenon, <1>1, <1>2, Picked
<1>4. f[s] = SizeAt(p, Pick(s)) + f[s \ {Pick(s)}] /\ g[s] = SizeAt(p, Pick(s)) + g[s \ {Pick(s)}]
  <2>1. s \in SUBSET S /\ s \in SUBSET T
    BY Zenon
  <2> QED BY <2>1, <1>2, IterAt
<1> QED BY Zenon, <1>3, <1>4

(* The equation has a solution on a finite set. *)
LEMMA IterExists ==
  ASSUME NEW p, NEW S, IsFiniteSet(S)
  PROVE  \E f : Iter(p, S, f)
<1> DEFINE Sol(T) == CHOOSE f : Iter(p, T, f)
           B == {T \in SUBSET S : ~\E f : Iter(p, T, f)}
<1> SUFFICES ASSUME B # {} PROVE FALSE
  BY Zenon
<1>0. B \in SUBSET (SUBSET S)
  BY Zenon
<1>1. PICK T \in B : \A U \in B : ~(U \subseteq T /\ U # T)
  <2> HIDE DEF B
  <2> QED BY <1>0, SmallestSubset
<1>2. \A U \in SUBSET T : U # T => Iter(p, U, Sol(U))
  <2> SUFFICES ASSUME NEW U \in SUBSET T, U # T PROVE Iter(p, U, Sol(U))
    BY Zenon
  <2>1. \E f : Iter(p, U, f)
    BY Zenon, <1>1
  <2> QED BY Zenon, <2>1
<1> DEFINE F == [s \in SUBSET T |-> IF s = {} THEN 0 ELSE SizeAt(p, Pick(s)) + Sol(s \ {Pick(s)})[s \ {Pick(s)}]]
<1>3. \A s \in SUBSET T : s # T => F[s] = Sol(s)[s]
  <2> SUFFICES ASSUME NEW s \in SUBSET T, s # T PROVE F[s] = Sol(s)[s]
    BY Zenon
  <2>1. Iter(p, s, Sol(s))
    BY Zenon, <1>2
  <2> DEFINE u == s \ {Pick(s)}
  <2>2. Sol(s)[s] = IF s = {} THEN 0 ELSE SizeAt(p, Pick(s)) + Sol(s)[u]
    <3>1. ASSUME NEW h, Iter(p, s, h)
          PROVE  h[s] = IF s = {} THEN 0 ELSE SizeAt(p, Pick(s)) + h[u]
      <4>1. s \in SUBSET s
        BY Zenon
      <4> QED BY <3>1, <4>1, IterAt
    <3> HIDE DEF Sol, u
    <3> QED BY Zenon, <2>1, <3>1
  <2>3. CASE s = {}
    <3> HIDE DEF Sol
    <3> QED BY Zenon, <2>2, <2>3
  <2>4. CASE s # {}
    <3>1. u \in SUBSET T /\ u # T /\ u \subseteq s
      BY Zenon, <2>4, Picked
    <3>2. Iter(p, u, Sol(u)) /\ IsFiniteSet(u)
      BY Zenon, <3>1, <1>2, FS_Subset
    <3> HIDE DEF Sol, u
    <3>3. Sol(u)[u] = Sol(s)[u]
      BY <3>1, <3>2, <2>1, IterUnique
    <3>4. F[s] = SizeAt(p, Pick(s)) + Sol(u)[u]
      BY Zenon, <2>4 DEF u
    <3> HIDE DEF F
    <3> QED BY Zenon, <2>2, <2>4, <3>3, <3>4
  <2> QED BY Zenon, <2>3, <2>4
<1>4. Iter(p, T, F)
  <2>1. ASSUME NEW s \in SUBSET T
        PROVE  F[s] = IF s = {} THEN 0 ELSE SizeAt(p, Pick(s)) + F[s \ {Pick(s)}]
    <3>1. CASE s = {}
      BY Zenon, <3>1
    <3>2. CASE s # {}
      <4>1. s \ {Pick(s)} \in SUBSET T /\ s \ {Pick(s)} # T
        BY Zenon, <3>2, Picked
      <4>2. F[s \ {Pick(s)}] = Sol(s \ {Pick(s)})[s \ {Pick(s)}]
        <5> HIDE DEF F, Sol
        <5> QED BY Zenon, <4>1, <1>3
      <4>3. F[s] = SizeAt(p, Pick(s)) + Sol(s \ {Pick(s)})[s \ {Pick(s)}]
        <5> HIDE DEF Sol
        <5> QED BY Zenon, <3>2
      <4> HIDE DEF F, Sol
      <4> QED BY Zenon, <3>2, <4>2, <4>3
    <3> QED BY Zenon, <3>1, <3>2
  <2>2. F = [s \in SUBSET T |-> F[s]]
    <3> HIDE DEF Sol
    <3> QED BY Zenon
  <2> HIDE DEF F
  <2> QED BY Zenon, <2>1, <2>2 DEF Iter
<1> HIDE DEF F, Sol
<1> QED BY Zenon, <1>1, <1>4

(* The sum takes one slot at a time, in the order of the fold. *)
LEMMA BytesRec ==
  ASSUME NEW p, NEW S, IsFiniteSet(S)
  PROVE  Bytes(p, S) = IF S = {} THEN 0 ELSE SizeAt(p, Pick(S)) + Bytes(p, S \ {Pick(S)})
<1> DEFINE f == CHOOSE h : Iter(p, S, h)
           U == S \ {Pick(S)}
           g == CHOOSE h : Iter(p, U, h)
<1>1. Iter(p, S, f)
  BY Zenon, IterExists
<1>2. IsFiniteSet(U) /\ Iter(p, U, g)
  BY Zenon, FS_RemoveElement, IterExists
<1>3. Bytes(p, S) = f[S] /\ Bytes(p, U) = g[U]
  BY Zenon, BytesDef
<1>4. g[U] = f[U]
  <2> HIDE DEF f, g
  <2>1. U \subseteq S /\ U \in SUBSET U
    BY Zenon
  <2> HIDE DEF U
  <2> QED BY <2>1, <1>1, <1>2, IterUnique
<1>5. f[S] = IF S = {} THEN 0 ELSE SizeAt(p, Pick(S)) + f[U]
  <2> HIDE DEF f, g
  <2> QED BY <1>1, IterAt
<1> HIDE DEF f, g, U
<1> QED BY Zenon, <1>3, <1>4, <1>5 DEF U

(* A sum of sizes is a natural number. *)
LEMMA BytesType ==
  ASSUME NEW p, NEW S, IsFiniteSet(S), \A s \in S : SizeAt(p, s) \in Nat
  PROVE  Bytes(p, S) \in Nat
<1> DEFINE B == {T \in SUBSET S : Bytes(p, T) \notin Nat}
<1> SUFFICES ASSUME B # {} PROVE FALSE
  BY Zenon
<1>0. B \in SUBSET (SUBSET S)
  BY Zenon
<1>1. PICK T \in B : \A U \in B : ~(U \subseteq T /\ U # T)
  <2> HIDE DEF B
  <2> QED BY <1>0, SmallestSubset
<1>2. IsFiniteSet(T)
  BY Zenon, FS_Subset
<1>3. T # {}
  <2>1. Bytes(p, {}) = 0
    BY Zenon, FS_EmptySet, BytesRec
  <2> QED BY <2>1
<1>4. Bytes(p, T \ {Pick(T)}) \in Nat /\ Pick(T) \in S
  BY Zenon, <1>1, <1>3, Picked
<1>5. Bytes(p, T) = SizeAt(p, Pick(T)) + Bytes(p, T \ {Pick(T)})
  BY Zenon, <1>2, <1>3, BytesRec
<1> QED BY <1>4, <1>5

(* The order does not matter: any slot can be split off. *)
LEMMA BytesRemove ==
  ASSUME NEW p, NEW S, IsFiniteSet(S), \A s \in S : SizeAt(p, s) \in Nat, NEW x \in S
  PROVE  Bytes(p, S) = SizeAt(p, x) + Bytes(p, S \ {x})
<1> DEFINE Good(T) == \A y \in T : Bytes(p, T) = SizeAt(p, y) + Bytes(p, T \ {y})
           B == {T \in SUBSET S : ~Good(T)}
<1> SUFFICES ASSUME B # {} PROVE FALSE
  BY Zenon
<1>0. B \in SUBSET (SUBSET S)
  BY Zenon
<1>1. PICK T \in B : \A U \in B : ~(U \subseteq T /\ U # T)
  <2> HIDE DEF B
  <2> QED BY <1>0, SmallestSubset
<1>2. PICK y \in T : Bytes(p, T) # SizeAt(p, y) + Bytes(p, T \ {y})
  BY Zenon
<1> DEFINE c == Pick(T)
<1>3. c \in T
  BY Zenon, <1>2, Picked
<1>4. /\ IsFiniteSet(T) /\ IsFiniteSet(T \ {y}) /\ IsFiniteSet(T \ {c})
      /\ IsFiniteSet((T \ {y}) \ {c})
  BY Zenon, FS_Subset
<1>5. Bytes(p, T) = SizeAt(p, c) + Bytes(p, T \ {c})
  BY Zenon, <1>2, <1>4, BytesRec
<1>6. c # y
  BY Zenon, <1>2, <1>5
<1>7. Good(T \ {c}) /\ Good(T \ {y})
  BY <1>1, <1>2, <1>3
<1>8. Bytes(p, T \ {c}) = SizeAt(p, y) + Bytes(p, (T \ {c}) \ {y})
  BY Zenon, <1>7, <1>6
<1>9. Bytes(p, T \ {y}) = SizeAt(p, c) + Bytes(p, (T \ {y}) \ {c})
  BY Zenon, <1>7, <1>6, <1>3
<1>10. (T \ {c}) \ {y} = (T \ {y}) \ {c}
  BY Zenon
<1>11. SizeAt(p, c) \in Nat /\ SizeAt(p, y) \in Nat /\ Bytes(p, (T \ {y}) \ {c}) \in Nat
  <2>1. c \in S /\ y \in S
    BY Zenon, <1>2, <1>3
  <2>2. \A s \in (T \ {y}) \ {c} : SizeAt(p, s) \in Nat
    BY Zenon
  <2> QED BY Zenon, <2>1, <2>2, <1>4, BytesType
<1> HIDE DEF c, B, Good
<1> QED BY <1>2, <1>5, <1>8, <1>9, <1>10, <1>11

(* Slots of the same sizes have the same sum. *)
LEMMA BytesSame ==
  ASSUME NEW p, NEW q, NEW S, IsFiniteSet(S), \A s \in S : SizeAt(p, s) = SizeAt(q, s)
  PROVE  Bytes(p, S) = Bytes(q, S)
<1> DEFINE B == {T \in SUBSET S : Bytes(p, T) # Bytes(q, T)}
<1> SUFFICES ASSUME B # {} PROVE FALSE
  BY Zenon
<1>0. B \in SUBSET (SUBSET S)
  BY Zenon
<1>1. PICK T \in B : \A U \in B : ~(U \subseteq T /\ U # T)
  <2> HIDE DEF B
  <2> QED BY <1>0, SmallestSubset
<1>2. IsFiniteSet(T)
  BY Zenon, FS_Subset
<1>3. T # {}
  BY Zenon, <1>2, BytesRec
<1>4. Bytes(p, T \ {Pick(T)}) = Bytes(q, T \ {Pick(T)}) /\ Pick(T) \in S
  BY Zenon, <1>1, <1>3, Picked
<1>5. /\ Bytes(p, T) = SizeAt(p, Pick(T)) + Bytes(p, T \ {Pick(T)})
      /\ Bytes(q, T) = SizeAt(q, Pick(T)) + Bytes(q, T \ {Pick(T)})
  BY Zenon, <1>2, <1>3, BytesRec
<1> QED BY Zenon, <1>4, <1>5

(* The pages that can exist: slots numbered from 0 without a gap. *)
PageSet == UNION {[0 .. n - 1 -> Slot] : n \in Nat}

(* A page has as many slots as its tuple count says. *)
LEMMA PageShape ==
  ASSUME NEW p \in PageSet
  PROVE  /\ GetTupleCount(p) \in Nat /\ DOMAIN p = 0 .. GetTupleCount(p) - 1
         /\ p \in [DOMAIN p -> Slot] /\ IsFiniteSet(DOMAIN p)
<1>1. PICK n \in Nat : p \in [0 .. n - 1 -> Slot]
  BY Zenon DEF PageSet
<1>2. IsFiniteSet(0 .. n - 1) /\ Cardinality(0 .. n - 1) = n
  BY FS_Interval
<1> QED BY Zenon, <1>1, <1>2 DEF GetTupleCount

(* Any row of slots is a page. *)
LEMMA PageMade ==
  ASSUME NEW n \in Nat, NEW p \in [0 .. n - 1 -> Slot]
  PROVE  p \in PageSet
BY Zenon DEF PageSet

(* Min, which the slot searches use, finds the least element. *)
LEMMA LeastNatural ==
  ASSUME NEW S \in SUBSET Nat, S # {}
  PROVE  Min(S) \in S /\ \A y \in S : Min(S) <= y
<1>1. IsWellFoundedOn(OpToRel(<, Nat), Nat)
  BY Zenon, NatLessThanWellFounded
<1>2. \E x \in S : \A y \in S : ~(<<y, x>> \in OpToRel(<, Nat))
  <2> DEFINE R == OpToRel(<, Nat)
  <2> HIDE DEF R
  <2>1. IsWellFoundedOn(R, Nat)
    BY Zenon, <1>1 DEF R
  <2>2. \E x \in S : \A y \in S : ~(<<y, x>> \in R)
    BY Zenon, <2>1, WFMin
  <2> QED BY Zenon, <2>2 DEF R
<1>3. PICK x \in S : \A y \in S : ~(<<y, x>> \in OpToRel(<, Nat))
  BY Zenon, <1>2
<1>4. ASSUME NEW y \in S
      PROVE  x <= y
  <2>1. <<y, x>> \in Nat \X Nat /\ <<y, x>>[1] = y /\ <<y, x>>[2] = x
    BY Zenon
  <2>2. ~(y < x)
    BY Zenon, <2>1, <1>3 DEF OpToRel
  <2>3. x \in Nat /\ y \in Nat
    BY Zenon
  <2> QED BY <2>2, <2>3
<1> QED BY Zenon, <1>4 DEF Min

(* InsertTuple takes an empty slot of the page or the one after its last. *)
LEMMA SlotChosen ==
  ASSUME NEW p \in PageSet
  PROVE  /\ InsertSlot(p) \in Nat
         /\ \/ InsertSlot(p) \in DOMAIN p /\ p[InsertSlot(p)].tuple = NoTuple
            \/ InsertSlot(p) = GetTupleCount(p) /\ InsertSlot(p) \notin DOMAIN p
<1> DEFINE free == {s \in DOMAIN p : p[s].tuple = NoTuple}
<1>1. GetTupleCount(p) \in Nat /\ DOMAIN p = 0 .. GetTupleCount(p) - 1
  BY Zenon, PageShape
<1>2. CASE free = {}
  BY <1>1, <1>2 DEF InsertSlot
<1>3. CASE free # {}
  <2>1. free \in SUBSET Nat
    BY <1>1
  <2>2. Min(free) \in free
    <3> HIDE DEF free
    <3> QED BY Zenon, <1>3, <2>1, LeastNatural
  <2>3. InsertSlot(p) = Min(free)
    BY Zenon, <1>3 DEF InsertSlot
  <2> QED BY <1>1, <2>2, <2>3
<1> QED BY Zenon, <1>2, <1>3

(* After InsertTuple the slot it took holds the tuple and the others are as  *)
(* before.                                                                   *)
LEMMA Inserted ==
  ASSUME NEW p \in PageSet, NEW t \in Tuples
  PROVE  /\ InsertTuple(p, t) \in PageSet
         /\ DOMAIN InsertTuple(p, t) = DOMAIN p \cup {InsertSlot(p)}
         /\ \A s \in DOMAIN p \cup {InsertSlot(p)} :
              InsertTuple(p, t)[s] = IF s = InsertSlot(p) THEN Holding(t) ELSE p[s]
<1> DEFINE k == InsertSlot(p)
           n == GetTupleCount(p)
           q == InsertTuple(p, t)
<1>1. n \in Nat /\ DOMAIN p = 0 .. n - 1 /\ p \in [DOMAIN p -> Slot]
  BY Zenon, PageShape
<1>2. k \in DOMAIN p \/ k = n
  BY Zenon, SlotChosen
<1>3. Holding(t) \in Slot
  BY Zenon DEF Holding, Slot
<1>4. q = [x \in DOMAIN p \cup {k} |-> IF x = k THEN Holding(t) ELSE p[x]]
  BY Zenon DEF InsertTuple
<1> HIDE DEF k, n, q
<1>5. CASE k \in DOMAIN p
  <2>1. q \in [0 .. n - 1 -> Slot]
    BY Zenon, <1>1, <1>3, <1>4, <1>5
  <2> QED BY Zenon, <1>1, <1>4, <2>1, PageMade DEF k, q
<1>6. CASE k = n
  <2>1. DOMAIN p \cup {k} = 0 .. (n + 1) - 1
    BY <1>1, <1>6
  <2>2. q \in [0 .. (n + 1) - 1 -> Slot] /\ n + 1 \in Nat
    BY <1>1, <1>3, <1>4, <2>1
  <2> QED BY Zenon, <1>4, <2>2, PageMade DEF k, q
<1> QED BY Zenon, <1>2, <1>5, <1>6

(* Setting one slot of a page gives a page. *)
LEMMA SlotSet ==
  ASSUME NEW p \in PageSet, NEW s \in DOMAIN p, NEW x \in Slot
  PROVE  /\ [p EXCEPT ![s] = x] \in PageSet
         /\ DOMAIN [p EXCEPT ![s] = x] = DOMAIN p
         /\ \A k \in DOMAIN p : [p EXCEPT ![s] = x][k] = IF k = s THEN x ELSE p[k]
<1>1. GetTupleCount(p) \in Nat /\ DOMAIN p = 0 .. GetTupleCount(p) - 1 /\ p \in [DOMAIN p -> Slot]
  BY Zenon, PageShape
<1>2. [p EXCEPT ![s] = x] \in [0 .. GetTupleCount(p) - 1 -> Slot]
  BY Zenon, <1>1
<1> QED BY Zenon, <1>1, <1>2, PageMade

(* The page with x in slot s; the record x with another tuple or mark. *)
WithSlot(p, s, x) == [p EXCEPT ![s] = x]

Renamed(x, t) == [tuple |-> t, deleted |-> x.deleted]
Flagged(x, b) == [tuple |-> x.tuple, deleted |-> b]

(* The updates of one field of a slot's record. *)
LEMMA SlotFields ==
  ASSUME NEW x \in Slot, NEW t \in Tuples, NEW b \in BOOLEAN
  PROVE  /\ [x EXCEPT !.deleted = b] = Flagged(x, b) /\ Flagged(x, b) \in Slot
         /\ [x EXCEPT !.tuple = t] = Renamed(x, t) /\ Renamed(x, t) \in Slot
BY DEF Slot, Flagged, Renamed

(* MarkDelete marks one slot of the page, if it can be read. *)
LEMMA MarkSets ==
  ASSUME NEW p \in PageSet, NEW s, Readable(p, s)
  PROVE  /\ MarkDelete(p, s) = WithSlot(p, s, Flagged(p[s], TRUE))
         /\ Flagged(p[s], TRUE) \in Slot
<1>1. p[s] \in Slot /\ p[s].tuple \in Tuples
  BY Zenon, PageShape DEF Readable, Slot
<1>2. [p[s] EXCEPT !.deleted = TRUE] = Flagged(p[s], TRUE) /\ Flagged(p[s], TRUE) \in Slot
  BY <1>1, SlotFields, Zenon
<1>3. MarkDelete(p, s) = [p EXCEPT ![s] = [p[s] EXCEPT !.deleted = TRUE]]
  BY Zenon DEF MarkDelete
<1> QED BY Zenon, <1>2, <1>3 DEF WithSlot

(* RollbackDelete clears the mark of one slot. *)
LEMMA RollbackSets ==
  ASSUME NEW p \in PageSet, NEW s \in DOMAIN p, p[s].tuple # NoTuple
  PROVE  /\ RollbackDelete(p, s) = WithSlot(p, s, Flagged(p[s], FALSE))
         /\ Flagged(p[s], FALSE) \in Slot
<1>1. p[s] \in Slot /\ p[s].tuple \in Tuples
  BY Zenon, PageShape DEF Slot
<1>2. [p[s] EXCEPT !.deleted = FALSE] = Flagged(p[s], FALSE) /\ Flagged(p[s], FALSE) \in Slot
  BY <1>1, SlotFields, Zenon
<1>3. RollbackDelete(p, s) = [p EXCEPT ![s] = [p[s] EXCEPT !.deleted = FALSE]]
  BY Zenon DEF RollbackDelete
<1> QED BY Zenon, <1>2, <1>3 DEF WithSlot

(* An UpdateTuple that succeeds changes the tuple of one slot. *)
LEMMA UpdateSets ==
  ASSUME NEW p \in PageSet, NEW s, NEW t \in Tuples, CanUpdate(p, s, t)
  PROVE  /\ UpdateTuple(p, s, t) = WithSlot(p, s, Renamed(p[s], t))
         /\ Renamed(p[s], t) \in Slot
<1>1. p[s] \in Slot
  BY Zenon, PageShape DEF CanUpdate, Readable
<1>2. [p[s] EXCEPT !.tuple = t] = Renamed(p[s], t) /\ Renamed(p[s], t) \in Slot
  BY Zenon, <1>1, SlotFields
<1>3. UpdateTuple(p, s, t) = [p EXCEPT ![s] = [p[s] EXCEPT !.tuple = t]]
  BY Zenon DEF UpdateTuple
<1> QED BY Zenon, <1>2, <1>3 DEF WithSlot

(* ApplyDelete empties one slot. *)
LEMMA ApplySets ==
  ASSUME NEW p, NEW s
  PROVE  ApplyDelete(p, s) = WithSlot(p, s, Empty) /\ Empty \in Slot
BY Zenon DEF ApplyDelete, WithSlot, Empty, Slot

(* A slot takes some number of bytes. *)
LEMMA SlotBytes ==
  ASSUME NEW p \in PageSet, NEW s \in DOMAIN p
  PROVE  SizeAt(p, s) \in Nat
<1>1. p[s].tuple \in Tuples \cup {NoTuple}
  BY Zenon, PageShape DEF Slot
<1> QED BY Zenon, <1>1, TupleAssumption DEF SizeAt

(* The free space in terms of the sum. *)
LEMMA Space ==
  ASSUME NEW p
  PROVE  GetFreeSpaceRemaining(p) =
           PageSize - SIZE_TABLE_PAGE_HEADER - SIZE_TUPLE * GetTupleCount(p) - Bytes(p, DOMAIN p)
BY Zenon DEF GetFreeSpaceRemaining, Bytes

(* The free space is an integer (that it is not negative is an invariant). *)
LEMMA SpaceType ==
  ASSUME NEW p \in PageSet
  PROVE  GetFreeSpaceRemaining(p) \in Int /\ Bytes(p, DOMAIN p) \in Nat
<1>1. Bytes(p, DOMAIN p) \in Nat
  BY Zenon, PageShape, SlotBytes, BytesType
<1> QED BY <1>1, Space, PageShape, TupleAssumption DEF SIZE_TABLE_PAGE_HEADER, SIZE_TUPLE

(* An empty page has all of its space but the header. *)
LEMMA SpaceEmpty == GetFreeSpaceRemaining(EmptyPage) = PageSize - SIZE_TABLE_PAGE_HEADER /\ EmptyPage \in PageSet
<1>1. DOMAIN EmptyPage = {}
  BY Zenon DEF EmptyPage
<1>2. Bytes(EmptyPage, {}) = 0 /\ GetTupleCount(EmptyPage) = 0
  BY Zenon, <1>1, FS_EmptySet, BytesRec DEF GetTupleCount
<1>3. EmptyPage \in [0 .. 0 - 1 -> Slot]
  <2>1. 0 .. 0 - 1 = {}
    OBVIOUS
  <2> QED BY Zenon, <2>1 DEF EmptyPage
<1>4. EmptyPage \in PageSet
  BY Zenon, <1>3, PageMade
<1>5. GetFreeSpaceRemaining(EmptyPage) =
        PageSize - SIZE_TABLE_PAGE_HEADER - SIZE_TUPLE * GetTupleCount(EmptyPage) - Bytes(EmptyPage, DOMAIN EmptyPage)
  BY Zenon, Space
<1> QED BY <1>1, <1>2, <1>4, <1>5, TupleAssumption DEF SIZE_TABLE_PAGE_HEADER, SIZE_TUPLE

(* When one slot changes, the free space changes by the difference of the    *)
(* sizes.                                                                    *)
LEMMA SpaceSet ==
  ASSUME NEW p \in PageSet, NEW s \in DOMAIN p, NEW q \in PageSet, DOMAIN q = DOMAIN p,
         \A k \in DOMAIN p \ {s} : q[k] = p[k]
  PROVE  GetFreeSpaceRemaining(q) = GetFreeSpaceRemaining(p) + SizeAt(p, s) - SizeAt(q, s)
<1> DEFINE D == DOMAIN p
           R == D \ {s}
<1>1. IsFiniteSet(D) /\ IsFiniteSet(R) /\ GetTupleCount(p) \in Nat
  BY Zenon, PageShape, FS_RemoveElement
<1>2. \A k \in D : SizeAt(p, k) \in Nat /\ SizeAt(q, k) \in Nat
  BY Zenon, SlotBytes
<1>3. Bytes(p, R) = Bytes(q, R)
  <2>1. \A k \in R : SizeAt(p, k) = SizeAt(q, k)
    BY Zenon DEF SizeAt
  <2> HIDE DEF R
  <2> QED BY Zenon, <1>1, <2>1, BytesSame
<1>4. Bytes(p, D) = SizeAt(p, s) + Bytes(p, R) /\ Bytes(q, D) = SizeAt(q, s) + Bytes(q, R)
  <2> HIDE DEF D
  <2>1. s \in D
    BY Zenon DEF D
  <2> QED BY <1>1, <1>2, <2>1, BytesRemove
<1>5. Bytes(p, R) \in Nat
  <2> HIDE DEF D
  <2> QED BY Zenon, <1>1, <1>2, BytesType
<1>6. GetTupleCount(q) = GetTupleCount(p)
  BY Zenon DEF GetTupleCount
<1>7. /\ GetFreeSpaceRemaining(p) = PageSize - SIZE_TABLE_PAGE_HEADER - SIZE_TUPLE * GetTupleCount(p) - Bytes(p, D)
      /\ GetFreeSpaceRemaining(q) = PageSize - SIZE_TABLE_PAGE_HEADER - SIZE_TUPLE * GetTupleCount(p) - Bytes(q, D)
  BY Zenon, <1>6, Space
<1>8. SizeAt(p, s) \in Nat /\ SizeAt(q, s) \in Nat
  BY Zenon, <1>2
<1> HIDE DEF D, R
<1> QED BY <1>1, <1>3, <1>4, <1>5, <1>7, <1>8, TupleAssumption DEF SIZE_TABLE_PAGE_HEADER, SIZE_TUPLE

(* InsertTuple takes the tuple's bytes, and a slot if there was no empty     *)
(* one.                                                                      *)
LEMMA SpaceInserted ==
  ASSUME NEW p \in PageSet, NEW t \in Tuples
  PROVE  GetFreeSpaceRemaining(InsertTuple(p, t)) =
           GetFreeSpaceRemaining(p) - Size[t] - (IF InsertSlot(p) \in DOMAIN p THEN 0 ELSE SIZE_TUPLE)
<1> DEFINE q == InsertTuple(p, t)
           k == InsertSlot(p)
           D == DOMAIN p
<1>1. /\ q \in PageSet /\ DOMAIN q = D \cup {k}
      /\ \A s \in D \cup {k} : q[s] = IF s = k THEN Holding(t) ELSE p[s]
  BY Zenon, Inserted
<1>2. /\ k \in Nat
      /\ \/ k \in D /\ p[k].tuple = NoTuple
         \/ k = GetTupleCount(p) /\ k \notin D
  BY Zenon, SlotChosen
<1>3. SizeAt(q, k) = Size[t] /\ Size[t] \in Nat
  <2>1. q[k] = Holding(t)
    BY Zenon, <1>1
  <2> HIDE DEF q
  <2> QED BY <2>1, TupleAssumption DEF SizeAt, Holding
<1>4. CASE k \in D
  <2>1. SizeAt(p, k) = 0
    BY Zenon, <1>2, <1>4 DEF SizeAt
  <2>2. DOMAIN q = DOMAIN p /\ \A s \in DOMAIN p \ {k} : q[s] = p[s]
    BY Zenon, <1>1, <1>4
  <2>3. GetFreeSpaceRemaining(q) = GetFreeSpaceRemaining(p) + SizeAt(p, k) - SizeAt(q, k)
    <3> HIDE DEF q, k
    <3> QED BY Zenon, <1>1, <1>4, <2>2, SpaceSet
  <2>4. GetFreeSpaceRemaining(p) \in Int
    BY Zenon, SpaceType
  <2> HIDE DEF q, k, D
  <2>5. GetFreeSpaceRemaining(q) = GetFreeSpaceRemaining(p) - Size[t] - 0
    BY <1>3, <2>1, <2>3, <2>4
  <2> QED BY Zenon, <1>4, <2>5 DEF q, k, D
<1>5. CASE k \notin D
  <2>1. IsFiniteSet(D) /\ IsFiniteSet(D \cup {k}) /\ Cardinality(D \cup {k}) = Cardinality(D) + 1
    <3> HIDE DEF k
    <3> QED BY Zenon, <1>5, PageShape, FS_AddElement
  <2>2. GetTupleCount(q) = GetTupleCount(p) + 1 /\ GetTupleCount(p) \in Nat
    <3>1. GetTupleCount(p) \in Nat
      BY Zenon, PageShape
    <3> QED BY Zenon, <1>1, <2>1, <3>1 DEF GetTupleCount
  <2>3. Bytes(q, D \cup {k}) = SizeAt(q, k) + Bytes(q, (D \cup {k}) \ {k})
    <3>1. \A s \in D \cup {k} : SizeAt(q, s) \in Nat
      BY Zenon, <1>1, SlotBytes
    <3> HIDE DEF D, q, k
    <3> QED BY <2>1, <3>1, BytesRemove
  <2>4. (D \cup {k}) \ {k} = D
    BY Zenon, <1>5
  <2>5. Bytes(q, D) = Bytes(p, D)
    <3>1. \A s \in D : SizeAt(q, s) = SizeAt(p, s)
      BY Zenon, <1>1, <1>5 DEF SizeAt
    <3> HIDE DEF D, q
    <3> QED BY Zenon, <2>1, <3>1, BytesSame
  <2>6. Bytes(p, D) \in Nat
    BY Zenon, SpaceType
  <2>7. /\ GetFreeSpaceRemaining(p) = PageSize - SIZE_TABLE_PAGE_HEADER - SIZE_TUPLE * GetTupleCount(p) - Bytes(p, D)
        /\ GetFreeSpaceRemaining(q) = PageSize - SIZE_TABLE_PAGE_HEADER - SIZE_TUPLE * GetTupleCount(q) - Bytes(q, D \cup {k})
    BY Zenon, <1>1, Space
  <2> HIDE DEF D, q, k
  <2>8. GetFreeSpaceRemaining(q) = GetFreeSpaceRemaining(p) - Size[t] - SIZE_TUPLE
    BY <1>3, <2>2, <2>3, <2>4, <2>5, <2>6, <2>7, TupleAssumption DEF SIZE_TABLE_PAGE_HEADER, SIZE_TUPLE
  <2> QED BY Zenon, <1>5, <2>8 DEF D, q, k
<1> QED BY Zenon, <1>4, <1>5

(* The test of InsertTuple leaves the free space at 0 or above. *)
LEMMA InsertFits ==
  ASSUME NEW p \in PageSet, NEW t \in Tuples, CanInsert(p, t)
  PROVE  GetFreeSpaceRemaining(InsertTuple(p, t)) >= 0
<1>1. GetFreeSpaceRemaining(p) \in Int /\ Size[t] \in Nat
  BY Zenon, SpaceType, TupleAssumption
<1>2. GetFreeSpaceRemaining(p) >= Size[t] + SIZE_TUPLE
  BY Zenon DEF CanInsert
<1>3. \/ GetFreeSpaceRemaining(InsertTuple(p, t)) = GetFreeSpaceRemaining(p) - Size[t] - 0
      \/ GetFreeSpaceRemaining(InsertTuple(p, t)) = GetFreeSpaceRemaining(p) - Size[t] - SIZE_TUPLE
  BY Zenon, SpaceInserted
<1> QED BY <1>1, <1>2, <1>3 DEF SIZE_TUPLE

-----------------------------------------------------------------------------
(* The pages are numbered from 0 and linked in that order. *)
HeapShape(h, nx, l) ==
  \E n \in 1 .. MaxPages :
    /\ h \in [0 .. n - 1 -> PageSet]
    /\ nx = [p \in 0 .. n - 1 |-> IF p < n - 1 THEN p + 1 ELSE INVALID_PAGE_ID]
    /\ l \in [0 .. n - 1 -> Txns \cup {NoTxn}]

(* No page is overfull. *)
Roomy(h) == \A p \in DOMAIN h : GetFreeSpaceRemaining(h[p]) >= 0

(* The shape of the heap, with the number of its pages. *)
LEMMA HeapFacts ==
  ASSUME NEW h, NEW nx, NEW l, HeapShape(h, nx, l)
  PROVE  /\ Cardinality(DOMAIN h) \in 1 .. MaxPages /\ DOMAIN h = 0 .. Cardinality(DOMAIN h) - 1
         /\ h \in [DOMAIN h -> PageSet]
         /\ nx = [p \in DOMAIN h |-> IF p < Cardinality(DOMAIN h) - 1 THEN p + 1 ELSE INVALID_PAGE_ID]
         /\ l \in [DOMAIN h -> Txns \cup {NoTxn}]
         /\ Cardinality(DOMAIN h) \notin DOMAIN h
<1>1. PICK n \in 1 .. MaxPages :
        /\ h \in [0 .. n - 1 -> PageSet]
        /\ nx = [p \in 0 .. n - 1 |-> IF p < n - 1 THEN p + 1 ELSE INVALID_PAGE_ID]
        /\ l \in [0 .. n - 1 -> Txns \cup {NoTxn}]
  BY Zenon DEF HeapShape
<1>2. n \in Nat /\ n >= 1
  BY HeapAssumption
<1>3. Cardinality(0 .. n - 1) = n
  BY <1>2, FS_Interval
<1>4. DOMAIN h = 0 .. n - 1
  BY Zenon, <1>1
<1> QED BY <1>1, <1>2, <1>3, <1>4

(* A heap of n pages has that shape. *)
LEMMA HeapMade ==
  ASSUME NEW n \in 1 .. MaxPages, NEW h \in [0 .. n - 1 -> PageSet],
         NEW l \in [0 .. n - 1 -> Txns \cup {NoTxn}]
  PROVE  HeapShape(h, [p \in 0 .. n - 1 |-> IF p < n - 1 THEN p + 1 ELSE INVALID_PAGE_ID], l)
BY Zenon DEF HeapShape

(* Changing a page keeps the shape of the heap. *)
LEMMA HeapSet ==
  ASSUME NEW h, NEW nx, NEW l, HeapShape(h, nx, l), NEW p \in DOMAIN h, NEW q \in PageSet
  PROVE  HeapShape([h EXCEPT ![p] = q], nx, l)
<1>1. PICK n \in 1 .. MaxPages :
        /\ h \in [0 .. n - 1 -> PageSet]
        /\ nx = [k \in 0 .. n - 1 |-> IF k < n - 1 THEN k + 1 ELSE INVALID_PAGE_ID]
        /\ l \in [0 .. n - 1 -> Txns \cup {NoTxn}]
  BY Zenon DEF HeapShape
<1>2. [h EXCEPT ![p] = q] \in [0 .. n - 1 -> PageSet]
  BY Zenon, <1>1
<1> QED BY Zenon, <1>1, <1>2 DEF HeapShape

(* The heap with x in row r. *)
WithRow(h, r, x) == [h EXCEPT ![r[1]] = WithSlot(h[r[1]], r[2], x)]

(* Setting a row changes that row only. *)
LEMMA SlotChanged ==
  ASSUME NEW h, NEW nx, NEW l, HeapShape(h, nx, l), NEW r \in RidsOf(h), NEW x \in Slot
  PROVE  /\ HeapShape(WithRow(h, r, x), nx, l)
         /\ RowWritten(h, r, x, WithRow(h, r, x))
         /\ r \in DOMAIN RowsOf(h) /\ RowsOf(h)[r] = h[r[1]][r[2]] /\ RowsOf(h)[r] \in Slot
<1> DEFINE p == r[1]
           s == r[2]
           q == [h[p] EXCEPT ![s] = x]
           g == [h EXCEPT ![p] = q]
<1>1. r = <<p, s>> /\ p \in DOMAIN h /\ s \in DOMAIN h[p] /\ RowsOf(h)[r] = h[p][s] /\ r \in DOMAIN RowsOf(h)
  BY Zenon, RidMade
<1>2. h[p] \in PageSet
  BY <1>1, HeapFacts
<1>3. q \in PageSet /\ DOMAIN q = DOMAIN h[p] /\ \A k \in DOMAIN h[p] : q[k] = IF k = s THEN x ELSE h[p][k]
  BY Zenon, <1>1, <1>2, SlotSet
<1>4. h[p][s] \in Slot
  BY Zenon, <1>1, <1>2, PageShape
<1> SUFFICES HeapShape(g, nx, l) /\ RowWritten(h, r, x, g)
  BY Zenon, <1>1, <1>4 DEF WithRow, WithSlot
<1> HIDE DEF p, s, q
<1>5. HeapShape(g, nx, l)
  BY Zenon, <1>1, <1>3, HeapSet
<1>6. DOMAIN g = DOMAIN h /\ g[p] = q /\ \A k \in DOMAIN h \ {p} : g[k] = h[k]
  BY Zenon, <1>1
<1>7. DOMAIN q = DOMAIN h[p] \cup {s} /\ \A k \in DOMAIN h[p] \ {s} : q[k] = h[p][k]
  BY Zenon, <1>1, <1>3
<1> HIDE DEF g
<1>8. PageWritten(h, p, s, q, g)
  BY Zenon, <1>1, <1>6, <1>7 DEF PageWritten
<1>9. q[s] = x
  BY Zenon, <1>1, <1>3
<1> QED BY Zenon, <1>1, <1>5, <1>8, <1>9, RowsSet

(* Setting a row keeps the page from being overfull if the row shrinks,      *)
(* stays or passed the test of UpdateTuple.                                  *)
LEMMA SlotRoom ==
  ASSUME NEW h, NEW nx, NEW l, HeapShape(h, nx, l), Roomy(h), NEW r \in RidsOf(h), NEW x \in Slot,
         \/ x.tuple = NoTuple \/ x.tuple = RowsOf(h)[r].tuple
         \/ x.tuple \in Tuples /\ GetFreeSpaceRemaining(h[r[1]]) + SizeAt(h[r[1]], r[2]) >= Size[x.tuple]
  PROVE  Roomy(WithRow(h, r, x))
<1> DEFINE p == r[1]
           s == r[2]
           q == [h[p] EXCEPT ![s] = x]
<1>1. p \in DOMAIN h /\ s \in DOMAIN h[p] /\ RowsOf(h)[r] = h[p][s]
  BY Zenon, RidMade
<1>2. h[p] \in PageSet
  BY <1>1, HeapFacts
<1>3. q \in PageSet /\ DOMAIN q = DOMAIN h[p] /\ \A k \in DOMAIN h[p] : q[k] = IF k = s THEN x ELSE h[p][k]
  BY Zenon, <1>1, <1>2, SlotSet
<1>4. WithRow(h, r, x) = [h EXCEPT ![p] = q]
  BY Zenon DEF WithRow, WithSlot
<1>a. \/ x.tuple = NoTuple \/ x.tuple = h[p][s].tuple
      \/ x.tuple \in Tuples /\ GetFreeSpaceRemaining(h[p]) + SizeAt(h[p], s) >= Size[x.tuple]
  BY Zenon, <1>1
<1> HIDE DEF p, s, q
<1>5. GetFreeSpaceRemaining(q) = GetFreeSpaceRemaining(h[p]) + SizeAt(h[p], s) - SizeAt(q, s)
  BY Zenon, <1>1, <1>2, <1>3, SpaceSet
<1>6. /\ GetFreeSpaceRemaining(h[p]) \in Int /\ GetFreeSpaceRemaining(h[p]) >= 0
      /\ SizeAt(h[p], s) \in Nat /\ q[s] = x
  BY Zenon, <1>1, <1>2, <1>3, SpaceType, SlotBytes DEF Roomy
<1>7. SizeAt(q, s) \in Nat /\ GetFreeSpaceRemaining(h[p]) + SizeAt(h[p], s) >= SizeAt(q, s)
  <2>0. SizeAt(q, s) \in Nat
    BY Zenon, <1>1, <1>3, SlotBytes
  <2>1. CASE x.tuple = NoTuple
    BY <1>6, <2>0, <2>1 DEF SizeAt
  <2>2. CASE x.tuple = h[p][s].tuple
    <3>1. SizeAt(q, s) = SizeAt(h[p], s)
      BY Zenon, <1>6, <2>2 DEF SizeAt
    <3> QED BY <3>1, <1>6
  <2>3. CASE x.tuple \in Tuples /\ GetFreeSpaceRemaining(h[p]) + SizeAt(h[p], s) >= Size[x.tuple]
    <3>1. SizeAt(q, s) = Size[x.tuple]
      BY Zenon, <1>6, <2>3, TupleAssumption DEF SizeAt
    <3> QED BY Zenon, <3>1, <2>0, <2>3
  <2> QED BY Zenon, <1>a, <2>1, <2>2, <2>3
<1>8. GetFreeSpaceRemaining(q) >= 0
  BY <1>5, <1>6, <1>7
<1> QED BY Zenon, <1>1, <1>4, <1>8 DEF Roomy

-----------------------------------------------------------------------------
(* Who holds a page latch is inserting, and holds one only. *)
Latched(l, ins) ==
  \A p \in DOMAIN l : l[p] # NoTxn =>
    /\ ins[l[p]] # NoTuple
    /\ \A q \in DOMAIN l : l[q] = l[p] => q = p

(* The phases of the transactions fit the global latch and their states. *)
TxnShape(ins, st, p, rd, tm, bl) ==
  /\ ins \in [Txns -> Tuples \cup {NoTuple}]
  /\ st \in [Txns -> {"NONE", "GROWING", "COMMITTED", "ABORTED"}]
  /\ p \in [Txns -> {"none", "running", "committing", "aborting", "ended"}]
  /\ rd = {t \in Txns : p[t] \in {"running", "committing", "aborting"}}
  /\ rd \subseteq tm /\ tm \subseteq Txns
  /\ bl \in BOOLEAN /\ (bl => rd = {})
  /\ \A t \in Txns : /\ ins[t] # NoTuple => p[t] = "running" /\ ~TooLarge(ins[t])
                     /\ p[t] = "aborting" => st[t] = "ABORTED"

(* Locks, history and write records name rows that exist, and a transaction  *)
(* has records only while it runs or ends.                                   *)
WriteShape(rids, ws, lk, com, p) ==
  /\ ws \in [Txns -> Seq(WriteRecord)]
  /\ lk \in [Txns -> SUBSET rids]
  /\ DOMAIN com \subseteq rids
  /\ \A t \in Txns : p[t] \in {"none", "ended"} => ws[t] = <<>>

(* The inductive invariant. It says nothing of the values of the tuples. *)
IInv ==
  /\ HeapShape(heap, next, latch)
  /\ Latched(latch, inserting)
  /\ TxnShape(inserting, state, pc, readers, txn_map, blocked)
  /\ WriteShape(RidsOf(heap), write_set, locks, committed, pc)
  /\ Roomy(heap) /\ failed = FALSE
  /\ Owned(RowsOf(heap), write_set, pc, locks)

(* What atomicity needs on top of it. *)
KInv == Kept(RowsOf(heap), write_set, pc, committed)

(* Front takes the last record off. *)
LEMMA FrontGrows ==
  ASSUME NEW w \in Seq(WriteRecord), w # <<>>
  PROVE  Grown(Front(w), w[Len(w)], w)
BY DEF Grown, Front

(* The inductive invariant gives the types and the list of pages. *)
LEMMA InvTypes == IInv => HeapLinked
<1> SUFFICES ASSUME IInv PROVE HeapLinked
  BY Zenon
<1>1. /\ NewPageId \in 1 .. MaxPages /\ Pages = 0 .. NewPageId - 1
      /\ heap \in [Pages -> PageSet]
      /\ next = [p \in Pages |-> IF p < NewPageId - 1 THEN p + 1 ELSE INVALID_PAGE_ID]
      /\ latch \in [Pages -> Txns \cup {NoTxn}]
  BY Zenon, HeapFacts DEF IInv, Pages, NewPageId
<1>2. NewPageId \in Nat
  BY <1>1, HeapAssumption
<1>3. \A p \in Pages : next[p] = IF p + 1 \in Pages THEN p + 1 ELSE INVALID_PAGE_ID
  BY <1>1, <1>2
<1>4. next \in [Pages -> Pages \cup {INVALID_PAGE_ID}]
  BY Zenon, <1>1, <1>2, <1>3
<1>5. \A p \in Pages : DOMAIN heap[p] = 0 .. GetTupleCount(heap[p]) - 1 /\ Range(heap[p]) \subseteq Slot
  BY <1>1, PageShape DEF Range
<1>6. Rids = RidsOf(heap)
  BY Zenon DEF Rids, RidsOf, Pages
<1>7. ASSUME NEW t \in Txns, NEW i \in DOMAIN write_set[t]
      PROVE  /\ write_set[t][i].rid \in Rids
             /\ write_set[t][i].tuple \in IF write_set[t][i].wtype = "UPDATE" THEN Tuples ELSE {NoTuple}
  <2>1. write_set[t][i].rid \in locks[t]
    BY Zenon DEF IInv, Owned, Foot
  <2>2. locks[t] \subseteq Rids
    BY Zenon, <1>6 DEF IInv, WriteShape
  <2>3. write_set[t][i] \in WriteRecord
    BY DEF IInv, WriteShape
  <2> QED BY Zenon, <2>1, <2>2, <2>3 DEF WriteRecord
<1>8. HeapTypeOK
  BY Zenon, <1>1, <1>4, <1>5, <1>7 DEF HeapTypeOK, IInv, TxnShape
<1>9. TypeOK
  BY Zenon, <1>6, <1>8 DEF TypeOK, IInv, TxnShape, WriteShape
<1> QED BY Zenon, <1>3, <1>9 DEF HeapLinked

(* It holds of an empty table. *)
LEMMA InvInit == Init => IInv
<1> SUFFICES ASSUME Init PROVE IInv
  BY Zenon
<1> USE DEF Init, HeapInit
<1>1. HeapShape(heap, next, latch)
  <2>1. 1 \in 1 .. MaxPages /\ 0 .. 1 - 1 = {0}
    BY HeapAssumption
  <2>2. heap \in [0 .. 1 - 1 -> PageSet]
    BY Zenon, <2>1, SpaceEmpty DEF first_page_id
  <2>3. next = [p \in 0 .. 1 - 1 |-> IF p < 1 - 1 THEN p + 1 ELSE INVALID_PAGE_ID]
    BY <2>1 DEF first_page_id
  <2>4. latch \in [0 .. 1 - 1 -> Txns \cup {NoTxn}]
    BY Zenon, <2>1 DEF first_page_id
  <2> QED BY Zenon, <2>1, <2>2, <2>3, <2>4, HeapMade
<1>2. Latched(latch, inserting)
  BY Zenon DEF Latched
<1>3. TxnShape(inserting, state, pc, readers, txn_map, blocked)
  BY Zenon DEF TxnShape
<1>4. WriteShape(RidsOf(heap), write_set, locks, committed, pc)
  BY DEF WriteShape
<1>5. \A t \in Txns : Foot(write_set[t]) = {} /\ Marked(write_set[t]) = {} /\ Ordered(write_set[t])
  BY DEF Foot, Marked, Ordered
<1>6. Owned(RowsOf(heap), write_set, pc, locks)
  BY Zenon, <1>5 DEF Owned, InUse, Apart, Live
<1>7. Roomy(heap)
  BY SpaceEmpty, TupleAssumption DEF Roomy, SIZE_TABLE_PAGE_HEADER
<1> QED BY Zenon, <1>1, <1>2, <1>3, <1>4, <1>6, <1>7 DEF IInv

-----------------------------------------------------------------------------
(* A transaction begins. *)
LEMMA BeginInv ==
  ASSUME IInv, NEW t \in Txns, Begin(t)
  PROVE  IInv' /\ (KInv => KInv')
<1>1. UNCHANGED <<heap, next, latch, inserting, write_set, failed, blocked, locks, committed>>
  BY Zenon DEF Begin
<1>2. write_set[t] = <<>> /\ pc' = [pc EXCEPT ![t] = "running"] /\ pc \in [Txns -> {"none", "running", "committing", "aborting", "ended"}]
  BY Zenon DEF Begin, IInv, WriteShape, TxnShape
<1>a. Elsewhere(pc, pc', t) /\ Elsewhere(locks, locks, t)
  BY Zenon, <1>2 DEF Elsewhere
<1>3. Owned(RowsOf(heap), write_set, pc', locks) /\ (KInv => Kept(RowsOf(heap), write_set, pc', committed))
  BY Zenon, <1>2, <1>a, PhaseKept DEF IInv, KInv
<1>4. TxnShape(inserting, state', pc', readers', txn_map', blocked)
  BY Zenon DEF Begin, IInv, TxnShape
<1>5. WriteShape(RidsOf(heap), write_set, locks, committed, pc')
  BY Zenon, <1>2 DEF IInv, WriteShape
<1> QED BY Zenon, <1>1, <1>3, <1>4, <1>5 DEF IInv, KInv

(* What the three kinds of changes by a caller have in common. *)
LEMMA Wrote ==
  ASSUME IInv, NEW t \in Txns, pc[t] = "running", NEW rec \in WriteRecord, NEW x, NEW g,
         RowWritten(heap, rec.rid, x, g),
         \A u \in Txns \ {t} : rec.rid \notin Live(write_set[u], pc[u]),
         rec.rid \notin Marked(write_set[t]), rec.wtype = "INSERT" => rec.rid \notin Foot(write_set[t]),
         x.tuple # NoTuple, x.deleted <=> rec.wtype = "DELETE",
         NEW ws, ws = [write_set EXCEPT ![t] = Append(@, rec)],
         NEW lk, lk = [locks EXCEPT ![t] = @ \cup {rec.rid}]
  PROVE  /\ WriteShape(RidsOf(g), ws, lk, committed, pc)
         /\ Owned(RowsOf(g), ws, pc, lk)
         /\ KInv /\ Remembers(RowsOf(g), write_set, committed, t, rec)
              => Kept(RowsOf(g), ws, pc, committed)
<1>1. /\ write_set \in [Txns -> Seq(WriteRecord)] /\ locks \in [Txns -> SUBSET RidsOf(heap)]
      /\ DOMAIN committed \subseteq RidsOf(heap)
      /\ \A u \in Txns : pc[u] \in {"none", "ended"} => write_set[u] = <<>>
  BY Zenon DEF IInv, WriteShape
<1>2. Append(write_set[t], rec) \in Seq(WriteRecord) /\ ws = [write_set EXCEPT ![t] = Append(write_set[t], rec)]
  BY <1>1
<1>3. RidsOf(g) = RidsOf(heap) \cup {rec.rid}
  BY Zenon DEF RowWritten
<1>4. WriteShape(RidsOf(g), ws, lk, committed, pc)
  <2>1. ws \in [Txns -> Seq(WriteRecord)]
    BY Zenon, <1>1, <1>2
  <2>2. lk \in [Txns -> SUBSET RidsOf(g)]
    BY Zenon, <1>1, <1>3
  <2>3. \A u \in Txns : pc[u] \in {"none", "ended"} => ws[u] = <<>>
    BY Zenon, <1>1, <1>2
  <2> QED BY Zenon, <1>1, <1>3, <2>1, <2>2, <2>3 DEF WriteShape
<1>5. Grown(write_set[t], rec, Append(write_set[t], rec))
  BY Zenon, <1>1, AppendGrows
<1>6. LocksGrow(locks, lk, t, rec.rid)
  BY Zenon, <1>1 DEF LocksGrow
<1>7. /\ DOMAIN RowsOf(g) = DOMAIN RowsOf(heap) \cup {rec.rid}
      /\ \A q \in DOMAIN RowsOf(heap) \ {rec.rid} : RowsOf(g)[q] = RowsOf(heap)[q]
      /\ RowsOf(g)[rec.rid].tuple # NoTuple /\ (RowsOf(g)[rec.rid].deleted <=> rec.wtype = "DELETE")
  BY Zenon DEF RowWritten
<1>8. Owned(RowsOf(heap), write_set, pc, locks) /\ pc[t] # "committing"
  BY Zenon DEF IInv
<1>9. Writes(RowsOf(heap), RowsOf(g), write_set, ws, pc, t, rec, Append(write_set[t], rec))
  BY Zenon, <1>1, <1>2, <1>5, <1>7, <1>8 DEF Writes
<1>10. Owned(RowsOf(g), ws, pc, lk)
  BY <1>6, <1>8, <1>9, WriteOwned
<1>11. ASSUME KInv, Remembers(RowsOf(g), write_set, committed, t, rec)
       PROVE  Kept(RowsOf(g), ws, pc, committed)
  BY <1>8, <1>9, <1>11, WriteKept DEF KInv
<1> QED BY Zenon, <1>4, <1>10, <1>11

(* What the steps of Commit and Abort have in common. *)
LEMMA Popped ==
  ASSUME IInv, NEW t \in Txns, pc[t] \in {"committing", "aborting"}, write_set[t] # <<>>,
         NEW rec, rec = write_set[t][Len(write_set[t])], NEW x, NEW g,
         g = heap \/ RowWritten(heap, rec.rid, x, g),
         rec.rid \in RidsOf(heap),
         pc[t] = "committing" /\ rec.wtype # "DELETE" => g = heap,
         pc[t] = "aborting" /\ rec.rid \in Foot(Front(write_set[t])) =>
           RowsOf(g)[rec.rid].tuple # NoTuple /\ ~RowsOf(g)[rec.rid].deleted,
         NEW ws, ws = [write_set EXCEPT ![t] = Front(@)]
  PROVE  /\ WriteShape(RidsOf(g), ws, locks, committed, pc)
         /\ Owned(RowsOf(g), ws, pc, locks)
         /\ KInv /\ Restores(RowsOf(g), pc, committed, t, rec, Front(write_set[t]))
              => Kept(RowsOf(g), ws, pc, committed)
<1>1. /\ write_set \in [Txns -> Seq(WriteRecord)] /\ locks \in [Txns -> SUBSET RidsOf(heap)]
      /\ DOMAIN committed \subseteq RidsOf(heap)
      /\ \A u \in Txns : pc[u] \in {"none", "ended"} => write_set[u] = <<>>
  BY Zenon DEF IInv, WriteShape
<1>2. Front(write_set[t]) \in Seq(WriteRecord) /\ ws = [write_set EXCEPT ![t] = Front(write_set[t])]
  BY <1>1 DEF Front
<1>3. /\ RidsOf(g) = RidsOf(heap) /\ DOMAIN RowsOf(g) = DOMAIN RowsOf(heap)
      /\ \A q \in DOMAIN RowsOf(heap) \ {rec.rid} : RowsOf(g)[q] = RowsOf(heap)[q]
  <2>1. rec.rid \in DOMAIN RowsOf(heap)
    BY Zenon, RidMade
  <2> QED BY Zenon, <2>1 DEF RowWritten
<1>4. WriteShape(RidsOf(g), ws, locks, committed, pc)
  <2>1. ws \in [Txns -> Seq(WriteRecord)]
    BY Zenon, <1>1, <1>2
  <2>3. \A u \in Txns : pc[u] \in {"none", "ended"} => ws[u] = <<>>
    BY Zenon, <1>1, <1>2
  <2> QED BY Zenon, <1>1, <1>3, <2>1, <2>3 DEF WriteShape
<1>5. Grown(Front(write_set[t]), rec, write_set[t])
  BY Zenon, <1>1, FrontGrows
<1>6. Owned(RowsOf(heap), write_set, pc, locks) /\ (pc[t] # "committing" <=> pc[t] = "aborting")
  BY Zenon DEF IInv
<1>7. pc[t] = "committing" /\ rec.wtype # "DELETE" => RowsOf(g) = RowsOf(heap)
  BY Zenon
<1>8. Pops(RowsOf(heap), RowsOf(g), write_set, ws, pc, t, rec, Front(write_set[t]))
  BY Zenon, <1>1, <1>2, <1>3, <1>5, <1>6, <1>7 DEF Pops
<1>9. Owned(RowsOf(g), ws, pc, locks)
  BY <1>6, <1>8, PopOwned
<1>10. ASSUME KInv, Restores(RowsOf(g), pc, committed, t, rec, Front(write_set[t]))
       PROVE  Kept(RowsOf(g), ws, pc, committed)
  BY <1>6, <1>8, <1>10, PopKept DEF KInv
<1> QED BY Zenon, <1>4, <1>9, <1>10

(* InsertTuple turns the tuple away or starts. *)
LEMMA InsertCallInv ==
  ASSUME IInv, NEW t \in Txns, NEW tuple \in Tuples, Insert(t, tuple)
  PROVE  IInv' /\ (KInv => KInv')
<1>1. UNCHANGED <<heap, next, latch, write_set, failed, pc, readers, blocked, txn_map, locks, committed>>
  BY Zenon DEF Insert, InsertStart
<1>2. TxnShape(inserting', state', pc, readers, txn_map, blocked)
  BY Zenon DEF Insert, InsertStart, MayWrite, IInv, TxnShape
<1>3. Latched(latch, inserting')
  <2>1. \A u \in Txns : inserting[u] # NoTuple => inserting'[u] # NoTuple
    BY Zenon, TupleAssumption DEF Insert, InsertStart, IInv, TxnShape
  <2>2. latch \in [DOMAIN heap -> Txns \cup {NoTxn}]
    BY Zenon, HeapFacts DEF IInv
  <2> QED BY Zenon, <2>1, <2>2 DEF IInv, Latched
<1> QED BY Zenon, <1>1, <1>2, <1>3 DEF IInv, KInv

(* The steps of InsertTuple that change no row. *)
LEMMA WalkInv ==
  ASSUME IInv, NEW t \in Txns, InsertRun(t), write_set' = write_set, failed' = failed,
         RidsOf(heap') = RidsOf(heap), RowsOf(heap') = RowsOf(heap),
         HeapShape(heap', next', latch'), Roomy(heap'), Latched(latch', inserting'),
         TxnShape(inserting', state', pc, readers, txn_map, blocked)
  PROVE  IInv' /\ (KInv => KInv')
<1>1. UNCHANGED <<pc, readers, blocked, txn_map, committed>>
  BY Zenon DEF InsertRun
<1>2. Foot(write_set[t]) \subseteq locks[t] /\ locks \in [Txns -> SUBSET RidsOf(heap)]
  BY Zenon DEF IInv, Owned, WriteShape
<1>3. locks' = [locks EXCEPT ![t] = @ \cup Foot(write_set[t])]
  BY Zenon DEF InsertRun, Foot
<1>4. locks' = locks
  BY Zenon, <1>2, <1>3
<1> QED BY Zenon, <1>1, <1>4 DEF IInv, KInv

(* InsertTuple latches the first page. *)
LEMMA LatchInv ==
  ASSUME IInv, NEW t \in Txns, InsertRun(t), InsertLatch(t)
  PROVE  IInv' /\ (KInv => KInv')
<1>1. UNCHANGED <<heap, next, inserting, state, write_set, failed>>
  BY Zenon DEF InsertLatch
<1>2. /\ latch \in [DOMAIN heap -> Txns \cup {NoTxn}] /\ 0 \in DOMAIN heap /\ inserting[t] # NoTuple
      /\ latch' = [latch EXCEPT ![0] = t] /\ \A p \in DOMAIN heap : latch[p] # t
  BY HeapFacts, HeapAssumption DEF IInv, InsertLatch, InsertRun, InsertStep, first_page_id, Range
<1>3. HeapShape(heap, next, latch')
  BY Zenon, <1>2 DEF IInv, HeapShape
<1>4. Latched(latch', inserting)
  BY Zenon, <1>2 DEF IInv, Latched
<1> QED BY Zenon, <1>1, <1>3, <1>4, WalkInv DEF IInv

(* InsertTuple moves on to the next page. *)
LEMMA MoveInv ==
  ASSUME IInv, NEW t \in Txns, InsertRun(t), NEW p \in Pages, InsertMove(t, p)
  PROVE  IInv' /\ (KInv => KInv')
<1>1. UNCHANGED <<heap, next, inserting, state, write_set, failed>>
  BY Zenon DEF InsertMove
<1>2. /\ latch \in [DOMAIN heap -> Txns \cup {NoTxn}] /\ p \in DOMAIN heap /\ inserting[t] # NoTuple
      /\ latch[p] = t /\ latch' = [latch EXCEPT ![p] = NoTxn, ![next[p]] = t]
  BY Zenon, HeapFacts DEF IInv, InsertMove, InsertRun, InsertStep, Pages
<1>3. HeapShape(heap, next, latch')
  BY Zenon, <1>2 DEF IInv, HeapShape
<1>4. Latched(latch', inserting)
  <2>1. \A k \in DOMAIN latch : latch[k] # NoTxn =>
          inserting[latch[k]] # NoTuple /\ \A q \in DOMAIN latch : latch[q] = latch[k] => q = k
    BY Zenon DEF IInv, Latched
  <2>2. \A q \in DOMAIN latch \ {p} : latch[q] # t
    BY Zenon, <1>2, <2>1, HeapAssumption
  <2>3. DOMAIN latch' = DOMAIN latch
    BY Zenon, <1>2
  <2>4. \A k \in DOMAIN latch : latch'[k] = IF k = next[p] THEN t ELSE IF k = p THEN NoTxn ELSE latch[k]
    BY Zenon, <1>2
  <2> QED BY <1>2, <2>1, <2>2, <2>3, <2>4 DEF Latched
<1> QED BY Zenon, <1>1, <1>3, <1>4, WalkInv DEF IInv

(* InsertTuple gets no new page. *)
LEMMA FailInv ==
  ASSUME IInv, NEW t \in Txns, InsertRun(t), NEW p \in Pages, InsertFail(t, p)
  PROVE  IInv' /\ (KInv => KInv')
<1>1. UNCHANGED <<heap, next, write_set, failed>>
  BY Zenon DEF InsertFail
<1>2. /\ latch \in [DOMAIN heap -> Txns \cup {NoTxn}] /\ p \in DOMAIN heap
      /\ latch[p] = t /\ latch' = [latch EXCEPT ![p] = NoTxn] /\ inserting' = [inserting EXCEPT ![t] = NoTuple]
      /\ inserting \in [Txns -> Tuples \cup {NoTuple}] /\ inserting[t] # NoTuple
  BY Zenon, HeapFacts DEF IInv, InsertFail, Pages, TxnShape, InsertRun, InsertStep
<1>3. HeapShape(heap, next, latch')
  BY Zenon, <1>2 DEF IInv, HeapShape
<1>4. Latched(latch', inserting')
  BY Zenon, <1>2, HeapAssumption DEF IInv, Latched
<1>5. TxnShape(inserting', state', pc, readers, txn_map, blocked)
  BY Zenon, <1>2 DEF InsertFail, IInv, TxnShape
<1> QED BY Zenon, <1>1, <1>3, <1>4, <1>5, WalkInv DEF IInv

(* InsertTuple adds a page at the end of the list: the page it holds is the  *)
(* last one, because nobody else can have added one meanwhile.               *)
LEMMA GrowInv ==
  ASSUME IInv, NEW t \in Txns, InsertRun(t), NEW p \in Pages, InsertGrow(t, p)
  PROVE  IInv' /\ (KInv => KInv')
<1> DEFINE n == Cardinality(DOMAIN heap)
<1>1. UNCHANGED <<inserting, state, write_set, failed>> /\ n < MaxPages /\ latch[p] = t /\ next[p] = -1
  BY Zenon DEF InsertGrow, NewPageId, Pages, INVALID_PAGE_ID
<1>2. /\ n \in 1 .. MaxPages /\ DOMAIN heap = 0 .. n - 1 /\ heap \in [DOMAIN heap -> PageSet]
      /\ next = [q \in DOMAIN heap |-> IF q < n - 1 THEN q + 1 ELSE -1]
      /\ latch \in [DOMAIN heap -> Txns \cup {NoTxn}] /\ n \notin DOMAIN heap
  BY Zenon, HeapFacts DEF IInv, INVALID_PAGE_ID
<1>3. /\ heap' = [q \in DOMAIN heap \cup {n} |-> IF q \in DOMAIN heap THEN heap[q] ELSE EmptyPage]
      /\ next' = [q \in DOMAIN heap \cup {n} |-> IF q = p THEN n ELSE IF q \in DOMAIN heap THEN next[q] ELSE -1]
      /\ latch' = [q \in DOMAIN heap \cup {n} |-> IF q = p THEN NoTxn ELSE IF q \in DOMAIN heap THEN latch[q] ELSE t]
  BY Zenon DEF InsertGrow, NewPageId, Pages, INVALID_PAGE_ID
<1> HIDE DEF n
<1>4. n \in Nat /\ n >= 1 /\ MaxPages \in Nat
  BY <1>2, HeapAssumption
<1>5. p \in 0 .. n - 1 /\ p = n - 1
  BY <1>1, <1>2, <1>4 DEF Pages
<1>6. DOMAIN heap \cup {n} = 0 .. (n + 1) - 1 /\ n + 1 \in 1 .. MaxPages
  BY <1>1, <1>2, <1>4
<1>7. HeapShape(heap', next', latch')
  <2>1. heap' \in [0 .. (n + 1) - 1 -> PageSet]
    BY Zenon, <1>2, <1>3, <1>6, SpaceEmpty
  <2>2. latch' \in [0 .. (n + 1) - 1 -> Txns \cup {NoTxn}]
    BY Zenon, <1>2, <1>3, <1>6
  <2>3. next' = [q \in 0 .. (n + 1) - 1 |-> IF q < (n + 1) - 1 THEN q + 1 ELSE INVALID_PAGE_ID]
    BY <1>2, <1>3, <1>4, <1>5, <1>6 DEF INVALID_PAGE_ID
  <2> QED BY Zenon, <1>6, <2>1, <2>2, <2>3, HeapMade
<1>8. RidsOf(heap') = RidsOf(heap) /\ RowsOf(heap') = RowsOf(heap)
  BY Zenon, <1>2, <1>3, RowsGrown
<1>9. Roomy(heap')
  <2>1. GetFreeSpaceRemaining(EmptyPage) >= 0
    BY SpaceEmpty, TupleAssumption DEF SIZE_TABLE_PAGE_HEADER
  <2> QED BY Zenon, <1>3, <2>1 DEF IInv, Roomy
<1>10. Latched(latch', inserting)
  <2>1. \A k \in DOMAIN latch : latch[k] # NoTxn =>
          inserting[latch[k]] # NoTuple /\ \A q \in DOMAIN latch : latch[q] = latch[k] => q = k
    BY Zenon DEF IInv, Latched
  <2>2. \A q \in DOMAIN latch \ {p} : latch[q] # t
    BY Zenon, <1>1, <1>2, <1>5, <2>1, HeapAssumption
  <2>3. DOMAIN latch' = DOMAIN latch \cup {n} /\ DOMAIN latch = DOMAIN heap
    BY Zenon, <1>2, <1>3
  <2>4. \A k \in DOMAIN latch \cup {n} :
           latch'[k] = IF k = p THEN NoTxn ELSE IF k \in DOMAIN latch THEN latch[k] ELSE t
    BY Zenon, <1>3, <2>3
  <2>5. inserting[t] # NoTuple
    BY Zenon DEF InsertRun, InsertStep
  <2> QED BY Zenon, <2>1, <2>2, <2>3, <2>4, <2>5 DEF Latched
<1> QED BY Zenon, <1>1, <1>7, <1>8, <1>9, <1>10, WalkInv DEF IInv

(* A row without a tuple belongs to no transaction and was never committed. *)
LEMMA FreeRow ==
  ASSUME IInv, NEW r, r \notin RidsOf(heap) \/ RowsOf(heap)[r].tuple = NoTuple
  PROVE  /\ \A u \in Txns : r \notin Live(write_set[u], pc[u])
         /\ KInv => Com(committed, r) = NoTuple
<1>1. DOMAIN RowsOf(heap) = RidsOf(heap)
  BY Zenon, RidMade
<1>2. \A u \in Txns : r \notin Live(write_set[u], pc[u])
  BY Zenon, <1>1 DEF IInv, Owned, InUse
<1>3. CASE r \in RidsOf(heap)
  <2>1. ASSUME KInv PROVE RowsOf(heap)[r] = [tuple |-> Com(committed, r), deleted |-> FALSE]
    BY Zenon, <1>1, <1>2, <1>3, <2>1 DEF KInv, Kept
  <2>2. RowsOf(heap)[r].tuple = NoTuple
    BY Zenon, <1>3
  <2>3. ASSUME NEW c, RowsOf(heap)[r] = [tuple |-> c, deleted |-> FALSE] PROVE c = NoTuple
    BY <2>2, <2>3
  <2>4. KInv => Com(committed, r) = NoTuple
    BY Zenon, <2>1, <2>3
  <2> QED BY Zenon, <1>2, <2>4
<1>4. CASE r \notin RidsOf(heap)
  BY Zenon, <1>2, <1>4 DEF IInv, WriteShape, Com
<1> QED BY Zenon, <1>2, <1>3, <1>4

(* InsertTuple puts the tuple into a slot nobody depends on. *)
LEMMA HereInv ==
  ASSUME IInv, NEW t \in Txns, InsertRun(t), NEW p \in Pages, InsertHere(t, p)
  PROVE  IInv' /\ (KInv => KInv')
<1> DEFINE k == InsertSlot(heap[p])
           rec == Record(<<p, k>>, "INSERT", NoTuple)
           q == InsertTuple(heap[p], inserting[t])
           x == Holding(inserting[t])
<1>1. UNCHANGED <<next, state, failed, pc, readers, blocked, txn_map, committed>>
  BY Zenon DEF InsertHere, InsertRun
<1>2. /\ latch \in [DOMAIN heap -> Txns \cup {NoTxn}] /\ p \in DOMAIN heap /\ heap[p] \in PageSet /\ p \in Nat
      /\ latch[p] = t /\ latch' = [latch EXCEPT ![p] = NoTxn] /\ inserting' = [inserting EXCEPT ![t] = NoTuple]
      /\ inserting \in [Txns -> Tuples \cup {NoTuple}] /\ inserting[t] # NoTuple /\ pc[t] = "running"
      /\ heap' = [heap EXCEPT ![p] = q] /\ CanInsert(heap[p], inserting[t])
      /\ write_set' = [write_set EXCEPT ![t] = Append(@, rec)]
  BY HeapFacts DEF IInv, InsertHere, Pages, TxnShape, InsertRun, InsertStep
<1>3. inserting[t] \in Tuples
  BY Zenon, <1>2
<1>4. /\ q \in PageSet /\ DOMAIN q = DOMAIN heap[p] \cup {k} /\ q[k] = x
      /\ \A s \in DOMAIN heap[p] \ {k} : q[s] = heap[p][s]
  BY Zenon, <1>2, <1>3, Inserted
<1>5. /\ k \in Nat
      /\ \/ k \in DOMAIN heap[p] /\ heap[p][k].tuple = NoTuple
         \/ k \notin DOMAIN heap[p]
  BY Zenon, <1>2, SlotChosen
<1>6. GetFreeSpaceRemaining(q) >= 0
  BY Zenon, <1>2, <1>3, InsertFits
<1>7. x.tuple # NoTuple /\ x.deleted = FALSE
  BY Zenon, <1>2 DEF Holding
<1>8. /\ rec.rid = <<p, k>> /\ rec.wtype = "INSERT" /\ rec.tuple = NoTuple /\ rec \in WriteRecord
  BY Zenon, <1>2, <1>5 DEF Record, WriteRecord
<1> HIDE DEF k, rec, q, x
<1>9. HeapShape(heap', next', latch')
  <2>1. HeapShape(heap', next, latch)
    BY Zenon, <1>2, <1>4, HeapSet DEF IInv
  <2> QED BY Zenon, <2>1, <1>1, <1>2 DEF HeapShape
<1>10. Latched(latch', inserting')
  BY Zenon, <1>2, HeapAssumption DEF IInv, Latched
<1>11. TxnShape(inserting', state', pc', readers', txn_map', blocked')
  BY Zenon, <1>1, <1>2 DEF IInv, TxnShape
<1>12. Roomy(heap')
  BY Zenon, <1>2, <1>6 DEF IInv, Roomy
<1>13. RowWritten(heap, rec.rid, x, heap')
  <2>1. DOMAIN heap' = DOMAIN heap /\ heap'[p] = q /\ \A y \in DOMAIN heap \ {p} : heap'[y] = heap[y]
    BY Zenon, <1>2
  <2>2. PageWritten(heap, p, k, q, heap')
    BY Zenon, <1>2, <1>4, <2>1 DEF PageWritten
  <2> QED BY Zenon, <1>4, <1>8, <2>2, RowsSet
<1>14. rec.rid \notin RidsOf(heap) \/ RowsOf(heap)[rec.rid].tuple = NoTuple
  <2>1. CASE k \in DOMAIN heap[p]
    <3>1. RowsOf(heap)[<<p, k>>] = heap[p][k]
      <4>1. <<p, k>> \in RidsOf(heap) /\ RowsOf(heap)[<<p, k>>] = heap[p][k]
        BY Zenon, <2>1, <1>2, RowOf
      <4> QED BY Zenon, <4>1
    <3> QED BY Zenon, <3>1, <2>1, <1>5, <1>8
  <2>2. CASE k \notin DOMAIN heap[p]
    <3>1. <<p, k>> \in RidsOf(heap) => <<p, k>>[2] \in DOMAIN heap[<<p, k>>[1]]
      BY Zenon, RidMade
    <3>2. <<p, k>>[1] = p /\ <<p, k>>[2] = k
      BY Zenon
    <3>3. <<p, k>> \notin RidsOf(heap)
      BY Zenon, <3>1, <3>2, <2>2
    <3> QED BY Zenon, <3>3, <1>8
  <2> QED BY Zenon, <2>1, <2>2
<1>15. /\ \A u \in Txns : rec.rid \notin Live(write_set[u], pc[u])
       /\ KInv => Com(committed, rec.rid) = NoTuple
  BY Zenon, <1>14, FreeRow
<1>16. rec.rid \notin Foot(write_set[t]) /\ rec.rid \notin Marked(write_set[t])
  <2>1. rec.rid \notin Foot(write_set[t])
    BY Zenon, <1>2, <1>15 DEF Live
  <2> QED BY Zenon, <2>1 DEF Foot, Marked
<1>17. locks' = [locks EXCEPT ![t] = @ \cup {rec.rid}]
  <2>1. /\ write_set \in [Txns -> Seq(WriteRecord)] /\ locks \in [Txns -> SUBSET RidsOf(heap)]
        /\ Foot(write_set[t]) \subseteq locks[t]
    BY Zenon DEF IInv, WriteShape, Owned
  <2>2. write_set'[t] = Append(write_set[t], rec)
    BY Zenon, <1>2, <2>1
  <2>3. Foot(write_set'[t]) = Foot(write_set[t]) \cup {rec.rid}
    <3>1. Grown(write_set[t], rec, write_set'[t])
      BY Zenon, <1>8, <2>1, <2>2, AppendGrows
    <3> QED BY Zenon, <3>1, GrownSets
  <2>4. locks' = [locks EXCEPT ![t] = @ \cup Foot(write_set'[t])]
    BY Zenon DEF InsertRun, Foot
  <2> QED BY Zenon, <2>1, <2>3, <2>4
<1>18. /\ WriteShape(RidsOf(heap'), write_set', locks', committed, pc)
       /\ Owned(RowsOf(heap'), write_set', pc, locks')
       /\ KInv /\ Remembers(RowsOf(heap'), write_set, committed, t, rec)
            => Kept(RowsOf(heap'), write_set', pc, committed)
  BY Zenon, <1>2, <1>7, <1>8, <1>13, <1>15, <1>16, <1>17, Wrote
<1>19. KInv => Remembers(RowsOf(heap'), write_set, committed, t, rec)
  BY Zenon, <1>8, <1>15 DEF Remembers, Image
<1> QED BY Zenon, <1>1, <1>9, <1>10, <1>11, <1>12, <1>18, <1>19 DEF IInv, KInv

(* A caller may change a row it can read and nobody else has locked. *)
LEMMA TargetRow ==
  ASSUME IInv, NEW t \in Txns, MayWrite(t), NEW r \in Targets, MayLock(t, r)
  PROVE  /\ r \in RidsOf(heap) /\ r \in DOMAIN RowsOf(heap) /\ RowsOf(heap)[r] = heap[r[1]][r[2]]
         /\ RowsOf(heap)[r] \in Slot /\ RowsOf(heap)[r].tuple \in Tuples /\ RowsOf(heap)[r].deleted = FALSE
         /\ r \in Nat \X Nat /\ r[1] \in DOMAIN heap /\ heap[r[1]] \in PageSet /\ r[2] \in DOMAIN heap[r[1]]
         /\ \A u \in Txns \ {t} : r \notin Live(write_set[u], pc[u])
         /\ r \notin Marked(write_set[t])
         /\ pc[t] = "running" /\ state[t] = "GROWING"
         /\ KInv => (r \notin Foot(write_set[t]) => Com(committed, r) = RowsOf(heap)[r].tuple)
<1>1. r \in RidsOf(heap) /\ Readable(heap[r[1]], r[2])
  BY Zenon DEF Targets, Rids, RidsOf, Pages, ReadableRid
<1>2. /\ r = <<r[1], r[2]>> /\ r[1] \in DOMAIN heap /\ r[2] \in DOMAIN heap[r[1]]
      /\ r \in DOMAIN RowsOf(heap) /\ RowsOf(heap)[r] = heap[r[1]][r[2]]
  BY Zenon, <1>1, RidMade
<1>3. heap[r[1]] \in PageSet /\ r[1] \in Nat
  BY <1>2, HeapFacts, HeapAssumption DEF IInv
<1>4. r[2] \in Nat /\ heap[r[1]][r[2]] \in Slot
  BY <1>2, <1>3, PageShape
<1>5. RowsOf(heap)[r].tuple \in Tuples /\ RowsOf(heap)[r].deleted = FALSE
  BY Zenon, <1>1, <1>2, <1>4 DEF Readable, Slot
<1>6. pc[t] = "running" /\ state[t] = "GROWING"
  BY Zenon DEF MayWrite
<1>7. \A u \in Txns : Marked(write_set[u]) \subseteq Foot(write_set[u])
  BY Zenon DEF Marked, Foot
<1>8. \A u \in Txns \ {t} : r \notin Live(write_set[u], pc[u])
  BY Zenon, <1>7 DEF IInv, Owned, Live, MayLock
<1>9. r \notin Marked(write_set[t])
  BY Zenon, <1>5, <1>6, <1>7 DEF IInv, Owned, InUse, Live
<1>10. ASSUME KInv, r \notin Foot(write_set[t])
       PROVE  Com(committed, r) = RowsOf(heap)[r].tuple
  <2>1. \A u \in Txns : r \notin Live(write_set[u], pc[u])
    BY Zenon, <1>6, <1>8, <1>10 DEF Live
  <2>2. RowsOf(heap)[r] = [tuple |-> Com(committed, r), deleted |-> FALSE]
    BY Zenon, <1>2, <1>10, <2>1 DEF KInv, Kept
  <2> QED BY <2>2
<1>11. r \in Nat \X Nat
  BY Zenon, <1>2, <1>3, <1>4
<1> QED BY Zenon, <1>1, <1>2, <1>3, <1>4, <1>5, <1>6, <1>8, <1>9, <1>10, <1>11

(* A caller marks a row. *)
LEMMA DeleteInv ==
  ASSUME IInv, NEW t \in Txns, NEW r \in Targets, Delete(t, r)
  PROVE  IInv' /\ (KInv => KInv')
<1> DEFINE rec == Record(r, "DELETE", NoTuple)
           x == Flagged(RowsOf(heap)[r], TRUE)
<1>1. UNCHANGED <<next, latch, inserting, state, failed, pc, readers, blocked, txn_map, committed>>
  BY Zenon DEF Delete, MarkDeleteAt, Change
<1>2. MayWrite(t) /\ MayLock(t, r)
  BY Zenon DEF Delete
<1>3. /\ r \in RidsOf(heap) /\ r \in DOMAIN RowsOf(heap) /\ RowsOf(heap)[r] = heap[r[1]][r[2]]
      /\ RowsOf(heap)[r].tuple \in Tuples /\ RowsOf(heap)[r].deleted = FALSE
      /\ r \in Nat \X Nat /\ r[1] \in DOMAIN heap /\ heap[r[1]] \in PageSet /\ r[2] \in DOMAIN heap[r[1]]
      /\ \A u \in Txns \ {t} : r \notin Live(write_set[u], pc[u])
      /\ r \notin Marked(write_set[t])
      /\ pc[t] = "running"
      /\ KInv => (r \notin Foot(write_set[t]) => Com(committed, r) = RowsOf(heap)[r].tuple)
  BY Zenon, <1>2, TargetRow
<1>4. /\ write_set' = [write_set EXCEPT ![t] = Append(@, rec)]
      /\ locks' = [locks EXCEPT ![t] = @ \cup {r}]
  BY Zenon DEF Delete, MarkDeleteAt
<1>5. x \in Slot /\ heap' = WithRow(heap, r, x)
  <2>1. Readable(heap[r[1]], r[2])
    BY Zenon DEF Targets, ReadableRid
  <2>2. heap' = [heap EXCEPT ![r[1]] = MarkDelete(heap[r[1]], r[2])]
    BY Zenon DEF Delete, MarkDeleteAt, Change
  <2>3. MarkDelete(heap[r[1]], r[2]) = WithSlot(heap[r[1]], r[2], x) /\ x \in Slot
    BY Zenon, <1>3, <2>1, MarkSets
  <2> QED BY Zenon, <2>2, <2>3 DEF WithRow
<1>6. x.tuple # NoTuple /\ x.tuple = RowsOf(heap)[r].tuple /\ x.deleted = TRUE
  BY Zenon, <1>3, TupleAssumption DEF Flagged
<1>7. rec.rid = r /\ rec.wtype = "DELETE" /\ rec.tuple = NoTuple /\ rec \in WriteRecord
  BY Zenon, <1>3 DEF Record, WriteRecord
<1> HIDE DEF rec, x
<1>8. HeapShape(heap', next, latch) /\ RowWritten(heap, r, x, heap')
  BY Zenon, <1>3, <1>5, SlotChanged DEF IInv
<1>9. Roomy(heap')
  BY Zenon, <1>3, <1>5, <1>6, SlotRoom DEF IInv
<1>10. /\ WriteShape(RidsOf(heap'), write_set', locks', committed, pc)
       /\ Owned(RowsOf(heap'), write_set', pc, locks')
       /\ KInv /\ Remembers(RowsOf(heap'), write_set, committed, t, rec)
            => Kept(RowsOf(heap'), write_set', pc, committed)
  BY Zenon, <1>3, <1>4, <1>6, <1>7, <1>8, Wrote
<1>11. RowsOf(heap')[r] = x
  BY Zenon, <1>8 DEF RowWritten
<1>12. KInv => Remembers(RowsOf(heap'), write_set, committed, t, rec)
  BY Zenon, <1>3, <1>6, <1>7, <1>11 DEF Remembers, Image
<1> QED BY Zenon, <1>1, <1>8, <1>9, <1>10, <1>12 DEF IInv, KInv

(* A caller updates a row, or the page has no room. *)
LEMMA UpdateInv ==
  ASSUME IInv, NEW t \in Txns, NEW r \in Targets, NEW tuple \in Tuples, Update(t, r, tuple)
  PROVE  IInv' /\ (KInv => KInv')
<1> DEFINE rec == Record(r, "UPDATE", RowsOf(heap)[r].tuple)
           x == Renamed(RowsOf(heap)[r], tuple)
<1>1. UNCHANGED <<next, latch, inserting, state, failed, pc, readers, blocked, txn_map, committed>>
  BY Zenon DEF Update, UpdateTupleAt, Change
<1>2. MayWrite(t) /\ MayLock(t, r)
  BY Zenon DEF Update
<1>3. /\ r \in RidsOf(heap) /\ r \in DOMAIN RowsOf(heap) /\ RowsOf(heap)[r] = heap[r[1]][r[2]]
      /\ RowsOf(heap)[r].tuple \in Tuples /\ RowsOf(heap)[r].deleted = FALSE
      /\ r \in Nat \X Nat /\ r[1] \in DOMAIN heap /\ heap[r[1]] \in PageSet /\ r[2] \in DOMAIN heap[r[1]]
      /\ \A u \in Txns \ {t} : r \notin Live(write_set[u], pc[u])
      /\ r \notin Marked(write_set[t])
      /\ pc[t] = "running" /\ state[t] = "GROWING"
      /\ KInv => (r \notin Foot(write_set[t]) => Com(committed, r) = RowsOf(heap)[r].tuple)
  BY Zenon, <1>2, TargetRow
<1>4. locks' = [locks EXCEPT ![t] = @ \cup {r}]
  BY Zenon DEF Update
<1>5. CASE CanUpdate(heap[r[1]], r[2], tuple)
  <2>1. write_set' = [write_set EXCEPT ![t] = Append(write_set[t], rec)]
    BY Zenon, <1>3, <1>5 DEF Update, UpdateTupleAt, Updated
  <2>2. x \in Slot /\ heap' = WithRow(heap, r, x)
    <3>1. heap' = [heap EXCEPT ![r[1]] = UpdateTuple(heap[r[1]], r[2], tuple)]
      BY Zenon DEF Update, UpdateTupleAt, Change
    <3>2. UpdateTuple(heap[r[1]], r[2], tuple) = WithSlot(heap[r[1]], r[2], x) /\ x \in Slot
      BY Zenon, <1>3, <1>5, UpdateSets
    <3> QED BY Zenon, <3>1, <3>2 DEF WithRow
  <2>3. x.tuple # NoTuple /\ x.tuple = tuple /\ x.deleted = FALSE
    BY Zenon, <1>3, TupleAssumption DEF Renamed
  <2>4. rec.rid = r /\ rec.wtype = "UPDATE" /\ rec.tuple = RowsOf(heap)[r].tuple /\ rec \in WriteRecord
    BY Zenon, <1>3, TupleAssumption DEF Record, WriteRecord
  <2> HIDE DEF rec, x
  <2>5. HeapShape(heap', next, latch) /\ RowWritten(heap, r, x, heap')
    BY Zenon, <1>3, <2>2, SlotChanged DEF IInv
  <2>6. Roomy(heap')
    <3>1. GetFreeSpaceRemaining(heap[r[1]]) + SizeAt(heap[r[1]], r[2]) >= Size[x.tuple]
      BY Zenon, <1>5, <2>3 DEF CanUpdate
    <3> QED BY Zenon, <1>3, <2>2, <2>3, <3>1, SlotRoom DEF IInv
  <2>7. /\ WriteShape(RidsOf(heap'), write_set', locks', committed, pc)
        /\ Owned(RowsOf(heap'), write_set', pc, locks')
        /\ KInv /\ Remembers(RowsOf(heap'), write_set, committed, t, rec)
             => Kept(RowsOf(heap'), write_set', pc, committed)
    BY Zenon, <1>3, <1>4, <2>1, <2>3, <2>4, <2>5, Wrote
  <2>8. KInv => Remembers(RowsOf(heap'), write_set, committed, t, rec)
    BY Zenon, <1>3, <2>4 DEF Remembers, Image
  <2> QED BY Zenon, <1>1, <2>5, <2>6, <2>7, <2>8 DEF IInv, KInv
<1>6. CASE ~CanUpdate(heap[r[1]], r[2], tuple)
  <2>1. write_set' = write_set /\ heap' = heap
    <3>1. /\ write_set' = [write_set EXCEPT ![t] = write_set[t]] /\ heap' = [heap EXCEPT ![r[1]] = heap[r[1]]]
      BY Zenon, <1>6 DEF Update, UpdateTupleAt, Updated, Change, UpdateTuple
    <3>2. write_set \in [Txns -> Seq(WriteRecord)] /\ heap \in [DOMAIN heap -> PageSet]
      BY Zenon, HeapFacts DEF IInv, WriteShape
    <3> QED BY Zenon, <3>1, <3>2
  <2>2. WriteShape(RidsOf(heap), write_set, locks', committed, pc)
    BY Zenon, <1>3, <1>4 DEF IInv, WriteShape
  <2>3. \A u \in Txns : locks[u] \subseteq locks'[u]
    BY Zenon, <1>4 DEF IInv, WriteShape
  <2>4. Owned(RowsOf(heap), write_set, pc, locks')
    BY Zenon, <2>3 DEF IInv, Owned
  <2> QED BY Zenon, <1>1, <2>1, <2>2, <2>4 DEF IInv, KInv
<1> QED BY Zenon, <1>5, <1>6

(* All tuples of the table have one size, as with columns of fixed length. *)
EqualSizes == \A a, b \in Tuples : Size[a] = Size[b]

(* Commit sets the state; its deletes are still to be applied. *)
LEMMA CommitInv ==
  ASSUME IInv, NEW t \in Txns, Commit(t)
  PROVE  IInv' /\ (KInv => KInv')
<1>1. UNCHANGED <<heap, next, latch, inserting, write_set, failed, readers, blocked, txn_map, locks>>
  BY Zenon DEF Commit
<1>2. /\ pc[t] = "running" /\ inserting[t] = NoTuple /\ pc' = [pc EXCEPT ![t] = "committing"]
      /\ pc \in [Txns -> {"none", "running", "committing", "aborting", "ended"}]
      /\ state' = [state EXCEPT ![t] = "COMMITTED"]
  BY Zenon DEF Commit, IInv, TxnShape
<1>3. TxnShape(inserting, state', pc', readers, txn_map, blocked)
  BY Zenon, <1>2 DEF IInv, TxnShape
<1>4. committed' = [rid \in RidsOf(heap) |-> IF rid \in Foot(write_set[t]) THEN Visible(rid) ELSE Com(committed, rid)]
  BY Zenon DEF Commit, Rids, RidsOf, Pages, Footprint, Foot, Committed, Com
<1>5. WriteShape(RidsOf(heap), write_set, locks, committed', pc')
  BY Zenon, <1>2, <1>4 DEF IInv, WriteShape
<1>6. pc'[t] = "committing" /\ \A u \in Txns \ {t} : pc'[u] = pc[u]
  BY Zenon, <1>2
<1>7. Owned(RowsOf(heap), write_set, pc', locks)
  <2>1. Live(write_set[t], pc'[t]) \subseteq Live(write_set[t], pc[t])
    BY Zenon, <1>2, <1>6 DEF Live, Marked, Foot
  <2>2. \A u \in Txns : Live(write_set[u], pc'[u]) \subseteq Live(write_set[u], pc[u])
    BY Zenon, <1>6, <2>1
  <2> QED BY Zenon, <2>2 DEF IInv, Owned, InUse, Apart
<1>8. RowsOf(heap) \in [DOMAIN RowsOf(heap) -> Slot] /\ DOMAIN RowsOf(heap) = RidsOf(heap)
  <2>1. DOMAIN RowsOf(heap) = RidsOf(heap)
    BY Zenon, RidMade
  <2>2. \A r \in RidsOf(heap) : heap[r[1]][r[2]] \in Slot
    BY RidMade, HeapFacts, PageShape DEF IInv
  <2> QED BY Zenon, <2>1, <2>2 DEF RowsOf
<1>9. ASSUME NEW r \in RidsOf(heap)
      PROVE  Com(committed', r) = IF r \in Foot(write_set[t])
                                  THEN IF RowsOf(heap)[r].deleted THEN NoTuple ELSE RowsOf(heap)[r].tuple
                                  ELSE Com(committed, r)
  <2>1. r[2] \in DOMAIN heap[r[1]] /\ RowsOf(heap)[r] = heap[r[1]][r[2]]
    BY Zenon, RidMade
  <2>2. Visible(r) = IF RowsOf(heap)[r].deleted THEN NoTuple ELSE RowsOf(heap)[r].tuple
    BY Zenon, <2>1 DEF Visible, ReadableRid, Readable
  <2>3. Com(committed', r) = IF r \in Foot(write_set[t]) THEN Visible(r) ELSE Com(committed, r)
    BY Zenon, <1>4 DEF Com
  <2> QED BY Zenon, <2>2, <2>3
<1>10. Elsewhere(pc, pc', t) /\ Commits(RowsOf(heap), write_set, committed, committed', t)
  BY Zenon, <1>6, <1>8, <1>9 DEF Elsewhere, Commits
<1>11. KInv => Kept(RowsOf(heap), write_set, pc', committed')
  BY Zenon, <1>2, <1>6, <1>8, <1>10, CommitKept DEF IInv, KInv
<1> QED BY Zenon, <1>1, <1>3, <1>5, <1>7, <1>11 DEF IInv, KInv

(* Abort sets the state. *)
LEMMA AbortInv ==
  ASSUME IInv, NEW t \in Txns, Abort(t)
  PROVE  IInv' /\ (KInv => KInv')
<1>1. UNCHANGED <<heap, next, latch, inserting, write_set, failed, readers, blocked, txn_map, locks, committed>>
  BY Zenon DEF Abort
<1>2. /\ pc[t] = "running" /\ inserting[t] = NoTuple /\ pc' = [pc EXCEPT ![t] = "aborting"]
      /\ pc \in [Txns -> {"none", "running", "committing", "aborting", "ended"}]
      /\ state' = [state EXCEPT ![t] = "ABORTED"]
  BY Zenon DEF Abort, IInv, TxnShape
<1>3. TxnShape(inserting, state', pc', readers, txn_map, blocked)
  BY Zenon, <1>2 DEF IInv, TxnShape
<1>4. WriteShape(RidsOf(heap), write_set, locks, committed, pc')
  BY Zenon, <1>2 DEF IInv, WriteShape
<1>5. /\ Elsewhere(pc, pc', t) /\ Elsewhere(locks, locks, t)
      /\ pc[t] = "committing" <=> pc'[t] = "committing"
  BY Zenon, <1>2 DEF Elsewhere
<1>6. Owned(RowsOf(heap), write_set, pc', locks) /\ (KInv => Kept(RowsOf(heap), write_set, pc', committed))
  BY Zenon, <1>5, PhaseKept DEF IInv, KInv
<1> QED BY Zenon, <1>1, <1>3, <1>4, <1>6 DEF IInv, KInv

(* The records are used up, and the transaction releases everything. *)
LEMMA FinishInv ==
  ASSUME IInv, NEW t \in Txns, Finish(t)
  PROVE  IInv' /\ (KInv => KInv')
<1>1. UNCHANGED <<heapVars, blocked, txn_map, committed>>
  BY Zenon DEF Finish
<1>2. /\ pc[t] \in {"committing", "aborting"} /\ write_set[t] = <<>> /\ pc' = [pc EXCEPT ![t] = "ended"]
      /\ pc \in [Txns -> {"none", "running", "committing", "aborting", "ended"}]
      /\ locks' = [locks EXCEPT ![t] = {}] /\ readers' = readers \ {t}
      /\ locks \in [Txns -> SUBSET RidsOf(heap)]
  BY Zenon DEF Finish, IInv, TxnShape, WriteShape
<1>3. TxnShape(inserting, state, pc', readers', txn_map, blocked)
  BY Zenon, <1>2 DEF IInv, TxnShape
<1>4. WriteShape(RidsOf(heap), write_set, locks', committed, pc')
  BY Zenon, <1>2 DEF IInv, WriteShape
<1>5. Elsewhere(pc, pc', t) /\ Elsewhere(locks, locks', t)
  BY Zenon, <1>2 DEF Elsewhere
<1>6. Owned(RowsOf(heap), write_set, pc', locks') /\ (KInv => Kept(RowsOf(heap), write_set, pc', committed))
  BY Zenon, <1>2, <1>5, PhaseKept DEF IInv, KInv
<1> QED BY Zenon, <1>1, <1>3, <1>4, <1>6 DEF IInv, KInv, heapVars

(* The row of the record that Commit or Abort takes next. *)
LEMMA LastRow ==
  ASSUME IInv, NEW t \in Txns, pc[t] \in {"committing", "aborting"}, write_set[t] # <<>>,
         NEW rec, rec = write_set[t][Len(write_set[t])], NEW v, v = Front(write_set[t])
  PROVE  /\ rec.rid \in RidsOf(heap) /\ RowsOf(heap)[rec.rid] = heap[rec.rid[1]][rec.rid[2]]
         /\ RowsOf(heap)[rec.rid] \in Slot /\ rec \in WriteRecord
         /\ rec.rid[1] \in DOMAIN heap /\ heap[rec.rid[1]] \in PageSet /\ rec.rid[2] \in DOMAIN heap[rec.rid[1]]
         /\ pc[t] = "aborting" \/ rec.wtype = "DELETE" => RowsOf(heap)[rec.rid].tuple # NoTuple
         /\ pc[t] = "aborting" /\ rec.wtype # "DELETE" => RowsOf(heap)[rec.rid].deleted = FALSE
         /\ rec.wtype = "INSERT" => rec.rid \notin Foot(v)
         /\ KInv /\ pc[t] = "aborting" /\ rec.rid \notin Foot(v) =>
              Com(committed, rec.rid) = Image(RowsOf(heap), rec)
         /\ KInv /\ pc[t] = "committing" /\ rec.wtype = "DELETE" => Com(committed, rec.rid) = NoTuple
<1>1. write_set[t] \in Seq(WriteRecord) /\ locks[t] \in SUBSET RidsOf(heap)
  BY Zenon DEF IInv, WriteShape
<1>2. Grown(v, rec, write_set[t]) /\ rec \in WriteRecord
  BY Zenon, <1>1, FrontGrows DEF Grown
<1>3. /\ Foot(write_set[t]) = Foot(v) \cup {rec.rid}
      /\ rec.wtype = "DELETE" => Marked(write_set[t]) = Marked(v) \cup {rec.rid}
      /\ rec.wtype # "DELETE" => Marked(write_set[t]) = Marked(v)
  BY <1>2, GrownSets
<1>4. /\ Ordered(write_set[t]) /\ InUse(RowsOf(heap), write_set[t], pc[t]) /\ Foot(write_set[t]) \subseteq locks[t]
  BY Zenon DEF IInv, Owned
<1>5. rec.rid \notin Marked(v) /\ (rec.wtype = "INSERT" => rec.rid \notin Foot(v))
  BY Zenon, <1>2, <1>4, GrownOrder
<1>6. rec.rid \in RidsOf(heap)
  BY Zenon, <1>1, <1>3, <1>4
<1>7. /\ RowsOf(heap)[rec.rid] = heap[rec.rid[1]][rec.rid[2]]
      /\ rec.rid[1] \in DOMAIN heap /\ rec.rid[2] \in DOMAIN heap[rec.rid[1]]
  BY <1>6, RidMade
<1>8. heap[rec.rid[1]] \in PageSet
  BY Zenon, <1>7, HeapFacts DEF IInv
<1>9. RowsOf(heap)[rec.rid] \in Slot
  BY Zenon, <1>7, <1>8, PageShape
<1>10. pc[t] = "aborting" \/ rec.wtype = "DELETE" => RowsOf(heap)[rec.rid].tuple # NoTuple
  BY Zenon, <1>3, <1>4 DEF InUse, Live
<1>11. pc[t] = "aborting" /\ rec.wtype # "DELETE" => RowsOf(heap)[rec.rid].deleted = FALSE
  <2>1. pc[t] = "aborting" /\ rec.wtype # "DELETE" => ~RowsOf(heap)[rec.rid].deleted
    BY Zenon, <1>3, <1>4, <1>5 DEF InUse, Live
  <2> QED BY Zenon, <2>1, <1>9 DEF Slot
<1>12. KInv /\ pc[t] = "aborting" /\ rec.rid \notin Foot(v) => Com(committed, rec.rid) = Image(RowsOf(heap), rec)
  <2>1. KInv /\ pc[t] = "aborting" => OldImages(RowsOf(heap), committed, write_set[t])
    BY Zenon DEF KInv, Kept
  <2> QED BY Zenon, <1>2, <2>1, GrownImages
<1>13. KInv /\ pc[t] = "committing" /\ rec.wtype = "DELETE" => Com(committed, rec.rid) = NoTuple
  BY Zenon, <1>3 DEF KInv, Kept
<1> QED BY Zenon, <1>2, <1>5, <1>6, <1>7, <1>8, <1>9, <1>10, <1>11, <1>12, <1>13

(* What a step of Commit or Abort must show of the row it leaves. *)
LEMMA PopInv ==
  ASSUME IInv, NEW t \in Txns, pc[t] \in {"committing", "aborting"}, write_set[t] # <<>>,
         NEW rec, rec = write_set[t][Len(write_set[t])], NEW x \in Slot,
         heap' = heap \/ heap' = WithRow(heap, rec.rid, x),
         pc[t] = "committing" /\ rec.wtype # "DELETE" => heap' = heap,
         pc[t] = "aborting" /\ rec.rid \in Foot(Front(write_set[t])) =>
           RowsOf(heap')[rec.rid].tuple # NoTuple /\ ~RowsOf(heap')[rec.rid].deleted,
         Roomy(heap'),
         write_set' = [write_set EXCEPT ![t] = Front(@)],
         UNCHANGED <<next, latch, inserting, state, failed, pc, readers, blocked, txn_map, locks, committed>>
  PROVE  /\ IInv'
         /\ KInv /\ Restores(RowsOf(heap'), pc, committed, t, rec, Front(write_set[t])) => KInv'
<1>1. rec.rid \in RidsOf(heap)
  BY Zenon, LastRow
<1>2. HeapShape(heap', next, latch) /\ (heap' = heap \/ RowWritten(heap, rec.rid, x, heap'))
  BY <1>1, SlotChanged DEF IInv
<1>3. /\ WriteShape(RidsOf(heap'), write_set', locks, committed, pc)
      /\ Owned(RowsOf(heap'), write_set', pc, locks)
      /\ KInv /\ Restores(RowsOf(heap'), pc, committed, t, rec, Front(write_set[t]))
           => Kept(RowsOf(heap'), write_set', pc, committed)
  BY Zenon, <1>1, <1>2, Popped
<1> QED BY Zenon, <1>2, <1>3 DEF IInv, KInv

(* Commit applies a delete or drops another record. *)
LEMMA CommitRecordInv ==
  ASSUME IInv, NEW t \in Txns, CommitRecord(t)
  PROVE  IInv' /\ (KInv => KInv')
<1> DEFINE rec == write_set[t][Len(write_set[t])]
           r == rec.rid
<1>1. pc[t] = "committing" /\ write_set[t] # <<>> /\ write_set' = [write_set EXCEPT ![t] = Front(@)]
      /\ UNCHANGED <<state, pc, readers, blocked, txn_map, locks, committed>>
  BY Zenon DEF CommitRecord
<1>2. /\ r \in RidsOf(heap) /\ RowsOf(heap)[r] = heap[r[1]][r[2]]
      /\ r[1] \in DOMAIN heap /\ heap[r[1]] \in PageSet /\ r[2] \in DOMAIN heap[r[1]]
      /\ rec.wtype = "DELETE" => RowsOf(heap)[r].tuple # NoTuple
      /\ KInv /\ rec.wtype = "DELETE" => Com(committed, r) = NoTuple
  BY Zenon, <1>1, LastRow
<1>3. Empty \in Slot
  BY Zenon, ApplySets
<1>4. CASE rec.wtype # "DELETE"
  <2>1. UNCHANGED <<heap, next, latch, inserting, failed>>
    BY Zenon, <1>4 DEF CommitRecord
  <2>2. Restores(RowsOf(heap'), pc, committed, t, rec, Front(write_set[t]))
    BY Zenon, <1>1, <1>4 DEF Restores
  <2> HIDE DEF rec, r
  <2> QED BY Zenon, <1>1, <1>3, <2>1, <2>2, PopInv DEF IInv, rec
<1>5. CASE rec.wtype = "DELETE"
  <2>1. CanApplyDelete(heap[r[1]], r[2])
    BY Zenon, <1>2, <1>5 DEF CanApplyDelete
  <2>2. heap' = [heap EXCEPT ![r[1]] = ApplyDelete(heap[r[1]], r[2])] /\ failed' = FALSE
        /\ UNCHANGED <<next, latch, inserting>>
    BY Zenon, <1>5, <2>1 DEF CommitRecord, ApplyDeleteAt, Change
  <2> HIDE DEF rec, r
  <2>3. heap' = WithRow(heap, r, Empty)
    BY Zenon, <2>2, ApplySets DEF WithRow
  <2>4. Roomy(heap')
    <3>1. Empty.tuple = NoTuple
      BY Zenon DEF Empty
    <3> QED BY Zenon, <1>2, <1>3, <2>3, <3>1, SlotRoom DEF IInv
  <2>5. RowsOf(heap')[r] = Empty
    <3>1. RowWritten(heap, r, Empty, heap')
      BY Zenon, <1>2, <1>3, <2>3, SlotChanged DEF IInv
    <3> QED BY Zenon, <3>1 DEF RowWritten
  <2>6. KInv => Restores(RowsOf(heap'), pc, committed, t, rec, Front(write_set[t]))
    BY Zenon, <1>2, <1>5, <2>5 DEF Restores, Empty, r
  <2>7. failed' = failed
    BY Zenon, <2>2 DEF IInv
  <2> QED BY Zenon, <1>1, <1>3, <1>5, <2>2, <2>3, <2>4, <2>6, <2>7, PopInv DEF rec, r
<1> QED BY Zenon, <1>4, <1>5

(* Where all tuples have one size, a page has room for what was there. *)
LEMMA RoomForOld ==
  ASSUME EqualSizes, NEW p \in PageSet, GetFreeSpaceRemaining(p) >= 0, NEW s, Readable(p, s), NEW u \in Tuples
  PROVE  CanUpdate(p, s, u)
<1>1. s \in DOMAIN p /\ p[s].tuple # NoTuple /\ p[s].tuple \in Tuples
  BY Zenon, PageShape DEF Readable, Slot
<1>2. SizeAt(p, s) = Size[u] /\ Size[u] \in Nat /\ GetFreeSpaceRemaining(p) \in Int
  BY Zenon, <1>1, SpaceType, TupleAssumption DEF SizeAt, EqualSizes
<1> QED BY <1>2 DEF CanUpdate

(* Abort undoes a record. Undoing an update can fail for want of room unless *)
(* all tuples have one size.                                                 *)
LEMMA AbortRecordInv ==
  ASSUME IInv, NEW t \in Txns, AbortRecord(t)
  PROVE  IInv' /\ (EqualSizes /\ KInv => KInv')
<1> DEFINE rec == write_set[t][Len(write_set[t])]
           r == rec.rid
           v == Front(write_set[t])
<1>1. /\ pc[t] = "aborting" /\ write_set[t] # <<>>
      /\ UNCHANGED <<state, pc, readers, blocked, txn_map, locks, committed>>
  BY Zenon DEF AbortRecord
<1>2. /\ r \in RidsOf(heap) /\ RowsOf(heap)[r] = heap[r[1]][r[2]] /\ RowsOf(heap)[r] \in Slot
      /\ r[1] \in DOMAIN heap /\ heap[r[1]] \in PageSet /\ r[2] \in DOMAIN heap[r[1]]
      /\ RowsOf(heap)[r].tuple # NoTuple /\ rec \in WriteRecord
      /\ rec.wtype # "DELETE" => RowsOf(heap)[r].deleted = FALSE
      /\ rec.wtype = "INSERT" => r \notin Foot(v)
      /\ KInv /\ r \notin Foot(v) => Com(committed, r) = Image(RowsOf(heap), rec)
  BY Zenon, <1>1, LastRow
<1>3. write_set' = [write_set EXCEPT ![t] = Front(@)]
  <2>1. Updated(t, r, rec.tuple) = write_set[t]
    BY Zenon, <1>1 DEF IInv, TxnShape, Updated
  <2> QED BY Zenon, <2>1 DEF AbortRecord
<1>4. /\ UNCHANGED <<next, latch, inserting>>
      /\ rec.tuple # NoTuple <=> rec.wtype = "UPDATE"
      /\ rec.tuple \in Tuples \cup {NoTuple}
      /\ rec.wtype \in {"INSERT", "DELETE", "UPDATE"}
  BY Zenon, <1>2 DEF AbortRecord, RollbackDeleteAt, ApplyDeleteAt, Change, WriteRecord
<1>5. CASE rec.wtype = "DELETE"
  <2> DEFINE x == Flagged(RowsOf(heap)[r], FALSE)
  <2>1. CanRollbackDelete(heap[r[1]], r[2])
    BY Zenon, <1>2 DEF CanRollbackDelete
  <2>2. heap' = [heap EXCEPT ![r[1]] = RollbackDelete(heap[r[1]], r[2])] /\ failed' = FALSE
    BY Zenon, <1>5, <2>1 DEF AbortRecord, RollbackDeleteAt, Change
  <2>3. x \in Slot /\ x.tuple = RowsOf(heap)[r].tuple /\ x.deleted = FALSE
        /\ x = [tuple |-> RowsOf(heap)[r].tuple, deleted |-> FALSE]
    BY Zenon, <1>2, RollbackSets DEF Flagged
  <2>4. RollbackDelete(heap[r[1]], r[2]) = WithSlot(heap[r[1]], r[2], x)
    BY Zenon, <1>2, RollbackSets
  <2> HIDE DEF rec, r, v, x
  <2>5. heap' = WithRow(heap, r, x)
    BY Zenon, <2>2, <2>4 DEF WithRow
  <2>6. Roomy(heap')
    BY Zenon, <1>2, <2>3, <2>5, SlotRoom DEF IInv
  <2>7. RowsOf(heap')[r] = x
    <3>1. RowWritten(heap, r, x, heap')
      BY Zenon, <1>2, <2>3, <2>5, SlotChanged DEF IInv
    <3> QED BY Zenon, <3>1 DEF RowWritten
  <2>8. KInv => Restores(RowsOf(heap'), pc, committed, t, rec, v)
    BY Zenon, <1>1, <1>2, <1>5, <2>3, <2>7 DEF Restores, Image, r
  <2>9. failed' = failed
    BY Zenon, <2>2 DEF IInv
  <2>10. RowsOf(heap')[r].tuple # NoTuple /\ ~RowsOf(heap')[r].deleted
    BY Zenon, <1>2, <2>3, <2>7
  <2> QED BY Zenon, <1>1, <1>3, <1>4, <2>3, <2>5, <2>6, <2>8, <2>9, <2>10, PopInv DEF rec, r, v
<1>6. CASE rec.wtype = "INSERT"
  <2>1. CanApplyDelete(heap[r[1]], r[2])
    BY Zenon, <1>2 DEF CanApplyDelete
  <2>2. heap' = [heap EXCEPT ![r[1]] = ApplyDelete(heap[r[1]], r[2])] /\ failed' = FALSE
    BY Zenon, <1>6, <2>1 DEF AbortRecord, ApplyDeleteAt, Change
  <2> HIDE DEF rec, r, v
  <2>3. heap' = WithRow(heap, r, Empty) /\ Empty \in Slot
    BY Zenon, <2>2, ApplySets DEF WithRow
  <2>4. Roomy(heap')
    <3>1. Empty.tuple = NoTuple
      BY Zenon DEF Empty
    <3> QED BY Zenon, <1>2, <2>3, <3>1, SlotRoom DEF IInv
  <2>5. RowsOf(heap')[r] = Empty
    <3>1. RowWritten(heap, r, Empty, heap')
      BY Zenon, <1>2, <2>3, SlotChanged DEF IInv
    <3> QED BY Zenon, <3>1 DEF RowWritten
  <2>6. KInv => Restores(RowsOf(heap'), pc, committed, t, rec, v)
    BY Zenon, <1>2, <1>4, <1>6, <2>5 DEF Restores, Image, Empty, r
  <2>7. failed' = failed
    BY Zenon, <2>2 DEF IInv
  <2> QED BY Zenon, <1>1, <1>2, <1>3, <1>4, <1>6, <2>3, <2>4, <2>6, <2>7, PopInv DEF rec, r, v
<1>7. CASE rec.wtype = "UPDATE" /\ CanUpdate(heap[r[1]], r[2], rec.tuple)
  <2> DEFINE x == Renamed(RowsOf(heap)[r], rec.tuple)
  <2>1. heap' = [heap EXCEPT ![r[1]] = UpdateTuple(heap[r[1]], r[2], rec.tuple)] /\ failed' = failed
    BY Zenon, <1>7 DEF AbortRecord, Change
  <2>2. rec.tuple \in Tuples /\ rec.tuple # NoTuple
    BY Zenon, <1>4, <1>7
  <2>3. UpdateTuple(heap[r[1]], r[2], rec.tuple) = WithSlot(heap[r[1]], r[2], x) /\ x \in Slot
    BY Zenon, <1>2, <1>7, <2>2, UpdateSets
  <2>4. x.tuple = rec.tuple /\ x.deleted = FALSE /\ x = [tuple |-> rec.tuple, deleted |-> FALSE]
    BY Zenon, <1>2, <1>7 DEF Renamed
  <2> HIDE DEF rec, r, v, x
  <2>5. heap' = WithRow(heap, r, x)
    BY Zenon, <2>1, <2>3 DEF WithRow
  <2>6. Roomy(heap')
    <3>1. GetFreeSpaceRemaining(heap[r[1]]) + SizeAt(heap[r[1]], r[2]) >= Size[x.tuple]
      BY Zenon, <1>7, <2>4 DEF CanUpdate
    <3> QED BY Zenon, <1>2, <2>2, <2>3, <2>4, <2>5, <3>1, SlotRoom DEF IInv
  <2>7. RowsOf(heap')[r] = x
    <3>1. RowWritten(heap, r, x, heap')
      BY Zenon, <1>2, <2>3, <2>5, SlotChanged DEF IInv
    <3> QED BY Zenon, <3>1 DEF RowWritten
  <2>8. KInv => Restores(RowsOf(heap'), pc, committed, t, rec, v)
    BY Zenon, <1>1, <1>2, <1>7, <2>4, <2>7 DEF Restores, Image, r
  <2>9. RowsOf(heap')[r].tuple # NoTuple /\ ~RowsOf(heap')[r].deleted
    BY Zenon, <2>2, <2>4, <2>7
  <2> QED BY Zenon, <1>1, <1>3, <1>4, <2>1, <2>3, <2>5, <2>6, <2>8, <2>9, PopInv DEF rec, r, v
<1>8. CASE rec.wtype = "UPDATE" /\ ~CanUpdate(heap[r[1]], r[2], rec.tuple)
  <2>1. heap' = [heap EXCEPT ![r[1]] = heap[r[1]]] /\ failed' = failed
    BY Zenon, <1>8 DEF AbortRecord, Change, UpdateTuple
  <2>2. heap' = heap
    <3>1. heap \in [DOMAIN heap -> PageSet]
      BY Zenon, HeapFacts DEF IInv
    <3> QED BY Zenon, <2>1, <3>1
  <2>3. ~EqualSizes
    <3>1. rec.tuple \in Tuples
      BY Zenon, <1>4, <1>8
    <3>2. Readable(heap[r[1]], r[2]) /\ GetFreeSpaceRemaining(heap[r[1]]) >= 0
      BY Zenon, <1>2, <1>8 DEF Readable, IInv, Roomy
    <3> QED BY Zenon, <1>2, <1>8, <3>1, <3>2, RoomForOld
  <2> HIDE DEF rec, r, v
  <2>4. RowsOf(heap')[r].tuple # NoTuple /\ ~RowsOf(heap')[r].deleted
    BY Zenon, <1>2, <1>8, <2>2
  <2>5. Roomy(heap')
    BY Zenon, <2>2 DEF IInv
  <2>6. IInv'
    BY Zenon, <1>1, <1>2, <1>3, <1>4, <2>1, <2>2, <2>4, <2>5, PopInv DEF rec, r, v
  <2> QED BY Zenon, <2>3, <2>6
<1> QED BY Zenon, <1>4, <1>5, <1>6, <1>7, <1>8

(* BlockAllTransactions waits for all transactions to end. *)
LEMMA BlockInv ==
  ASSUME IInv, BlockAllTransactions \/ ResumeTransactions
  PROVE  IInv' /\ (KInv => KInv')
<1>1. UNCHANGED <<heapVars, pc, readers, txn_map, locks, committed>>
  BY Zenon DEF BlockAllTransactions, ResumeTransactions
<1>2. TxnShape(inserting, state, pc, readers, txn_map, blocked')
  BY Zenon DEF IInv, TxnShape, BlockAllTransactions, ResumeTransactions
<1> QED BY Zenon, <1>1, <1>2 DEF IInv, KInv, heapVars

(* Every step keeps the invariants. *)
LEMMA StepInv ==
  ASSUME IInv, [Next]_vars
  PROVE  IInv' /\ (EqualSizes /\ KInv => KInv')
<1>1. ASSUME NEW t \in Txns, Call(t)
      PROVE  IInv' /\ (KInv => KInv')
  <2>1. CASE Begin(t)
    BY Zenon, <2>1, BeginInv
  <2>2. CASE Commit(t)
    BY Zenon, <2>2, CommitInv
  <2>3. CASE Abort(t)
    BY Zenon, <2>3, AbortInv
  <2>4. CASE \E tuple \in Tuples : Insert(t, tuple)
    BY Zenon, <2>4, InsertCallInv
  <2>5. CASE \E rid \in Targets : Delete(t, rid)
    BY Zenon, <2>5, DeleteInv
  <2>6. CASE \E rid \in Targets : \E tuple \in Tuples : Update(t, rid, tuple)
    BY Zenon, <2>6, UpdateInv
  <2> QED BY Zenon, <1>1, <2>1, <2>2, <2>3, <2>4, <2>5, <2>6 DEF Call
<1>2. ASSUME NEW t \in Txns, InsertRun(t)
      PROVE  IInv' /\ (KInv => KInv')
  <2>1. CASE InsertLatch(t)
    BY Zenon, <1>2, <2>1, LatchInv
  <2>2. CASE \E p \in Pages : InsertHere(t, p)
    BY Zenon, <1>2, <2>2, HereInv
  <2>3. CASE \E p \in Pages : InsertMove(t, p)
    BY Zenon, <1>2, <2>3, MoveInv
  <2>4. CASE \E p \in Pages : InsertGrow(t, p)
    BY Zenon, <1>2, <2>4, GrowInv
  <2>5. CASE \E p \in Pages : InsertFail(t, p)
    BY Zenon, <1>2, <2>5, FailInv
  <2> QED BY Zenon, <1>2, <2>1, <2>2, <2>3, <2>4, <2>5 DEF InsertRun, InsertStep
<1>3. ASSUME NEW t \in Txns, Busy(t)
      PROVE  IInv' /\ (EqualSizes /\ KInv => KInv')
  BY Zenon, <1>2, <1>3, CommitRecordInv, AbortRecordInv, FinishInv DEF Busy
<1>4. CASE BlockAllTransactions \/ ResumeTransactions
  BY Zenon, <1>4, BlockInv
<1>5. CASE UNCHANGED vars
  BY Zenon, <1>5 DEF IInv, KInv, vars, heapVars
<1> QED BY Zenon, <1>1, <1>3, <1>4, <1>5 DEF Next

(* The inductive invariant holds throughout, for every number of             *)
(* transactions, pages and write records.                                    *)
THEOREM TransactionsInductive == Spec => []IInv
<1>1. Init => IInv
  BY Zenon, InvInit
<1>2. IInv /\ [Next]_vars => IInv'
  BY Zenon, StepInv
<1> QED BY <1>1, <1>2, PTL DEF Spec

(* Inserters that race for the end of the list never lose a page, and        *)
(* everything has its type: whoever adds a page holds the latch of the last  *)
(* one (TableHeap::InsertTuple).                                             *)
THEOREM PagesListed == Spec => []HeapLinked
BY TransactionsInductive, InvTypes, PTL

(* The assertions of ApplyDelete and RollbackDelete never fail in Commit and *)
(* Abort, whatever the other transactions do to the page in between and      *)
(* whatever the tuples' sizes.                                               *)
THEOREM EndingNeverFails == Spec => []AssertionsHold
<1>1. IInv => AssertionsHold
  BY Zenon DEF IInv, AssertionsHold
<1> QED BY <1>1, TransactionsInductive, PTL

(* A tuple that InsertTuple does not turn away fits into a new page, so its  *)
(* loop adds one page at most.                                               *)
THEOREM NewPageTakesTuple == Spec => []NewPageAccepts
<1>1. ASSUME IInv, NEW p \in Pages, latch[p] # NoTxn, heap[p] = EmptyPage
      PROVE  CanInsert(heap[p], inserting[latch[p]])
  <2>1. latch \in [DOMAIN heap -> Txns \cup {NoTxn}]
    BY Zenon, <1>1, HeapFacts DEF IInv
  <2>2. latch[p] \in Txns /\ inserting[latch[p]] # NoTuple
    BY Zenon, <1>1, <2>1 DEF IInv, Latched, Pages
  <2>3. inserting[latch[p]] \in Tuples /\ ~TooLarge(inserting[latch[p]])
    BY Zenon, <1>1, <2>2 DEF IInv, TxnShape
  <2> QED BY <1>1, <2>3, SpaceEmpty, TupleAssumption DEF CanInsert, TooLarge, SIZE_TABLE_PAGE_HEADER, SIZE_TUPLE
<1>2. IInv => NewPageAccepts
  BY Zenon, <1>1 DEF NewPageAccepts
<1> QED BY <1>2, TransactionsInductive, PTL

(* An empty table is as committed. *)
LEMMA InitKept == Init => KInv
<1> SUFFICES ASSUME Init PROVE KInv
  BY Zenon
<1>1. \A t \in Txns : write_set[t] = <<>> /\ pc[t] = "none"
  BY Zenon DEF Init, HeapInit
<1>2. DOMAIN RowsOf(heap) = {}
  <2>1. \A r : r \notin RidsOf(heap)
    BY RidMade DEF Init, HeapInit, EmptyPage
  <2> QED BY Zenon, <2>1, RidMade
<1> QED BY <1>1, <1>2 DEF KInv, Kept, OldImages

(* A row without write records is as committed. *)
LEMMA RowsAre ==
  ASSUME IInv, KInv, NEW r \in Rids, \A t \in Txns : r \notin Foot(write_set[t])
  PROVE  heap[r[1]][r[2]] = [tuple |-> Committed(r), deleted |-> FALSE]
<1>1. r \in RidsOf(heap)
  BY Zenon DEF Rids, RidsOf, Pages
<1>2. r \in DOMAIN RowsOf(heap) /\ RowsOf(heap)[r] = heap[r[1]][r[2]]
  BY Zenon, <1>1, RidMade
<1>3. \A t \in Txns : r \notin Live(write_set[t], pc[t])
  BY Zenon DEF Live, Marked, Foot
<1>4. RowsOf(heap)[r] = [tuple |-> Com(committed, r), deleted |-> FALSE]
  BY Zenon, <1>2, <1>3 DEF KInv, Kept
<1> QED BY Zenon, <1>2, <1>4 DEF Committed, Com

(* Both invariants together, where all tuples have one size. *)
LEMMA KeptAlways == EqualSizes => (Spec => [](IInv /\ KInv))
<1> SUFFICES ASSUME EqualSizes PROVE Spec => [](IInv /\ KInv)
  BY Zenon
<1>1. Init => IInv /\ KInv
  BY Zenon, InvInit, InitKept
<1>2. (IInv /\ KInv) /\ [Next]_vars => (IInv /\ KInv)'
  BY Zenon, StepInv
<1> QED BY <1>1, <1>2, PTL DEF Spec

(* Commit and Abort are atomic where all tuples have one size: a row without *)
(* write records holds what the last commit left in it. Without the          *)
(* hypothesis it is false: an update that shrank a row cannot always be      *)
(* undone (run txn_rollback_space).                                          *)
THEOREM EndingIsAtomic == EqualSizes => (Spec => []RowsCommitted)
<1>1. IInv /\ KInv => RowsCommitted
  BY RowsAre DEF RowsCommitted, Footprint, Foot
<1> QED BY <1>1, KeptAlways, PTL

(* BlockAllTransactions sees the committed rows and no insert under way,     *)
(* where all tuples have one size.                                           *)
THEOREM BlockingIsQuiescent == EqualSizes => (Spec => []BlockedIsQuiescent)
<1>1. IInv /\ KInv => BlockedIsQuiescent
  <2> SUFFICES ASSUME IInv, KInv, blocked PROVE BlockedIsQuiescent
    BY Zenon DEF BlockedIsQuiescent
  <2>1. \A t \in Txns : pc[t] \in {"none", "ended"}
    BY Zenon DEF IInv, TxnShape
  <2>2. \A t \in Txns : write_set[t] = <<>> /\ inserting[t] = NoTuple
    BY Zenon, <2>1 DEF IInv, TxnShape, WriteShape
  <2>3. \A r \in Rids : \A t \in Txns : r \notin Foot(write_set[t])
    BY <2>2 DEF Foot
  <2> QED BY Zenon, <2>2, <2>3, RowsAre DEF BlockedIsQuiescent
<1> QED BY <1>1, KeptAlways, PTL
===============================================================================
