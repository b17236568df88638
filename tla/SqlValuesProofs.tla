-------------------------- MODULE SqlValuesProofs ---------------------------
(***************************************************************************)
(* Integer values stay bit patterns of their type; sums, differences,      *)
(* products, quotients and remainders are exact or refused; casts lose     *)
(* nothing; comparisons are one order: for every width of the four types.  *)
(* Then the same of casts and comparisons between the kinds of types, and  *)
(* that ValueFactory, which repeats the casts, agrees with them.           *)
(***************************************************************************)
EXTENDS SqlValues, TLAPS

(* Each half is a number larger than 1. *)
LEMMA Halves ==
  ASSUME NEW t \in IntTypes
  PROVE  Half[t] \in Nat /\ Half[t] > 1
BY HalfAssumption

(* Casting gives a bit pattern of the type. *)
LEMMA CastRange ==
  ASSUME NEW t \in IntTypes, NEW n \in Int
  PROVE  Cast(t, n) \in Int /\ Fits(t, Cast(t, n))
<1> DEFINE h == Half[t]
<1>1. h \in Nat /\ h > 1
  BY Zenon, Halves
<1>2. (n + h) % (2 * h) \in 0 .. 2 * h - 1
  BY <1>1
<1> QED BY <1>1, <1>2 DEF Cast, Fits

(* Casting keeps what fits the type. *)
LEMMA CastFits ==
  ASSUME NEW t \in IntTypes, NEW n \in Int, Fits(t, n)
  PROVE  Cast(t, n) = n
<1> DEFINE h == Half[t]
<1>1. h \in Nat /\ h > 1
  BY Zenon, Halves
<1>2. n + h \in 0 .. 2 * h - 1
  BY <1>1 DEF Fits
<1>3. (n + h) % (2 * h) = n + h
  BY <1>1, <1>2
<1> QED BY <1>1, <1>3 DEF Cast

(* What is too large by less than all bit patterns wraps once. *)
LEMMA CastAbove ==
  ASSUME NEW t \in IntTypes, NEW n \in Half[t] .. 3 * Half[t] - 1
  PROVE  Cast(t, n) = n - 2 * Half[t]
<1> DEFINE h == Half[t]
<1>1. h \in Nat /\ h > 1 /\ n \in Int
  BY Halves
<1>2. (n + h) % (2 * h) = n + h - 2 * h
  BY <1>1
<1> QED BY <1>1, <1>2 DEF Cast

(* What is too small by less than that wraps once. *)
LEMMA CastBelow ==
  ASSUME NEW t \in IntTypes, NEW n \in -3 * Half[t] .. -Half[t] - 1
  PROVE  Cast(t, n) = n + 2 * Half[t]
<1> DEFINE h == Half[t]
<1>1. h \in Nat /\ h > 1 /\ n \in Int
  BY Halves
<1>2. (n + h) % (2 * h) = n + h + 2 * h
  BY <1>1
<1> QED BY <1>1, <1>2 DEF Cast

(* The wider of two types is one of them, and at least as wide as each. *)
LEMMA WiderOfTwo ==
  ASSUME NEW t \in IntTypes, NEW u \in IntTypes
  PROVE  /\ Wider(t, u) \in {t, u} /\ Wider(t, u) \in IntTypes
         /\ Half[t] <= Half[Wider(t, u)] /\ Half[u] <= Half[Wider(t, u)]
BY Halves DEF Wider

(* C++ computes in the wider type itself, or in INTEGER, where sums and     *)
(* differences of narrower operands cannot overflow.                        *)
LEMMA PromotedType ==
  ASSUME NEW t \in IntTypes, NEW u \in IntTypes
  PROVE  /\ Promoted(t, u) \in IntTypes
         /\ \/ Promoted(t, u) = Wider(t, u)
            \/ 2 * Half[Wider(t, u)] - 2 < Half[Promoted(t, u)]
<1> DEFINE w == Wider(t, u)
           s == Half["SMALLINT"]
<1>1. w \in IntTypes
  BY Zenon, WiderOfTwo
<1>2. Promoted(t, u) = IF Half[w] >= Half["INTEGER"] THEN w ELSE "INTEGER"
  BY Zenon DEF Promoted, Wider
<1>3. s \in Nat /\ s > 1 /\ Half["TINYINT"] \in Nat /\ Half["INTEGER"] \in Nat /\ Half["BIGINT"] \in Nat
  BY HalfAssumption DEF IntTypes
<1>4. ASSUME Half[w] < Half["INTEGER"]
      PROVE  2 * Half[w] - 2 < Half["INTEGER"]
  <2>1. Half[w] <= s /\ Half[w] \in Nat
    BY <1>1, <1>3, <1>4, HalfAssumption DEF IntTypes
  <2>2. s * s < Half["INTEGER"]
    BY Zenon, HalfAssumption
  <2>3. 2 * s - 2 < s * s
    <3> HIDE DEF s
    <3>1. s * s >= 2 * s
      BY <1>3
    <3> QED BY <3>1, <1>3
  <2> HIDE DEF s
  <2> QED BY <2>1, <2>2, <2>3, <1>3
<1> QED BY <1>1, <1>2, <1>3, <1>4 DEF IntTypes

(* What fits neither operand's type changes in both casts. *)
LEMMA CastsChange ==
  ASSUME NEW t \in IntTypes, NEW u \in IntTypes, NEW n \in Int, ~Fits(Wider(t, u), n)
  PROVE  n # Cast(t, n) /\ n # Cast(u, n)
<1>1. Half[t] \in Nat /\ Half[u] \in Nat /\ Half[Wider(t, u)] \in Nat
  BY Zenon, Halves, WiderOfTwo
<1>2. ~Fits(t, n) /\ ~Fits(u, n)
  BY <1>1, WiderOfTwo DEF Fits
<1> QED BY Zenon, <1>2, CastRange

(* What C++ computes for a sum or difference n of two numbers that are not   *)
(* the smallest of their types.                                              *)
LEMMA RawSum ==
  ASSUME NEW t \in IntTypes, NEW u \in IntTypes, NEW n \in Int,
         n <= 2 * Half[Wider(t, u)] - 2, n >= 2 - 2 * Half[Wider(t, u)]
  PROVE  LET w == Wider(t, u)
             raw == Cast(Promoted(t, u), n)
             m == Cast(w, raw)
         IN /\ Fits(w, n) => /\ raw = n /\ m = n
                             /\ raw = Cast(t, raw) \/ raw = Cast(u, raw)
            /\ ~Fits(w, n) => \/ raw # Cast(t, raw) /\ raw # Cast(u, raw)
                              \/ n > 0 /\ m < 0
                              \/ n < 0 /\ m > 0
<1> DEFINE w == Wider(t, u)
           p == Promoted(t, u)
           h == Half[w]
           raw == Cast(p, n)
           m == Cast(w, raw)
<1>1. /\ w \in IntTypes /\ w \in {t, u} /\ p \in IntTypes
      /\ h \in Nat /\ h > 1 /\ Half[p] \in Nat
      /\ p = w \/ 2 * h - 2 < Half[p]
      /\ n <= 2 * h - 2 /\ n >= 2 - 2 * h
  BY Zenon, WiderOfTwo, PromotedType, Halves
<1>2. ASSUME Fits(w, n)
      PROVE  raw = n /\ m = n /\ (raw = Cast(t, raw) \/ raw = Cast(u, raw))
  <2>1. Fits(p, n)
    BY <1>1, <1>2 DEF Fits
  <2>2. raw = n
    BY Zenon, <1>1, <2>1, CastFits
  <2>3. Cast(w, n) = n
    BY Zenon, <1>1, <1>2, CastFits
  <2> QED BY Zenon, <1>1, <2>2, <2>3
<1>3. ASSUME ~Fits(w, n), p # w
      PROVE  raw # Cast(t, raw) /\ raw # Cast(u, raw)
  <2>1. Fits(p, n)
    BY <1>1, <1>3 DEF Fits
  <2>2. raw = n
    BY Zenon, <1>1, <2>1, CastFits
  <2> QED BY Zenon, <1>3, <2>2, CastsChange
<1>4. ASSUME ~Fits(w, n), p = w
      PROVE  (n > 0 /\ m < 0) \/ (n < 0 /\ m > 0)
  <2>1. m = raw
    BY <1>1, <1>4, CastRange, CastFits
  <2>2. CASE n > 0
    <3>1. n \in h .. 3 * h - 1
      BY <1>1, <1>4, <2>2 DEF Fits
    <3>2. raw = n - 2 * h
      BY Zenon, <1>1, <1>4, <3>1, CastAbove
    <3> HIDE DEF h, m, raw
    <3> QED BY <1>1, <2>1, <2>2, <3>2
  <2>3. CASE ~(n > 0)
    <3>1. n \in -3 * h .. -h - 1
      BY <1>1, <1>4, <2>3 DEF Fits
    <3>2. raw = n + 2 * h
      BY Zenon, <1>1, <1>4, <3>1, CastBelow
    <3> HIDE DEF h, m, raw
    <3> QED BY <1>1, <2>1, <2>3, <3>1, <3>2
  <2> QED BY Zenon, <2>2, <2>3
<1> QED BY Zenon, <1>2, <1>3, <1>4

(* The exact result n in the wider type, or OUT_OF_RANGE. *)
SumOutcome(t, u, n) == IF Fits(Wider(t, u), n) THEN Value(Wider(t, u), n) ELSE Throw("OUT_OF_RANGE")

(* It is the number, the NULL for the one below the type, or OUT_OF_RANGE. *)
LEMMA SumOutcomeIs ==
  ASSUME NEW t \in IntTypes, NEW u \in IntTypes, NEW n
  PROVE  LET w == Wider(t, u)
         IN  SumOutcome(t, u, n) = IF n \in Min(w) .. Max(w) THEN Value(w, n)
                                   ELSE IF n = Min(w) - 1 THEN Value(w, Null(w)) ELSE Throw("OUT_OF_RANGE")
<1> DEFINE w == Wider(t, u)
<1>1. w \in IntTypes
  BY Zenon DEF Wider
<1> HIDE DEF w
<1>2. Fits(w, n) <=> n \in Min(w) .. Max(w) \/ n = Min(w) - 1
  BY <1>1, Halves DEF Fits, Min, Max
<1>3. n = Min(w) - 1 => n = Null(w)
  BY <1>1, Halves DEF Null, Min
<1> QED BY Zenon, <1>2, <1>3 DEF SumOutcome, w

(* Unless the C++ operation overflows in an optimised build, AddValue has    *)
(* one outcome, the exact one.                                               *)
LEMMA AddExact ==
  ASSUME NEW t \in IntTypes, NEW u \in IntTypes,
         NEW x \in Min(t) .. Max(t), NEW y \in Min(u) .. Max(u),
         optimised => Fits(Promoted(t, u), x + y)
  PROVE  AddValue(t, u, x, y) = {SumOutcome(t, u, x + y)}
<1> DEFINE n == x + y
           w == Wider(t, u)
           raw == Cast(Promoted(t, u), n)
           m == Cast(w, raw)
           lost == (x > 0 /\ y > 0 /\ m < 0) \/ (x < 0 /\ y < 0 /\ m > 0)
<1>1. /\ x \in Int /\ y \in Int /\ n \in Int
      /\ n <= 2 * Half[w] - 2 /\ n >= 2 - 2 * Half[w]
      /\ ~Fits(w, n) => (n > 0 => x > 0 /\ y > 0) /\ (n < 0 => x < 0 /\ y < 0)
  BY Halves, WiderOfTwo DEF Min, Max, Fits
<1>2. optimised => raw = n
  BY Zenon, <1>1, PromotedType, CastFits
<1>3. AddValue(t, u, x, y) =
        {IF (raw # Cast(t, raw) /\ raw # Cast(u, raw)) \/ lost THEN Throw("OUT_OF_RANGE") ELSE Value(w, m)}
  BY Zenon, <1>2 DEF AddValue, Outcomes, Narrow
<1>4. CASE Fits(w, n)
  <2>1. raw = n /\ m = n /\ (raw = Cast(t, raw) \/ raw = Cast(u, raw))
    BY Zenon, <1>1, <1>4, RawSum
  <2>2. ~lost
    <3> HIDE DEF raw, m
    <3> QED BY <1>1, <2>1
  <2> HIDE DEF raw, m, lost
  <2> QED BY Zenon, <1>3, <1>4, <2>1, <2>2 DEF SumOutcome
<1>5. CASE ~Fits(w, n)
  <2>1. \/ raw # Cast(t, raw) /\ raw # Cast(u, raw)
        \/ n > 0 /\ m < 0
        \/ n < 0 /\ m > 0
    BY Zenon, <1>1, <1>5, RawSum
  <2>2. (raw # Cast(t, raw) /\ raw # Cast(u, raw)) \/ lost
    <3> HIDE DEF raw, m, n
    <3> QED BY Zenon, <1>1, <1>5, <2>1
  <2> HIDE DEF raw, m, lost
  <2> QED BY Zenon, <1>3, <1>5, <2>2 DEF SumOutcome
<1> QED BY Zenon, <1>4, <1>5

(* The same of SubtractValue. *)
LEMMA SubtractExact ==
  ASSUME NEW t \in IntTypes, NEW u \in IntTypes,
         NEW x \in Min(t) .. Max(t), NEW y \in Min(u) .. Max(u),
         optimised => Fits(Promoted(t, u), x - y)
  PROVE  SubtractValue(t, u, x, y) = {SumOutcome(t, u, x - y)}
<1> DEFINE n == x - y
           w == Wider(t, u)
           raw == Cast(Promoted(t, u), n)
           m == Cast(w, raw)
           lost == (x > 0 /\ y < 0 /\ m < 0) \/ (x < 0 /\ y > 0 /\ m > 0)
<1>1. /\ x \in Int /\ y \in Int /\ n \in Int
      /\ n <= 2 * Half[w] - 2 /\ n >= 2 - 2 * Half[w]
      /\ ~Fits(w, n) => (n > 0 => x > 0 /\ y < 0) /\ (n < 0 => x < 0 /\ y > 0)
  BY Halves, WiderOfTwo DEF Min, Max, Fits
<1>2. optimised => raw = n
  BY Zenon, <1>1, PromotedType, CastFits
<1>3. SubtractValue(t, u, x, y) =
        {IF (raw # Cast(t, raw) /\ raw # Cast(u, raw)) \/ lost THEN Throw("OUT_OF_RANGE") ELSE Value(w, m)}
  BY Zenon, <1>2 DEF SubtractValue, Outcomes, Narrow
<1>4. CASE Fits(w, n)
  <2>1. raw = n /\ m = n /\ (raw = Cast(t, raw) \/ raw = Cast(u, raw))
    BY Zenon, <1>1, <1>4, RawSum
  <2>2. ~lost
    <3> HIDE DEF raw, m
    <3> QED BY <1>1, <2>1
  <2> HIDE DEF raw, m, lost
  <2> QED BY Zenon, <1>3, <1>4, <2>1, <2>2 DEF SumOutcome
<1>5. CASE ~Fits(w, n)
  <2>1. \/ raw # Cast(t, raw) /\ raw # Cast(u, raw)
        \/ n > 0 /\ m < 0
        \/ n < 0 /\ m > 0
    BY Zenon, <1>1, <1>5, RawSum
  <2>2. (raw # Cast(t, raw) /\ raw # Cast(u, raw)) \/ lost
    <3> HIDE DEF raw, m, n
    <3> QED BY Zenon, <1>1, <1>5, <2>1
  <2> HIDE DEF raw, m, lost
  <2> QED BY Zenon, <1>3, <1>5, <2>2 DEF SumOutcome
<1> QED BY Zenon, <1>4, <1>5

(* Operands are integer Values or texts. *)
LEMMA OperandTyped ==
  ASSUME NEW val \in Operands
  PROVE  \/ IsIntValue(val)
         \/ ~IsInt(val) /\ val.type = "VARCHAR" /\ val.v \in Int \cup {NullText, NoNumber}
<1>1. CASE \E t \in IntTypes, n \in Int : Fits(t, n) /\ val = Value(t, n)
  BY <1>1 DEF IsIntValue, IsInt, Value
<1>2. CASE \E x \in Texts : val = Value("VARCHAR", x)
  BY <1>2, InputAssumption DEF IsInt, Value, IntTypes
<1>3. CASE val \in UNION {{Value(t, n) : n \in {m \in Numbers : Fits(t, m)}} : t \in IntTypes}
  <2>1. PICK t \in IntTypes : val \in {Value(t, n) : n \in {m \in Numbers : Fits(t, m)}}
    BY Zenon, <1>3
  <2>2. PICK n \in {m \in Numbers : Fits(t, m)} : val = Value(t, n)
    BY Zenon, <2>1
  <2>3. n \in Int /\ Fits(t, n)
    BY Zenon, <2>2, InputAssumption
  <2> QED BY Zenon, <1>1, <2>2, <2>3
<1>4. CASE val \in {Value("VARCHAR", x) : x \in Texts}
  BY Zenon, <1>2, <1>4
<1> QED BY Zenon, <1>3, <1>4 DEF Operands

(* A cast gives a Value of its target type, or throws. *)
LEMMA CastTyped ==
  ASSUME NEW val, NEW t \in IntTypes,
         IsIntValue(val) \/ (~IsInt(val) /\ val.v \in Int \cup {NullText, NoNumber})
  PROVE  \/ IsIntValue(CastAs(val, t)) /\ CastAs(val, t).type = t
         \/ ~IsInt(CastAs(val, t)) /\ CastAs(val, t).type = "exception"
<1>1. Half[t] \in Nat /\ Half[t] > 1
  BY Zenon, Halves
<1>2. CASE IsIntValue(val)
  BY <1>1, <1>2 DEF IsIntValue, IsInt, CastAs, CastInt, Value, Throw, Fits, Null, Min, Max, IntTypes
<1>3. CASE ~IsInt(val) /\ val.v \in Int \cup {NullText, NoNumber}
  <2>1. CASE val.v \in {NullText, NoNumber}
    BY Zenon, <1>3, <2>1 DEF CastAs, CastText, Throw, IsInt, IntTypes
  <2>2. CASE val.v \notin {NullText, NoNumber}
    <3>1. val.v \in Int
      BY Zenon, <1>3, <2>2
    <3>2. Fits(t, Cast(t, val.v))
      BY Zenon, <3>1, CastRange
    <3> QED BY Zenon, <1>3, <2>2, <3>2 DEF CastAs, CastText, Throw, Value, IsInt, IsIntValue, IntTypes
  <2> QED BY Zenon, <2>1, <2>2
<1> QED BY Zenon, <1>2, <1>3

(* Every outcome of the arithmetic is a Value of the wider type, or an       *)
(* exception.                                                                *)
LEMMA MethodTyped ==
  ASSUME NEW op \in Sums \cup Products, NEW t \in IntTypes, NEW u \in IntTypes,
         NEW x \in Int, NEW y \in Int, op \in {"Divide", "Modulo"} => y # 0,
         NEW out \in Method(op, t, u, x, y)
  PROVE  IsInt(out) => IsIntValue(out)
<1> DEFINE w == Wider(t, u)
<1>1. w \in IntTypes /\ Promoted(t, u) \in IntTypes
  BY Zenon, WiderOfTwo, PromotedType
<1>2. ~IsInt(Throw("OUT_OF_RANGE"))
  BY Zenon DEF IsInt, Throw, IntTypes
<1>3. \A n \in Int : IsIntValue(Value(w, Cast(w, n)))
  BY Zenon, <1>1, CastRange DEF IsIntValue, IsInt, Value
<1>4. \A n \in Int : Cast(Promoted(t, u), n) \in Int
  BY Zenon, <1>1, CastRange
<1>5. CASE op = "Add"
  <2>1. out \in AddValue(t, u, x, y)
    BY Zenon, <1>5 DEF Method
  <2>2. x + y \in Int
    OBVIOUS
  <2> QED BY Zenon, <2>1, <2>2, <1>2, <1>3, <1>4 DEF AddValue, Outcomes, Narrow
<1>6. CASE op = "Subtract"
  <2>1. out \in SubtractValue(t, u, x, y)
    BY Zenon, <1>6 DEF Method
  <2>2. x - y \in Int
    OBVIOUS
  <2> QED BY Zenon, <2>1, <2>2, <1>2, <1>3, <1>4 DEF SubtractValue, Outcomes, Narrow
<1>7. CASE op = "Multiply"
  <2>1. out \in MultiplyValue(t, u, x, y)
    BY Zenon, <1>7 DEF Method
  <2>2. x * y \in Int
    OBVIOUS
  <2> QED BY Zenon, <2>1, <2>2, <1>2, <1>3, <1>4 DEF MultiplyValue, Outcomes, Narrow
<1>8. CASE op \in {"Divide", "Modulo"}
  <2>1. Abs(x) \in Nat /\ Abs(y) \in Nat \ {0}
    BY <1>8 DEF Abs
  <2>2. Abs(x) \div Abs(y) \in Int
    BY <2>1
  <2>3. Quot(x, y) \in Int
    BY <2>2 DEF Quot
  <2>4. Rem(x, y) \in Int
    BY <2>3 DEF Rem
  <2>5. out \in {Value(w, Cast(w, Quot(x, y))), Value(w, Cast(w, Rem(x, y)))}
    BY Zenon, <1>8 DEF Method, DivideValue, ModuloValue
  <2> QED BY Zenon, <2>3, <2>4, <2>5, <1>3
<1> QED BY Zenon, <1>5, <1>6, <1>7, <1>8 DEF Sums, Products

(* Whatever a call answers, an integer answer is a bit pattern of its type. *)
LEMMA AnswerTyped ==
  ASSUME IsIntValue(acc), NEW right \in Operands
  PROVE  /\ \A op \in Sums \cup Products : \A out \in Arithmetic(op, acc, right) :
              IsInt(out) => IsIntValue(out)
         /\ \A op \in Compares : ~IsInt(Compare(op, acc, right))
         /\ \A op \in {"Min", "Max"} : IsInt(Extremum(op, acc, right)) => IsIntValue(Extremum(op, acc, right))
         /\ \A op \in {"Plus", "Minus"} : acc.type = "INTEGER" /\ right.type = "INTEGER" =>
              IsIntValue(PerformComputation(op, acc, right))
<1> DEFINE r == IF IsInt(right) THEN right ELSE CastAs(right, acc.type)
<1>1. acc.type \in IntTypes /\ acc.v \in Int
  BY Halves DEF IsIntValue, IsInt, Fits
<1>2. \/ IsIntValue(right)
      \/ ~IsInt(right) /\ right.v \in Int \cup {NullText, NoNumber}
  BY Zenon, OperandTyped
<1>3. IsIntValue(r) \/ (~IsInt(r) /\ r.type = "exception")
  BY Zenon, <1>1, <1>2, CastTyped DEF IsIntValue
<1>4. IsInt(OperateNull(acc, right)) => IsIntValue(OperateNull(acc, right))
  <2>1. CASE IsInt(right)
    <3>1. Wider(acc.type, right.type) \in IntTypes
      BY Zenon, <1>1, <2>1, WiderOfTwo DEF IsInt
    <3> QED BY <2>1, <3>1, Halves DEF OperateNull, Value, Null, IsInt, IsIntValue, Fits
  <2>2. CASE ~IsInt(right)
    BY Zenon, <2>2 DEF OperateNull, Throw, IsInt, IntTypes
  <2> QED BY Zenon, <2>1, <2>2
<1>5. ASSUME NEW op \in Sums \cup Products, NEW out \in Arithmetic(op, acc, right), IsInt(out)
      PROVE  IsIntValue(out)
  <2>1. ~IsInt(Throw("not implemented")) /\ ~IsInt(Throw("DIVIDE_BY_ZERO"))
    BY Zenon DEF IsInt, Throw, IntTypes
  <2>2. \/ out = OperateNull(acc, right)
        \/ /\ out \in Method(op, acc.type, r.type, acc.v, r.v) /\ IsInt(r)
           /\ op \in {"Divide", "Modulo"} => IsInt(right) /\ right.v # 0
    BY Zenon, <1>5, <2>1 DEF Arithmetic
  <2>3. CASE out = OperateNull(acc, right)
    BY Zenon, <1>4, <1>5, <2>3
  <2>4. CASE /\ out \in Method(op, acc.type, r.type, acc.v, r.v) /\ IsInt(r)
             /\ op \in {"Divide", "Modulo"} => IsInt(right) /\ right.v # 0
    <3>1. r.type \in IntTypes /\ r.v \in Int
      BY <1>3, <2>4, Halves DEF IsIntValue, IsInt, Fits
    <3>2. op \in {"Divide", "Modulo"} => r.v # 0
      BY Zenon, <2>4
    <3> HIDE DEF r
    <3> QED BY Zenon, <1>1, <1>5, <2>4, <3>1, <3>2, MethodTyped
  <2> QED BY Zenon, <2>2, <2>3, <2>4
<1>6. ASSUME NEW op
      PROVE  Compare(op, acc, right).type \in {"CmpBool", "exception"} /\ ~IsInt(Compare(op, acc, right))
  <2>1. CmpNull.type = "CmpBool" /\ CmpBool(Holds(op, acc.v, r.v)).type = "CmpBool"
    BY Zenon DEF CmpNull, CmpBool
  <2>2. Compare(op, acc, right) \in {CmpNull, CmpBool(Holds(op, acc.v, r.v))} \/
        (Compare(op, acc, right) = r /\ ~IsInt(r))
    BY Zenon DEF Compare
  <2>3. Compare(op, acc, right).type \in {"CmpBool", "exception"}
    <3> HIDE DEF r
    <3>1. CASE Compare(op, acc, right) = CmpNull
      BY Zenon, <2>1, <3>1
    <3>2. CASE Compare(op, acc, right) = CmpBool(Holds(op, acc.v, r.v))
      BY Zenon, <2>1, <3>2
    <3>3. CASE Compare(op, acc, right) = r /\ ~IsInt(r)
      BY Zenon, <1>3, <3>3 DEF IsIntValue
    <3> QED BY Zenon, <2>2, <3>1, <3>2, <3>3
  <2> QED BY Zenon, <2>3 DEF IsInt, IntTypes
<1>7. ASSUME NEW op \in {"Min", "Max"}, IsInt(Extremum(op, acc, right))
      PROVE  IsIntValue(Extremum(op, acc, right))
  <2>1. \/ Extremum(op, acc, right) \in {OperateNull(acc, right), acc, right}
        \/ ~IsInt(Extremum(op, acc, right))
    BY Zenon, <1>6 DEF Extremum
  <2> QED BY Zenon, <1>2, <1>4, <1>7, <2>1
<1>8. ASSUME NEW op \in {"Plus", "Minus"}, acc.type = "INTEGER", right.type = "INTEGER"
      PROVE  IsIntValue(PerformComputation(op, acc, right))
  <2>1. "INTEGER" \in IntTypes
    BY Zenon DEF IntTypes
  <2>2. right.v \in Int
    BY <1>2, <1>8, <2>1, Halves DEF IsIntValue, IsInt, Fits
  <2>3. Fits("INTEGER", Null("INTEGER"))
    BY <2>1, Halves DEF Fits, Null
  <2>4. \A n \in Int : Fits("INTEGER", Cast("INTEGER", n))
    BY Zenon, <2>1, CastRange
  <2> QED BY <1>1, <2>1, <2>2, <2>3, <2>4 DEF PerformComputation, Value, IsIntValue, IsInt
<1> QED BY Zenon, <1>5, <1>6, <1>7, <1>8

(* Whatever is computed, in either build and for every width of the types,   *)
(* the Value kept is a bit pattern of its type: TypeOK.                      *)
THEOREM ValuesTyped == Spec => []TypeOK
<1>1. Init => TypeOK
  <2>1. "INTEGER" \in IntTypes
    BY Zenon DEF IntTypes
  <2>2. IsIntValue(Zero)
    BY <2>1, Halves DEF Zero, Value, IsIntValue, IsInt, Fits
  <2> QED BY <2>2, InputAssumption DEF Init, NoCall, TypeOK
<1>2. TypeOK /\ [Next]_vars => TypeOK'
  <2> SUFFICES ASSUME TypeOK, [Next]_vars PROVE TypeOK'
    BY Zenon
  <2>1. optimised \in BOOLEAN /\ IsIntValue(acc) /\ (IsInt(call.out) => IsIntValue(call.out))
    BY Zenon DEF TypeOK
  <2>2. ASSUME NEW op, NEW left, NEW right, NEW out, Call(op, left, right, out),
               IsInt(out) => IsIntValue(out)
        PROVE  TypeOK'
    <3>1. call'.out = out /\ acc' = acc /\ optimised' = optimised
      BY Zenon, <2>2 DEF Call
    <3> QED BY Zenon, <2>1, <2>2, <3>1 DEF TypeOK, IsInt, IsIntValue, Fits
  <2>3. ASSUME NEW right \in Operands, NEW op \in Sums \cup Products, Compute(op, right)
        PROVE  TypeOK'
    <3>1. PICK out \in Arithmetic(op, acc, right) : Call(op, acc, right, out)
      BY Zenon, <2>3 DEF Compute
    <3> QED BY Zenon, <2>1, <2>2, <3>1, AnswerTyped
  <2>4. ASSUME NEW right \in Operands, NEW op \in Compares, CompareWith(op, right)
        PROVE  TypeOK'
    BY Zenon, <2>1, <2>2, <2>4, AnswerTyped DEF CompareWith
  <2>5. ASSUME NEW right \in Operands, NEW op \in {"Min", "Max"}, ExtremumWith(op, right)
        PROVE  TypeOK'
    BY Zenon, <2>1, <2>2, <2>5, AnswerTyped DEF ExtremumWith
  <2>6. ASSUME NEW right \in Operands, NEW op \in {"Plus", "Minus"}, EvaluateWith(op, right)
        PROVE  TypeOK'
    BY Zenon, <2>1, <2>2, <2>6, AnswerTyped DEF EvaluateWith
  <2>7. ASSUME NEW val \in Operands \cup {acc}, NEW t \in IntTypes, CastTo(val, t)
        PROVE  TypeOK'
    <3>1. IsInt(CastAs(val, t)) => IsIntValue(CastAs(val, t))
      BY Zenon, <2>1, OperandTyped, CastTyped
    <3> QED BY Zenon, <2>2, <2>7, <3>1 DEF CastTo
  <2>8. CASE Assign
    <3>1. IsIntValue(Zero)
      BY Halves DEF Zero, Value, IsIntValue, IsInt, Fits, IntTypes
    <3>2. /\ call' = NoCall /\ optimised' = optimised
          /\ acc' = IF IsInt(call.out) THEN call.out ELSE acc
      BY Zenon, <2>8 DEF Assign
    <3> QED BY Zenon, <2>1, <3>1, <3>2 DEF TypeOK, NoCall, IsInt, IsIntValue, Fits
  <2>9. CASE UNCHANGED vars
    BY Zenon, <2>1, <2>9 DEF vars, TypeOK, IsInt, IsIntValue, Fits
  <2> QED BY Zenon, <2>3, <2>4, <2>5, <2>6, <2>7, <2>8, <2>9 DEF Next
<1> QED BY <1>1, <1>2, PTL DEF Spec

(* Add and Subtract of two integer Values have one outcome, the exact one,   *)
(* unless the C++ operation overflows in an optimised build.                 *)
LEMMA SumExact ==
  ASSUME NEW op \in Sums, NEW left, NEW right, IsIntValue(left), IsIntValue(right),
         NEW out \in Arithmetic(op, left, right),
         optimised => Fits(Promoted(left.type, right.type), Exact(op, left.v, right.v))
  PROVE  out = IF IsNull(left) \/ IsNull(right)
               THEN Value(Wider(left.type, right.type), Null(Wider(left.type, right.type)))
               ELSE SumOutcome(left.type, right.type, Exact(op, left.v, right.v))
<1>1. /\ left.type \in IntTypes /\ right.type \in IntTypes
      /\ left.v \in Int /\ right.v \in Int
      /\ IsInt(left) /\ IsInt(right)
  BY Halves DEF IsIntValue, IsInt, Fits
<1>2. CASE IsNull(left) \/ IsNull(right)
  BY Zenon, <1>1, <1>2 DEF Arithmetic, OperateNull
<1>3. CASE ~(IsNull(left) \/ IsNull(right))
  <2>1. left.v \in Min(left.type) .. Max(left.type) /\ right.v \in Min(right.type) .. Max(right.type)
    BY <1>1, <1>3, Halves DEF IsNull, IsIntValue, Fits, Null, Min, Max
  <2>2. op \notin {"Divide", "Modulo"}
    BY Zenon DEF Sums
  <2>3. out \in Method(op, left.type, right.type, left.v, right.v)
    BY Zenon, <1>1, <1>3, <2>2 DEF Arithmetic
  <2>4. CASE op = "Add"
    <3>1. Exact(op, left.v, right.v) = left.v + right.v
      BY Zenon, <2>4 DEF Exact
    <3>2. AddValue(left.type, right.type, left.v, right.v) = {SumOutcome(left.type, right.type, left.v + right.v)}
      BY <1>1, <2>1, <3>1, AddExact
    <3>3. Method(op, left.type, right.type, left.v, right.v) = AddValue(left.type, right.type, left.v, right.v)
      BY Zenon, <2>4 DEF Method
    <3> QED BY Zenon, <1>3, <2>3, <3>1, <3>2, <3>3
  <2>5. CASE op = "Subtract"
    <3>1. Exact(op, left.v, right.v) = left.v - right.v
      BY Zenon, <2>5 DEF Exact
    <3>2. SubtractValue(left.type, right.type, left.v, right.v) = {SumOutcome(left.type, right.type, left.v - right.v)}
      BY <1>1, <2>1, <3>1, SubtractExact
    <3>3. Method(op, left.type, right.type, left.v, right.v) = SubtractValue(left.type, right.type, left.v, right.v)
      BY Zenon, <2>5 DEF Method
    <3> QED BY Zenon, <1>3, <2>3, <3>1, <3>2, <3>3
  <2> QED BY Zenon, <2>4, <2>5 DEF Sums
<1> QED BY Zenon, <1>2, <1>3

(* Sums and differences of integers of any two types are exact, refused or,  *)
(* for the one number below the type, the NULL: the sign tests of AddValue   *)
(* and SubtractValue catch every other overflow, at every width of the four  *)
(* types.                                                                    *)
THEOREM SumsCorrect == Spec => []SumsExact
<1>1. Init => SumsExact
  BY DEF Init, NoCall, SumsExact, Sums
<1>2. TypeOK /\ SumsExact /\ [Next]_vars => SumsExact'
  <2> SUFFICES ASSUME TypeOK, SumsExact, [Next]_vars PROVE SumsExact'
    BY Zenon
  <2>1. ASSUME NEW op, NEW left, NEW right, NEW out, Call(op, left, right, out), op \notin Sums
        PROVE  SumsExact'
    BY Zenon, <2>1 DEF Call, SumsExact, Sums
  <2>2. ASSUME NEW right \in Operands, NEW op \in Sums, Compute(op, right)
        PROVE  SumsExact'
    <3>1. PICK out \in Arithmetic(op, acc, right) : Call(op, acc, right, out)
      BY Zenon, <2>2 DEF Compute
    <3>2. /\ call'.op = op /\ call'.left = acc /\ call'.right = right /\ call'.out = out
          /\ optimised' = optimised
      BY Zenon, <3>1 DEF Call
    <3>3. SUFFICES ASSUME IsInt(right), optimised => ~Undefined' PROVE ExactOutcome'
      BY Zenon, <3>2 DEF SumsExact, IsInt
    <3>4. optimised => Fits(Promoted(acc.type, right.type), Exact(op, acc.v, right.v))
      BY Zenon, <3>2, <3>3 DEF Undefined
    <3>5. IsIntValue(acc) /\ IsIntValue(right)
      BY Zenon, <3>3, OperandTyped DEF TypeOK
    <3>6. out = IF IsNull(acc) \/ IsNull(right)
                THEN Value(Wider(acc.type, right.type), Null(Wider(acc.type, right.type)))
                ELSE SumOutcome(acc.type, right.type, Exact(op, acc.v, right.v))
      BY Zenon, <3>1, <3>4, <3>5, SumExact
    <3>7. acc.type \in IntTypes /\ right.type \in IntTypes
      BY Zenon, <3>5 DEF IsIntValue, IsInt
    <3> DEFINE w == Wider(acc.type, right.type)
               n == Exact(op, acc.v, right.v)
    <3>8. SumOutcome(acc.type, right.type, n)
            = IF n \in Min(w) .. Max(w) THEN Value(w, n)
              ELSE IF n = Min(w) - 1 THEN Value(w, Null(w)) ELSE Throw("OUT_OF_RANGE")
      BY Zenon, <3>7, SumOutcomeIs
    <3>9. out = IF IsNull(acc) \/ IsNull(right) THEN Value(w, Null(w)) ELSE SumOutcome(acc.type, right.type, n)
      BY Zenon, <3>6
    <3> HIDE DEF w, n
    <3>10. out = IF IsNull(acc) \/ IsNull(right) THEN Value(w, Null(w))
                 ELSE IF n \in Min(w) .. Max(w) THEN Value(w, n)
                 ELSE IF n = Min(w) - 1 THEN Value(w, Null(w)) ELSE Throw("OUT_OF_RANGE")
      BY Zenon, <3>8, <3>9
    <3> QED BY Zenon, <3>2, <3>10 DEF ExactOutcome, w, n
  <2>3. ASSUME NEW right \in Operands, NEW op \in Products, Compute(op, right)
        PROVE  SumsExact'
    BY Zenon, <2>1, <2>3 DEF Compute, Products, Sums
  <2>4. ASSUME NEW right \in Operands, NEW op \in Compares, CompareWith(op, right)
        PROVE  SumsExact'
    BY Zenon, <2>1, <2>4 DEF CompareWith, Compares, Sums
  <2>5. ASSUME NEW right \in Operands, NEW op \in {"Min", "Max"}, ExtremumWith(op, right)
        PROVE  SumsExact'
    BY Zenon, <2>1, <2>5 DEF ExtremumWith, Sums
  <2>6. ASSUME NEW right \in Operands, NEW op \in {"Plus", "Minus"}, EvaluateWith(op, right)
        PROVE  SumsExact'
    BY Zenon, <2>1, <2>6 DEF EvaluateWith, Sums
  <2>7. ASSUME NEW val \in Operands \cup {acc}, NEW t \in IntTypes, CastTo(val, t)
        PROVE  SumsExact'
    BY <2>1, <2>7 DEF CastTo, Sums
  <2>8. CASE Assign
    BY Zenon, <2>8 DEF Assign, NoCall, SumsExact, Sums
  <2>9. CASE UNCHANGED vars
    BY Zenon, <2>9 DEF vars, SumsExact, ExactOutcome, Undefined
  <2> QED BY Zenon, <2>2, <2>3, <2>4, <2>5, <2>6, <2>7, <2>8, <2>9 DEF Next
<1> QED BY <1>1, <1>2, ValuesTyped, PTL DEF Spec

(* What CastAs does to an integer Value or a text. *)
LEMMA CastFaithful ==
  ASSUME NEW val, NEW t \in IntTypes, NEW out, out = CastAs(val, t), IsInt(out),
         IsIntValue(val) \/ (~IsInt(val) /\ val.v \in Int \cup {NullText, NoNumber})
  PROVE  IF IsInt(val)
         THEN CastAs(out, val.type) = Value(val.type, val.v) /\ (IsNull(out) <=> IsNull(val))
         ELSE out.type \in {"INTEGER", "BIGINT"} => out.v = val.v
<1>1. ~IsInt(Throw("OUT_OF_RANGE")) /\ ~IsInt(Throw("invalid_argument"))
  BY Zenon DEF IsInt, Throw, IntTypes
<1>2. CASE IsInt(val)
  <2>1. val.type \in IntTypes /\ val.v \in Int /\ Fits(val.type, val.v)
    BY <1>2, Halves DEF IsIntValue, IsInt, Fits
  <2>2. out = CastInt(val, t)
    BY Zenon, <1>2 DEF CastAs
  <2>3. CASE IsNull(val)
    <3>1. out = Value(t, Null(t)) /\ val.v = Null(val.type)
      BY Zenon, <1>2, <2>2, <2>3 DEF CastInt, IsNull
    <3>2. IsNull(out)
      BY <3>1 DEF IsNull, IsInt, Value
    <3>3. CastAs(out, val.type) = Value(val.type, Null(val.type))
      BY Zenon, <3>2 DEF CastAs, CastInt
    <3> QED BY Zenon, <1>2, <2>1, <2>3, <3>1, <3>2, <3>3
  <2>4. CASE ~IsNull(val)
    <3>1. out = Value(t, val.v) /\ val.v \in Min(t) .. Max(t) /\ val.v # Null(val.type)
      BY Zenon, <1>1, <1>2, <2>2, <2>4 DEF CastInt, IsNull
    <3>2. out.v = val.v /\ out.type = t
      BY <3>1 DEF Value
    <3>3. ~IsNull(out)
      BY <3>1, <3>2, Halves DEF IsNull, IsInt, Min, Max, Null
    <3>4. out.v \in Min(val.type) .. Max(val.type)
      BY <2>1, <3>1, <3>2, Halves DEF Min, Max, Null, Fits
    <3>5. CastAs(out, val.type) = Value(val.type, out.v)
      BY Zenon, <3>3, <3>4 DEF CastAs, CastInt
    <3> QED BY Zenon, <1>2, <2>1, <2>4, <3>2, <3>3, <3>5
  <2> QED BY Zenon, <2>3, <2>4
<1>3. CASE ~IsInt(val)
  <2>1. out = CastText(val, t)
    BY Zenon, <1>3 DEF CastAs
  <2>2. val.v \in Int /\ Fits(Wider(t, "INTEGER"), val.v) /\ out = Value(t, Cast(t, val.v))
    BY Zenon, <1>1, <1>3, <2>1 DEF CastText, IsIntValue
  <2>3. ASSUME t \in {"INTEGER", "BIGINT"} PROVE Cast(t, val.v) = val.v
    <3>1. Wider(t, "INTEGER") = t
      BY <2>3, HalfAssumption DEF Wider, IntTypes
    <3> QED BY Zenon, <2>2, <3>1, CastFits
  <2> QED BY <1>3, <2>2, <2>3 DEF Value
<1> QED BY Zenon, <1>2, <1>3

(* A cast that succeeds loses nothing, and keeps NULL apart from every       *)
(* number: CastsFaithful, for every width of the four types.                 *)
THEOREM CastsCorrect == Spec => []CastsFaithful
<1>1. Init => CastsFaithful
  BY DEF Init, NoCall, CastsFaithful
<1>2. TypeOK /\ CastsFaithful /\ [Next]_vars => CastsFaithful'
  <2> SUFFICES ASSUME TypeOK, CastsFaithful, [Next]_vars PROVE CastsFaithful'
    BY Zenon
  <2>1. ASSUME NEW op, NEW left, NEW right, NEW out, Call(op, left, right, out), op # "CastAs"
        PROVE  CastsFaithful'
    BY Zenon, <2>1 DEF Call, CastsFaithful
  <2>2. ASSUME NEW right \in Operands, NEW op \in Sums \cup Products, Compute(op, right)
        PROVE  CastsFaithful'
    BY Zenon, <2>1, <2>2 DEF Compute, Sums, Products
  <2>3. ASSUME NEW right \in Operands, NEW op \in Compares, CompareWith(op, right)
        PROVE  CastsFaithful'
    BY Zenon, <2>1, <2>3 DEF CompareWith, Compares
  <2>4. ASSUME NEW right \in Operands, NEW op \in {"Min", "Max"}, ExtremumWith(op, right)
        PROVE  CastsFaithful'
    BY Zenon, <2>1, <2>4 DEF ExtremumWith
  <2>5. ASSUME NEW right \in Operands, NEW op \in {"Plus", "Minus"}, EvaluateWith(op, right)
        PROVE  CastsFaithful'
    BY Zenon, <2>1, <2>5 DEF EvaluateWith
  <2>6. ASSUME NEW val \in Operands \cup {acc}, NEW t \in IntTypes, CastTo(val, t)
        PROVE  CastsFaithful'
    <3>1. call'.left = val /\ call'.out = CastAs(val, t)
      BY Zenon, <2>6 DEF CastTo, Call
    <3>2. IsIntValue(val) \/ (~IsInt(val) /\ val.v \in Int \cup {NullText, NoNumber})
      BY Zenon, OperandTyped DEF TypeOK
    <3>3. IsInt(CastAs(val, t)) =>
            IF IsInt(val)
            THEN /\ CastAs(CastAs(val, t), val.type) = Value(val.type, val.v)
                 /\ IsNull(CastAs(val, t)) <=> IsNull(val)
            ELSE CastAs(val, t).type \in {"INTEGER", "BIGINT"} => CastAs(val, t).v = val.v
      BY Zenon, <3>2, CastFaithful
    <3> QED BY Zenon, <3>1, <3>3 DEF CastsFaithful
  <2>7. CASE Assign
    BY Zenon, <2>7 DEF Assign, NoCall, CastsFaithful
  <2>8. CASE UNCHANGED vars
    BY Zenon, <2>8 DEF vars, CastsFaithful
  <2> QED BY Zenon, <2>2, <2>3, <2>4, <2>5, <2>6, <2>7, <2>8 DEF Next
<1> QED BY <1>1, <1>2, ValuesTyped, PTL DEF Spec

-----------------------------------------------------------------------------
(* Division of naturals leaves a remainder below the divisor. *)
LEMMA Division ==
  ASSUME NEW a \in Int, NEW b \in Nat \ {0}
  PROVE  /\ a \div b \in Int /\ a % b \in 0 .. b - 1
         /\ a = b * (a \div b) + (a % b)
OBVIOUS

(* Casting takes a multiple of the number of bit patterns away. *)
LEMMA CastTakes ==
  ASSUME NEW t \in IntTypes, NEW n \in Int
  PROVE  \E k \in Int : Cast(t, n) = n - (2 * Half[t]) * k
<1> DEFINE h == Half[t]
           b == 2 * h
           k == (n + h) \div b
<1>1. h \in Nat /\ h > 1
  BY Zenon, Halves
<1>2. b \in Nat \ {0} /\ n + h \in Int
  BY <1>1
<1>3. k \in Int /\ (n + h) % b \in Int /\ n + h = b * k + ((n + h) % b)
  <2> DEFINE m == n + h
  <2>1. m \in Int
    BY Zenon, <1>2
  <2> HIDE DEF m, b
  <2>2. m \div b \in Int /\ m % b \in 0 .. b - 1 /\ m = b * (m \div b) + (m % b)
    BY Zenon, <1>2, <2>1, Division
  <2>3. m % b \in Int
    BY <1>2, <2>2
  <2> QED BY Zenon, <2>2, <2>3 DEF m
<1>4. Cast(t, n) = ((n + h) % b) - h
  BY Zenon DEF Cast
<1>5. b * k \in Int
  <2> HIDE DEF k, b, h
  <2> QED BY <1>2, <1>3
<1>6. Cast(t, n) = n - b * k
  <2> DEFINE m == (n + h) % b
             c == b * k
  <2>1. m \in Int /\ c \in Int /\ n + h = c + m /\ Cast(t, n) = m - h /\ h \in Int
    BY <1>1, <1>3, <1>4, <1>5
  <2> HIDE DEF m, c, h, b, k
  <2>2. Cast(t, n) = n - c
    BY <2>1
  <2> QED BY Zenon, <2>2 DEF c
<1> HIDE DEF k
<1> QED BY Zenon, <1>3, <1>6

(* The quotient towards zero and its remainder, which is nearer to zero than *)
(* the divisor and than the dividend.                                        *)
LEMMA QuotRem ==
  ASSUME NEW x \in Int, NEW y \in Int, y # 0
  PROVE  /\ Quot(x, y) \in Int /\ Rem(x, y) \in Int /\ x = y * Quot(x, y) + Rem(x, y)
         /\ Abs(Quot(x, y)) <= Abs(x) /\ Abs(Rem(x, y)) < Abs(y)
<1> DEFINE a == Abs(x)
           b == Abs(y)
           q == a \div b
           r == a % b
<1>1. a \in Nat /\ b \in Nat \ {0}
  BY DEF Abs
<1>2. q \in Int /\ r \in 0 .. b - 1 /\ a = b * q + r
  <2> HIDE DEF a, b
  <2> QED BY <1>1, Division
<1>3. Quot(x, y) = IF (x < 0) = (y < 0) THEN q ELSE -q
  BY Zenon DEF Quot
<1> HIDE DEF q, r
<1>4. q >= 0 /\ q <= a
  <2> HIDE DEF a, b
  <2>1. q >= 0
    <3>1. ASSUME q <= -1 PROVE FALSE
      <4>1. b * q <= -b
        BY <1>1, <1>2, <3>1
      <4>2. b * q \in Int
        BY <1>1, <1>2
      <4> QED BY <1>1, <1>2, <4>1, <4>2
    <3> QED BY <1>2, <3>1
  <2>2. b * q >= q
    BY <1>1, <1>2, <2>1
  <2>3. b * q \in Int
    BY <1>1, <1>2
  <2> QED BY <1>1, <1>2, <2>1, <2>2, <2>3
<1>5. Quot(x, y) \in Int /\ Abs(Quot(x, y)) <= a
  <2> HIDE DEF a
  <2> QED BY <1>2, <1>3, <1>4 DEF Abs
<1>6. Rem(x, y) = IF x < 0 THEN -r ELSE r
  <2>1. Rem(x, y) = x - y * Quot(x, y)
    BY Zenon DEF Rem
  <2>2. CASE x < 0 /\ y < 0
    <3>1. a = -x /\ b = -y /\ Quot(x, y) = q
      BY Zenon, <1>3, <2>2 DEF Abs
    <3>2. y * q = -(b * q)
      <4> HIDE DEF a, b
      <4> QED BY <1>1, <1>2, <3>1
    <3>3. b * q \in Int
      <4> HIDE DEF a, b
      <4> QED BY <1>1, <1>2
    <3> HIDE DEF a, b
    <3> QED BY <1>1, <1>2, <2>1, <2>2, <3>1, <3>2, <3>3
  <2>3. CASE x < 0 /\ ~(y < 0)
    <3>1. a = -x /\ b = y /\ Quot(x, y) = -q
      BY Zenon, <1>3, <2>3 DEF Abs
    <3>2. y * (-q) = -(b * q)
      <4> HIDE DEF a, b
      <4> QED BY <1>1, <1>2, <3>1
    <3>3. b * q \in Int
      <4> HIDE DEF a, b
      <4> QED BY <1>1, <1>2
    <3> HIDE DEF a, b
    <3> QED BY <1>1, <1>2, <2>1, <2>3, <3>1, <3>2, <3>3
  <2>4. CASE ~(x < 0) /\ y < 0
    <3>1. a = x /\ b = -y /\ Quot(x, y) = -q
      BY Zenon, <1>3, <2>4 DEF Abs
    <3>2. y * (-q) = b * q
      <4> HIDE DEF a, b
      <4> QED BY <1>1, <1>2, <3>1
    <3>3. b * q \in Int
      <4> HIDE DEF a, b
      <4> QED BY <1>1, <1>2
    <3> HIDE DEF a, b
    <3> QED BY <1>1, <1>2, <2>1, <2>4, <3>1, <3>2, <3>3
  <2>5. CASE ~(x < 0) /\ ~(y < 0)
    <3>1. a = x /\ b = y /\ Quot(x, y) = q
      BY <1>3, <2>5 DEF Abs
    <3> HIDE DEF a, b
    <3>3. b * q \in Int
      BY <1>1, <1>2
    <3> QED BY <1>1, <1>2, <2>1, <2>5, <3>1, <3>3
  <2> QED BY Zenon, <2>2, <2>3, <2>4, <2>5
<1>7. Rem(x, y) \in Int /\ Abs(Rem(x, y)) < b
  <2> HIDE DEF a, b
  <2> QED BY <1>1, <1>2, <1>6 DEF Abs
<1>8. x = y * Quot(x, y) + Rem(x, y)
  <2> DEFINE c == y * Quot(x, y)
  <2>1. c \in Int
    BY <1>5
  <2>2. Rem(x, y) = x - c
    BY Zenon DEF Rem
  <2> HIDE DEF c
  <2>3. x = c + Rem(x, y)
    BY <2>1, <2>2
  <2> QED BY Zenon, <2>3 DEF c
<1> QED BY Zenon, <1>5, <1>7, <1>8

(* Dividing a product gives the factor back. *)
LEMMA QuotProduct ==
  ASSUME NEW x \in Int, NEW y \in Int, y # 0
  PROVE  Quot(x * y, y) = x
<1> DEFINE p == x * y
           q == Quot(p, y)
           r == Rem(p, y)
<1>1. p \in Int
  OBVIOUS
<1>2. q \in Int /\ r \in Int /\ p = y * q + r /\ Abs(r) < Abs(y)
  <2> HIDE DEF p
  <2> QED BY Zenon, <1>1, QuotRem
<1> HIDE DEF q, r
<1>3. y * (x - q) = r
  <2>1. x * y = y * q + r
    BY Zenon, <1>2
  <2> QED BY <1>2, <2>1
<1>4. x - q = 0
  <2>1. ASSUME x - q >= 1 PROVE FALSE
    <3>1. y > 0 => y * (x - q) >= y
      BY <1>2, <2>1
    <3>2. y < 0 => y * (x - q) <= y
      BY <1>2, <2>1
    <3> QED BY <1>2, <1>3, <3>1, <3>2 DEF Abs
  <2>2. ASSUME x - q <= -1 PROVE FALSE
    <3>1. y > 0 => y * (x - q) <= -y
      BY <1>2, <2>2
    <3>2. y < 0 => y * (x - q) >= -y
      BY <1>2, <2>2
    <3> QED BY <1>2, <1>3, <3>1, <3>2 DEF Abs
  <2> QED BY <1>2, <2>1, <2>2
<1>5. q = x
  BY <1>2, <1>4
<1> QED BY Zenon, <1>5 DEF q

(* A product that overflows the type it is computed in does not divide back. *)
LEMMA OverflowSeen ==
  ASSUME NEW w \in IntTypes, NEW x \in Int, NEW y \in Int, Abs(y) <= Half[w], y # 0, ~Fits(w, x * y)
  PROVE  Quot(Cast(w, x * y), y) # x
<1> DEFINE p == x * y
           n == Cast(w, p)
           h == Half[w]
<1>1. h \in Nat /\ h > 1 /\ p \in Int
  BY Halves
<1>2. n \in Int /\ Fits(w, n)
  <2> HIDE DEF p
  <2> QED BY Zenon, <1>1, CastRange
<1>3. PICK k \in Int : n = p - (2 * h) * k
  <2> HIDE DEF p
  <2> QED BY Zenon, <1>1, CastTakes
<1>4. k # 0
  BY <1>1, <1>2, <1>3
<1> SUFFICES ASSUME Quot(n, y) = x PROVE FALSE
  BY Zenon
<1>5. Rem(n, y) \in Int /\ n = y * x + Rem(n, y) /\ Abs(Rem(n, y)) < Abs(y)
  <2> HIDE DEF n
  <2> QED BY Zenon, <1>2, QuotRem
<1> DEFINE r == Rem(n, y)
           c == (2 * h) * k
<1>6. r = -c /\ c \in Int
  <2>1. c \in Int
    BY <1>1, <1>3
  <2>2. y * x = p
    OBVIOUS
  <2>3. r \in Int /\ n = p + r /\ n = p - c
    BY Zenon, <1>3, <1>5, <2>2
  <2> HIDE DEF r, c, p, n
  <2> QED BY <1>1, <2>1, <2>3
<1>7. c >= 2 * h \/ c <= -(2 * h)
  <2> HIDE DEF h
  <2>1. CASE k >= 1
    BY <1>1, <1>3, <2>1
  <2>2. CASE k <= -1
    BY <1>1, <1>3, <2>2
  <2> QED BY <1>3, <1>4, <2>1, <2>2
<1>8. Abs(r) < h + 1 /\ r \in Int
  <2>1. Abs(r) < Abs(y) /\ r \in Int
    BY Zenon, <1>5
  <2> HIDE DEF r
  <2> QED BY <1>1, <2>1 DEF Abs
<1> HIDE DEF r, c, h
<1> QED BY <1>1, <1>6, <1>7, <1>8 DEF Abs

(* Products of operands narrower than INTEGER do not overflow it. *)
LEMMA NarrowProduct ==
  ASSUME NEW t \in IntTypes, NEW u \in IntTypes, Promoted(t, u) # Wider(t, u),
         NEW x \in Min(t) .. Max(t), NEW y \in Min(u) .. Max(u)
  PROVE  Fits(Promoted(t, u), x * y)
<1> DEFINE w == Wider(t, u)
           s == Half["SMALLINT"]
           i == Half["INTEGER"]
<1>1. w \in IntTypes /\ Half[t] <= Half[w] /\ Half[u] <= Half[w]
  BY Zenon, WiderOfTwo
<1>2. Promoted(t, u) = IF Half[w] >= i THEN w ELSE "INTEGER"
  BY Zenon DEF Promoted, Wider
<1>3. s \in Nat /\ s > 1 /\ i \in Nat /\ s * s < i
  BY HalfAssumption DEF IntTypes
<1>4. Half[w] <= s /\ Half[w] \in Nat /\ Half[t] \in Nat /\ Half[u] \in Nat
  BY <1>1, <1>2, <1>3, HalfAssumption DEF IntTypes
<1>5. x \in Int /\ y \in Int /\ Abs(x) <= s /\ Abs(y) <= s
  BY <1>1, <1>3, <1>4 DEF Min, Max, Abs
<1>6. Abs(x) \in Nat /\ Abs(y) \in Nat
  BY <1>5 DEF Abs
<1>7. Abs(x) * Abs(y) <= s * s
  <2> DEFINE a == Abs(x)
             b == Abs(y)
  <2>1. a \in Nat /\ b \in Nat /\ a <= s /\ b <= s
    BY Zenon, <1>5, <1>6
  <2> HIDE DEF a, b, s
  <2>2. a * b <= s * b
    BY <1>3, <2>1
  <2>3. s * b <= s * s
    BY <1>3, <2>1
  <2>4. a * b \in Int /\ s * b \in Int /\ s * s \in Int
    BY <1>3, <2>1
  <2>5. a * b <= s * s
    BY <2>2, <2>3, <2>4
  <2> QED BY Zenon, <2>5 DEF a, b
<1>8. x * y = Abs(x) * Abs(y) \/ x * y = -(Abs(x) * Abs(y))
  BY <1>5 DEF Abs
<1>9. x * y \in -i .. i - 1
  <2> DEFINE c == Abs(x) * Abs(y)
             d == s * s
             p == x * y
  <2>1. c \in Nat /\ d \in Int /\ p \in Int
    BY <1>3, <1>5, <1>6
  <2>2. c <= d /\ d < i /\ (p = c \/ p = -c)
    BY Zenon, <1>3, <1>7, <1>8
  <2> HIDE DEF c, d, p, i
  <2>3. p \in -i .. i - 1
    BY <1>3, <2>1, <2>2
  <2> QED BY Zenon, <2>3 DEF p
<1> QED BY Zenon, <1>2, <1>9 DEF Fits

(* MultiplyValue has one outcome, the exact one, unless the C++ operation    *)
(* overflows in an optimised build.                                          *)
LEMMA MultiplyExact ==
  ASSUME NEW t \in IntTypes, NEW u \in IntTypes,
         NEW x \in Min(t) .. Max(t), NEW y \in Min(u) .. Max(u),
         optimised => Fits(Promoted(t, u), x * y)
  PROVE  MultiplyValue(t, u, x, y) = {SumOutcome(t, u, x * y)}
<1> DEFINE n == x * y
           w == Wider(t, u)
           p == Promoted(t, u)
           raw == Cast(p, n)
           m == Cast(w, raw)
           lost == y # 0 /\ Quot(m, y) # x
<1>1. /\ x \in Int /\ y \in Int /\ n \in Int /\ w \in IntTypes /\ p \in IntTypes /\ w \in {t, u}
      /\ Abs(y) <= Half[w] /\ Half[w] \in Nat
  BY Halves, WiderOfTwo, PromotedType DEF Min, Max, Abs
<1>2. optimised => raw = n
  <2> HIDE DEF n
  <2> QED BY Zenon, <1>1, CastFits DEF n
<1>3. MultiplyValue(t, u, x, y) =
        {IF (raw # Cast(t, raw) /\ raw # Cast(u, raw)) \/ lost THEN Throw("OUT_OF_RANGE") ELSE Value(w, m)}
  BY Zenon, <1>2 DEF MultiplyValue, Outcomes, Narrow
<1>4. CASE Fits(w, n)
  <2>1. Half[w] <= Half[p] /\ Half[p] \in Nat
    BY Zenon, <1>1, WiderOfTwo, Halves DEF Promoted, IntTypes
  <2> HIDE DEF n, p
  <2>2. Fits(p, n)
    BY <1>1, <1>4, <2>1 DEF Fits
  <2>3. raw = n
    BY Zenon, <1>1, <2>2, CastFits
  <2>4. Cast(w, n) = n
    BY Zenon, <1>1, <1>4, CastFits
  <2>5. m = n /\ (raw = Cast(t, raw) \/ raw = Cast(u, raw))
    BY Zenon, <1>1, <2>3, <2>4
  <2>6. y # 0 => Quot(n, y) = x
    BY Zenon, <1>1, QuotProduct DEF n
  <2>7. ~lost
    BY Zenon, <2>5, <2>6
  <2> HIDE DEF raw, m, lost
  <2> QED BY Zenon, <1>3, <1>4, <2>5, <2>7 DEF SumOutcome, n
<1>5. CASE ~Fits(w, n) /\ p # w
  <2>1. Fits(p, n)
    BY Zenon, <1>5, NarrowProduct
  <2> HIDE DEF n
  <2>2. raw = n
    BY Zenon, <1>1, <2>1, CastFits
  <2>3. n # Cast(t, n) /\ n # Cast(u, n)
    BY Zenon, <1>1, <1>5, CastsChange
  <2>4. raw # Cast(t, raw) /\ raw # Cast(u, raw)
    BY Zenon, <2>2, <2>3
  <2> HIDE DEF raw, m, lost
  <2> QED BY Zenon, <1>3, <1>5, <2>4 DEF SumOutcome, n
<1>6. CASE ~Fits(w, n) /\ p = w
  <2>1. raw \in Int /\ Fits(w, raw)
    <3> HIDE DEF n
    <3> QED BY Zenon, <1>1, <1>6, CastRange
  <2>2. m = raw
    <3> HIDE DEF raw
    <3> QED BY Zenon, <1>1, <2>1, CastFits
  <2>3. y # 0
    <3>1. ASSUME y = 0 PROVE FALSE
      <4>1. n = 0
        BY <1>1, <3>1
      <4> HIDE DEF n
      <4> QED BY <1>1, <1>6, <4>1, Halves DEF Fits
    <3> QED BY Zenon, <3>1
  <2>4. Quot(Cast(w, x * y), y) # x
    BY Zenon, <1>1, <1>6, <2>3, OverflowSeen
  <2>5. lost
    BY Zenon, <1>6, <2>2, <2>3, <2>4
  <2> HIDE DEF raw, m, lost
  <2> QED BY Zenon, <1>3, <1>6, <2>5 DEF SumOutcome, n
<1> QED BY Zenon, <1>4, <1>5, <1>6

(* Quotients and remainders fit the wider type: only the smallest number of  *)
(* a type, which is NULL, divided by -1 would not.                           *)
LEMMA DivideExact ==
  ASSUME NEW t \in IntTypes, NEW u \in IntTypes,
         NEW x \in Min(t) .. Max(t), NEW y \in Min(u) .. Max(u), y # 0
  PROVE  /\ DivideValue(t, u, x, y) = {SumOutcome(t, u, Quot(x, y))}
         /\ ModuloValue(t, u, x, y) = {SumOutcome(t, u, Rem(x, y))}
<1> DEFINE w == Wider(t, u)
<1>1. /\ x \in Int /\ y \in Int /\ w \in IntTypes /\ Half[w] \in Nat
      /\ Abs(x) < Half[w] /\ Abs(y) < Half[w]
  BY Halves, WiderOfTwo DEF Min, Max, Abs
<1>2. /\ Quot(x, y) \in Int /\ Rem(x, y) \in Int
      /\ Abs(Quot(x, y)) <= Abs(x) /\ Abs(Rem(x, y)) < Abs(y)
  BY Zenon, <1>1, QuotRem
<1>3. ASSUME NEW n \in Int, Abs(n) < Half[w] PROVE Fits(w, n) /\ Cast(w, n) = n
  <2>1. Fits(w, n)
    BY <1>1, <1>3 DEF Fits, Abs
  <2> QED BY Zenon, <1>1, <2>1, CastFits
<1>4. Abs(x) \in Int /\ Abs(y) \in Int /\ Abs(Quot(x, y)) \in Int /\ Abs(Rem(x, y)) \in Int
  BY <1>1, <1>2 DEF Abs
<1>5. Abs(Quot(x, y)) < Half[w] /\ Abs(Rem(x, y)) < Half[w]
  BY <1>1, <1>2, <1>4
<1>6. Fits(w, Quot(x, y)) /\ Cast(w, Quot(x, y)) = Quot(x, y) /\ Fits(w, Rem(x, y)) /\ Cast(w, Rem(x, y)) = Rem(x, y)
  BY Zenon, <1>2, <1>3, <1>5
<1> QED BY Zenon, <1>6 DEF DivideValue, ModuloValue, SumOutcome

(* Multiply, Divide and Modulo of two integer Values have one outcome, the  *)
(* exact one, with the same proviso.                                         *)
LEMMA ProductExact ==
  ASSUME NEW op \in Products, NEW left, NEW right, IsIntValue(left), IsIntValue(right),
         op # "Multiply" => right.v # 0,
         NEW out \in Arithmetic(op, left, right),
         optimised => Fits(Promoted(left.type, right.type), Exact(op, left.v, right.v))
  PROVE  out = IF IsNull(left) \/ IsNull(right)
               THEN Value(Wider(left.type, right.type), Null(Wider(left.type, right.type)))
               ELSE SumOutcome(left.type, right.type, Exact(op, left.v, right.v))
<1>1. /\ left.type \in IntTypes /\ right.type \in IntTypes
      /\ left.v \in Int /\ right.v \in Int
      /\ IsInt(left) /\ IsInt(right)
  BY Halves DEF IsIntValue, IsInt, Fits
<1>2. CASE IsNull(left) \/ IsNull(right)
  BY Zenon, <1>1, <1>2 DEF Arithmetic, OperateNull
<1>3. CASE ~(IsNull(left) \/ IsNull(right))
  <2> DEFINE t == left.type
             u == right.type
             x == left.v
             y == right.v
  <2>1. x \in Min(t) .. Max(t) /\ y \in Min(u) .. Max(u) /\ t \in IntTypes /\ u \in IntTypes
    BY <1>1, <1>3, Halves DEF IsNull, IsIntValue, Fits, Null, Min, Max
  <2>2. op \in {"Divide", "Modulo"} => y # 0
    BY Zenon
  <2>3. out \in Method(op, t, u, x, y)
    BY Zenon, <1>1, <1>3, <2>2 DEF Arithmetic
  <2>4. optimised => Fits(Promoted(t, u), Exact(op, x, y))
    BY Zenon
  <2> HIDE DEF t, u, x, y
  <2>5. Method(op, t, u, x, y) = {SumOutcome(t, u, Exact(op, x, y))}
    <3>1. CASE op = "Multiply"
      <4>1. Exact(op, x, y) = x * y /\ Method(op, t, u, x, y) = MultiplyValue(t, u, x, y)
        BY Zenon, <3>1 DEF Exact, Method
      <4> QED BY <2>1, <2>4, <4>1, MultiplyExact
    <3>2. CASE op = "Divide"
      <4>1. Exact(op, x, y) = Quot(x, y) /\ Method(op, t, u, x, y) = DivideValue(t, u, x, y)
        BY Zenon, <3>2 DEF Exact, Method
      <4> QED BY <2>1, <2>2, <3>2, <4>1, DivideExact
    <3>3. CASE op = "Modulo"
      <4>1. Exact(op, x, y) = Rem(x, y) /\ Method(op, t, u, x, y) = ModuloValue(t, u, x, y)
        BY Zenon, <3>3 DEF Exact, Method
      <4> QED BY <2>1, <2>2, <3>3, <4>1, DivideExact
    <3> QED BY Zenon, <3>1, <3>2, <3>3 DEF Products
  <2> QED BY Zenon, <1>3, <2>3, <2>5 DEF t, u, x, y
<1> QED BY Zenon, <1>2, <1>3

(* The last call was made with Values, and its outcome is what it answers. *)
CallMeans ==
  LET op == call.op
      l == call.left
      r == call.right
  IN /\ IsInt(l) => IsIntValue(l)
     /\ IsInt(r) => IsIntValue(r)
     /\ op \in Compares => call.out = Compare(op, l, r)
     /\ op \in {"Min", "Max"} => call.out = Extremum(op, l, r)
     /\ op \in {"Plus", "Minus"} => /\ l.type = "INTEGER" /\ r.type = "INTEGER"
                                    /\ call.out = PerformComputation(op, l, r)

(* The names of the calls are different. *)
LEMMA CallNames ==
  ASSUME NEW op
  PROVE  /\ op \in Sums \cup Products => op \notin Compares \cup {"Min", "Max", "Plus", "Minus", "CastAs", "none"}
         /\ op \in Compares => op \notin Sums \cup Products \cup {"Min", "Max", "Plus", "Minus", "CastAs", "none"}
         /\ op \in {"Min", "Max", "Plus", "Minus", "CastAs", "none"} => op \notin Sums \cup Products \cup Compares
BY Zenon DEF Sums, Products, Compares

(* CallMeans is an invariant. *)
LEMMA CallsMean == Spec => []CallMeans
<1>1. Init => CallMeans
  <2> SUFFICES ASSUME Init PROVE CallMeans
    BY Zenon
  <2>1. call.op = "none" /\ call.left = Zero /\ call.right = Zero
    BY Zenon DEF Init, NoCall
  <2>2. IsIntValue(Zero)
    BY Halves DEF Zero, Value, IsIntValue, IsInt, Fits, IntTypes
  <2> QED BY Zenon, <2>1, <2>2, CallNames DEF CallMeans
<1>2. TypeOK /\ CallMeans /\ [Next]_vars => CallMeans'
  <2> SUFFICES ASSUME TypeOK, CallMeans, [Next]_vars PROVE CallMeans'
    BY Zenon
  <2>1. IsIntValue(acc) /\ IsInt(acc)
    BY Zenon DEF TypeOK, IsIntValue
  <2>2. ASSUME NEW right \in Operands, NEW op \in Sums \cup Products, Compute(op, right)
        PROVE  CallMeans'
    <3>1. call'.op = op /\ call'.left = acc /\ call'.right = right
      BY <2>2 DEF Compute, Call
    <3>4. IsInt(right) => IsIntValue(right)
      BY Zenon, OperandTyped
    <3>5. op \notin Compares \cup {"Min", "Max", "Plus", "Minus"}
      BY Zenon, CallNames
    <3> QED BY Zenon, <2>1, <3>1, <3>4, <3>5 DEF CallMeans
  <2>3. ASSUME NEW right \in Operands, NEW op \in Compares, CompareWith(op, right)
        PROVE  CallMeans'
    <3>1. call'.op = op /\ call'.left = acc /\ call'.right = right /\ call'.out = Compare(op, acc, right)
      BY Zenon, <2>3 DEF CompareWith, Call
    <3>2. IsInt(right) => IsIntValue(right)
      BY Zenon, OperandTyped
    <3>3. op \notin Sums \cup Products \cup {"Min", "Max", "Plus", "Minus"}
      BY Zenon, CallNames
    <3> QED BY Zenon, <2>1, <3>1, <3>2, <3>3 DEF CallMeans
  <2>4. ASSUME NEW right \in Operands, NEW op \in {"Min", "Max"}, ExtremumWith(op, right)
        PROVE  CallMeans'
    <3>1. call'.op = op /\ call'.left = acc /\ call'.right = right /\ call'.out = Extremum(op, acc, right)
      BY Zenon, <2>4 DEF ExtremumWith, Call
    <3>2. IsInt(right) => IsIntValue(right)
      BY Zenon, OperandTyped
    <3>3. op \notin Sums \cup Products \cup Compares /\ op \notin {"Plus", "Minus"}
      BY Zenon, CallNames
    <3> QED BY Zenon, <2>1, <3>1, <3>2, <3>3 DEF CallMeans
  <2>5. ASSUME NEW right \in Operands, NEW op \in {"Plus", "Minus"}, EvaluateWith(op, right)
        PROVE  CallMeans'
    <3>1. /\ call'.op = op /\ call'.left = acc /\ call'.right = right /\ call'.out = PerformComputation(op, acc, right)
          /\ acc.type = "INTEGER" /\ right.type = "INTEGER"
      BY Zenon, <2>5 DEF EvaluateWith, Call
    <3>2. IsInt(right) => IsIntValue(right)
      BY Zenon, OperandTyped
    <3>3. op \notin Sums \cup Products \cup Compares /\ op \notin {"Min", "Max"}
      BY Zenon, CallNames
    <3> QED BY Zenon, <2>1, <3>1, <3>2, <3>3 DEF CallMeans
  <2>6. ASSUME NEW val \in Operands \cup {acc}, NEW t \in IntTypes, CastTo(val, t)
        PROVE  CallMeans'
    <3>1. call'.op = "CastAs" /\ call'.left = val /\ call'.right = Value(t, 0)
      BY Zenon, <2>6 DEF CastTo, Call
    <3>2. IsInt(val) => IsIntValue(val)
      BY Zenon, <2>1, OperandTyped
    <3>3. IsIntValue(Value(t, 0))
      BY Halves DEF Value, IsIntValue, IsInt, Fits
    <3> QED BY Zenon, <3>1, <3>2, <3>3, CallNames DEF CallMeans
  <2>7. CASE Assign
    <3>1. call'.op = "none" /\ call'.left = Zero /\ call'.right = Zero
      BY Zenon, <2>7 DEF Assign, NoCall
    <3>2. IsIntValue(Zero)
      BY Halves DEF Zero, Value, IsIntValue, IsInt, Fits, IntTypes
    <3> QED BY Zenon, <3>1, <3>2, CallNames DEF CallMeans
  <2>8. CASE UNCHANGED vars
    BY Zenon, <2>8 DEF vars, CallMeans
  <2> QED BY Zenon, <2>2, <2>3, <2>4, <2>5, <2>6, <2>7, <2>8 DEF Next
<1> QED BY <1>1, <1>2, ValuesTyped, PTL DEF Spec

(* Products, quotients and remainders of integers of any two types are       *)
(* exact, refused or, for the one number below the type, the NULL: dividing  *)
(* the wrapped product back shows every other overflow, and no quotient      *)
(* overflows because the smallest bit pattern of a type is NULL.             *)
THEOREM ProductsCorrect == Spec => []ProductsExact
<1>1. Init => ProductsExact
  BY DEF Init, NoCall, ProductsExact, Products
<1>2. TypeOK /\ ProductsExact /\ [Next]_vars => ProductsExact'
  <2> SUFFICES ASSUME TypeOK, ProductsExact, [Next]_vars PROVE ProductsExact'
    BY Zenon
  <2>1. ASSUME NEW op, NEW left, NEW right, NEW out, Call(op, left, right, out), op \notin Products
        PROVE  ProductsExact'
    BY Zenon, <2>1 DEF Call, ProductsExact
  <2>2. ASSUME NEW right \in Operands, NEW op \in Products, Compute(op, right)
        PROVE  ProductsExact'
    <3>1. PICK out \in Arithmetic(op, acc, right) : Call(op, acc, right, out)
      BY Zenon, <2>2 DEF Compute
    <3>2. /\ call'.op = op /\ call'.left = acc /\ call'.right = right /\ call'.out = out
          /\ optimised' = optimised
      BY Zenon, <3>1 DEF Call
    <3>3. SUFFICES ASSUME IsInt(right), op # "Multiply" => right.v # 0, optimised => ~Undefined'
                   PROVE  ExactOutcome'
      BY Zenon, <3>2 DEF ProductsExact, IsInt
    <3>4. optimised => Fits(Promoted(acc.type, right.type), Exact(op, acc.v, right.v))
      BY Zenon, <3>2, <3>3 DEF Undefined
    <3>5. IsIntValue(acc) /\ IsIntValue(right)
      BY Zenon, <3>3, OperandTyped DEF TypeOK
    <3>6. out = IF IsNull(acc) \/ IsNull(right)
                THEN Value(Wider(acc.type, right.type), Null(Wider(acc.type, right.type)))
                ELSE SumOutcome(acc.type, right.type, Exact(op, acc.v, right.v))
      BY Zenon, <3>1, <3>3, <3>4, <3>5, ProductExact
    <3>7. acc.type \in IntTypes /\ right.type \in IntTypes
      BY Zenon, <3>5 DEF IsIntValue, IsInt
    <3> DEFINE w == Wider(acc.type, right.type)
               n == Exact(op, acc.v, right.v)
    <3>8. SumOutcome(acc.type, right.type, n)
            = IF n \in Min(w) .. Max(w) THEN Value(w, n)
              ELSE IF n = Min(w) - 1 THEN Value(w, Null(w)) ELSE Throw("OUT_OF_RANGE")
      BY Zenon, <3>7, SumOutcomeIs
    <3>9. out = IF IsNull(acc) \/ IsNull(right) THEN Value(w, Null(w)) ELSE SumOutcome(acc.type, right.type, n)
      BY Zenon, <3>6
    <3> HIDE DEF w, n
    <3>10. out = IF IsNull(acc) \/ IsNull(right) THEN Value(w, Null(w))
                 ELSE IF n \in Min(w) .. Max(w) THEN Value(w, n)
                 ELSE IF n = Min(w) - 1 THEN Value(w, Null(w)) ELSE Throw("OUT_OF_RANGE")
      BY Zenon, <3>8, <3>9
    <3> QED BY Zenon, <3>2, <3>10 DEF ExactOutcome, w, n
  <2>3. ASSUME NEW right \in Operands, NEW op \in Sums, Compute(op, right)
        PROVE  ProductsExact'
    BY Zenon, <2>1, <2>3 DEF Compute, Products, Sums
  <2>4. ASSUME NEW right \in Operands, NEW op \in Compares, CompareWith(op, right)
        PROVE  ProductsExact'
    BY Zenon, <2>1, <2>4 DEF CompareWith, Compares, Products
  <2>5. ASSUME NEW right \in Operands, NEW op \in {"Min", "Max"}, ExtremumWith(op, right)
        PROVE  ProductsExact'
    BY Zenon, <2>1, <2>5 DEF ExtremumWith, Products
  <2>6. ASSUME NEW right \in Operands, NEW op \in {"Plus", "Minus"}, EvaluateWith(op, right)
        PROVE  ProductsExact'
    BY Zenon, <2>1, <2>6 DEF EvaluateWith, Products
  <2>7. ASSUME NEW val \in Operands \cup {acc}, NEW t \in IntTypes, CastTo(val, t)
        PROVE  ProductsExact'
    BY Zenon, <2>1, <2>7 DEF CastTo, Products
  <2>8. CASE Assign
    BY Zenon, <2>8 DEF Assign, NoCall, ProductsExact, Products
  <2>9. CASE UNCHANGED vars
    BY Zenon, <2>9 DEF vars, ProductsExact, ExactOutcome, Undefined
  <2> QED BY Zenon, <2>2, <2>3, <2>4, <2>5, <2>6, <2>7, <2>8, <2>9 DEF Next
<1> QED BY <1>1, <1>2, ValuesTyped, PTL DEF Spec

(* Whatever the tests, AddValue and SubtractValue of two INTEGERs answer the *)
(* wrapped sum or refuse.                                                    *)
LEMMA WrapsOrRefuses ==
  ASSUME NEW x \in Int, NEW y \in Int, NEW n \in Int, NEW out,
         \/ n = x + y /\ out \in AddValue("INTEGER", "INTEGER", x, y)
         \/ n = x - y /\ out \in SubtractValue("INTEGER", "INTEGER", x, y)
  PROVE  out = Value("INTEGER", Cast("INTEGER", n)) \/ out = Throw("OUT_OF_RANGE")
<1> DEFINE t == "INTEGER"
           raw == Cast(t, n)
<1>1. t \in IntTypes /\ Wider(t, t) = t /\ Promoted(t, t) = t
  BY Zenon DEF IntTypes, Promoted, Wider
<1>2. raw \in Int /\ Fits(t, raw)
  BY Zenon, <1>1, CastRange
<1>3. Cast(t, raw) = raw
  <2> HIDE DEF raw
  <2> QED BY Zenon, <1>1, <1>2, CastFits
<1>4. CASE n = x + y /\ out \in AddValue(t, t, x, y)
  BY Zenon, <1>1, <1>3, <1>4 DEF AddValue, Outcomes, Narrow
<1>5. CASE n = x - y /\ out \in SubtractValue(t, t, x, y)
  BY Zenon, <1>1, <1>3, <1>5 DEF SubtractValue, Outcomes, Narrow
<1> QED BY Zenon, <1>4, <1>5

(* SQL's + and - answer what Value::Add and Subtract answer, unless these    *)
(* refuse: ArithmeticExpression::PerformComputation makes no test.           *)
THEOREM ExpressionsAgree == Spec => []ExpressionAgrees
<1>1. CallMeans => ExpressionAgrees
  <2> SUFFICES ASSUME CallMeans, call.op \in {"Plus", "Minus"},
                      NEW out \in Arithmetic(IF call.op = "Plus" THEN "Add" ELSE "Subtract", call.left, call.right)
               PROVE  out = call.out \/ out = Throw("OUT_OF_RANGE")
    BY Zenon DEF ExpressionAgrees
  <2> DEFINE l == call.left
             r == call.right
             op == IF call.op = "Plus" THEN "Add" ELSE "Subtract"
             n == IF call.op = "Plus" THEN l.v + r.v ELSE l.v - r.v
  <2>1. l.type = "INTEGER" /\ r.type = "INTEGER" /\ call.out = PerformComputation(call.op, l, r)
    BY Zenon DEF CallMeans
  <2>2. IsInt(l) /\ IsInt(r) /\ IsIntValue(l) /\ IsIntValue(r)
    BY Zenon, <2>1 DEF CallMeans, IsInt, IntTypes
  <2>3. l.v \in Int /\ r.v \in Int
    BY <2>2, Halves DEF IsIntValue, IsInt, Fits
  <2>4. CASE IsNull(l) \/ IsNull(r)
    <3>1. Wider("INTEGER", "INTEGER") = "INTEGER"
      BY Zenon DEF Wider
    <3>2. out = OperateNull(l, r)
      BY Zenon, <2>4 DEF Arithmetic
    <3>3. out = Value("INTEGER", Null("INTEGER"))
      BY Zenon, <2>1, <2>2, <3>1, <3>2 DEF OperateNull
    <3> QED BY Zenon, <2>1, <2>4, <3>3 DEF PerformComputation
  <2>5. CASE ~(IsNull(l) \/ IsNull(r))
    <3>1. out \in Method(op, "INTEGER", "INTEGER", l.v, r.v)
      BY Zenon, <2>1, <2>2, <2>5 DEF Arithmetic
    <3>2. \/ n = l.v + r.v /\ out \in AddValue("INTEGER", "INTEGER", l.v, r.v)
          \/ n = l.v - r.v /\ out \in SubtractValue("INTEGER", "INTEGER", l.v, r.v)
      BY Zenon, <3>1 DEF Method
    <3>3. n \in Int
      BY <2>3
    <3>4. call.out = Value("INTEGER", Cast("INTEGER", n))
      BY Zenon, <2>1, <2>5 DEF PerformComputation
    <3> HIDE DEF n
    <3>5. out = Value("INTEGER", Cast("INTEGER", n)) \/ out = Throw("OUT_OF_RANGE")
      BY Zenon, <2>3, <3>2, <3>3, WrapsOrRefuses
    <3> QED BY Zenon, <3>4, <3>5
  <2> QED BY Zenon, <2>4, <2>5
<1> QED BY <1>1, CallsMean, PTL

-----------------------------------------------------------------------------
(* The comparisons that hold between two Values. *)
IntHolding(a, b) == {op \in {"CompareEquals", "CompareLessThan", "CompareGreaterThan"} :
                       Compare(op, a, b) = CmpBool(TRUE)}

(* A comparison of integers compares the numbers. *)
LEMMA ComparesNumbers ==
  ASSUME NEW op, NEW a, NEW b, IsIntValue(a), IsIntValue(b)
  PROVE  /\ IsNull(a) \/ IsNull(b) => Compare(op, a, b) = CmpNull
         /\ ~(IsNull(a) \/ IsNull(b)) => Compare(op, a, b) = CmpBool(Holds(op, a.v, b.v))
BY Zenon DEF Compare, IsIntValue

(* The three answers of a comparison are different. *)
LEMMA CmpDistinct == CmpNull # CmpBool(TRUE) /\ CmpBool(FALSE) # CmpBool(TRUE) /\ CmpNull # CmpBool(FALSE)
<1>1. CmpNull.v = "CmpNull" /\ CmpBool(TRUE).v = "CmpTrue" /\ CmpBool(FALSE).v = "CmpFalse"
  BY Zenon DEF CmpNull, CmpBool
<1> QED BY Zenon, <1>1

(* Of two integers that are not NULL one comparison holds. *)
LEMMA HoldingOne ==
  ASSUME NEW a, NEW b, IsIntValue(a), IsIntValue(b), ~IsNull(a), ~IsNull(b)
  PROVE  /\ a.v \in Int /\ b.v \in Int
         /\ a.v = b.v => IntHolding(a, b) = {"CompareEquals"}
         /\ a.v < b.v => IntHolding(a, b) = {"CompareLessThan"}
         /\ a.v > b.v => IntHolding(a, b) = {"CompareGreaterThan"}
<1>1. a.v \in Int /\ b.v \in Int
  BY Halves DEF IsIntValue, IsInt, Fits
<1>2. /\ Holds("CompareEquals", a.v, b.v) <=> a.v = b.v
      /\ Holds("CompareLessThan", a.v, b.v) <=> a.v < b.v
      /\ Holds("CompareGreaterThan", a.v, b.v) <=> a.v > b.v
  BY Zenon DEF Holds
<1>3. ASSUME NEW op \in {"CompareEquals", "CompareLessThan", "CompareGreaterThan"}
      PROVE  op \in IntHolding(a, b) <=> Holds(op, a.v, b.v)
  <2>1. Compare(op, a, b) = CmpBool(Holds(op, a.v, b.v))
    BY Zenon, ComparesNumbers
  <2>2. CmpBool(Holds(op, a.v, b.v)) = CmpBool(TRUE) <=> Holds(op, a.v, b.v)
    BY Zenon, CmpDistinct DEF CmpBool
  <2> QED BY Zenon, <2>1, <2>2 DEF IntHolding
<1>4. IntHolding(a, b) \subseteq {"CompareEquals", "CompareLessThan", "CompareGreaterThan"}
  BY Zenon DEF IntHolding
<1>5. /\ "CompareEquals" \in IntHolding(a, b) <=> a.v = b.v
      /\ "CompareLessThan" \in IntHolding(a, b) <=> a.v < b.v
      /\ "CompareGreaterThan" \in IntHolding(a, b) <=> a.v > b.v
  BY Zenon, <1>2, <1>3
<1> QED BY <1>1, <1>4, <1>5

(* With a NULL no comparison holds. *)
LEMMA HoldingNone ==
  ASSUME NEW a, NEW b, IsIntValue(a), IsIntValue(b), IsNull(a) \/ IsNull(b)
  PROVE  IntHolding(a, b) = {}
BY Zenon, ComparesNumbers, CmpDistinct DEF IntHolding

(* Min and Max of two integers that are not NULL answer with the smaller or  *)
(* the larger.                                                               *)
LEMMA ExtremumIs ==
  ASSUME NEW op \in {"Min", "Max"}, NEW a, NEW b, IsIntValue(a), IsIntValue(b), ~IsNull(a), ~IsNull(b)
  PROVE  LET e == Extremum(op, a, b)
         IN /\ e \in {a, b}
            /\ \A c \in {a, b} : IF op = "Min" THEN e.v <= c.v ELSE e.v >= c.v
<1>1. a.v \in Int /\ b.v \in Int
  BY Zenon, HoldingOne
<1> DEFINE k == Keeps[op]
           c == Compare(k, a, b)
<1>2. c = CmpBool(Holds(k, a.v, b.v))
  BY Zenon, ComparesNumbers
<1>3. c.type # "exception" /\ (c = CmpBool(TRUE) <=> Holds(k, a.v, b.v))
  <2>1. c.type = "CmpBool"
    BY <1>2 DEF CmpBool
  <2> QED BY Zenon, <1>2, <2>1, CmpDistinct DEF CmpBool
<1>4. Extremum(op, a, b) = IF Holds(k, a.v, b.v) THEN a ELSE b
  BY Zenon, <1>3 DEF Extremum
<1>5. Holds(k, a.v, b.v) <=> IF op = "Min" THEN a.v < b.v ELSE a.v >= b.v
  <2>1. k = IF op = "Min" THEN "CompareLessThan" ELSE "CompareGreaterThanEquals"
    BY DEF Keeps
  <2> HIDE DEF k
  <2> QED BY Zenon, <2>1 DEF Holds
<1> QED BY <1>1, <1>4, <1>5

(* Comparisons across types are one order, and Min and Max follow it:        *)
(* OneOrder, for every width of the four types.                              *)
THEOREM OrderIsOne == Spec => []OneOrder
<1>1. CallMeans => OneOrder
  <2> SUFFICES ASSUME CallMeans, IsInt(call.left), IsInt(call.right)
               PROVE  LET l == call.left
                          r == call.right
                          swap == [CompareEquals |-> "CompareEquals", CompareLessThan |-> "CompareGreaterThan",
                                   CompareGreaterThan |-> "CompareLessThan"]
                      IN IF IsNull(l) \/ IsNull(r)
                         THEN IntHolding(l, r) = {} /\ (call.op \in Compares => call.out = CmpNull)
                         ELSE /\ \E op \in DOMAIN swap : IntHolding(l, r) = {op} /\ IntHolding(r, l) = {swap[op]}
                              /\ call.op \in {"Min", "Max"} =>
                                   /\ call.out \in {l, r}
                                   /\ \A a \in {l, r} : a = call.out \/ IntHolding(call.out, a) \subseteq
                                         {"CompareEquals", IF call.op = "Min" THEN "CompareLessThan" ELSE "CompareGreaterThan"}
    BY Zenon DEF OneOrder, IntHolding
  <2> DEFINE l == call.left
             r == call.right
             swap == [CompareEquals |-> "CompareEquals", CompareLessThan |-> "CompareGreaterThan",
                      CompareGreaterThan |-> "CompareLessThan"]
  <2>1. IsIntValue(l) /\ IsIntValue(r)
    BY Zenon DEF CallMeans
  <2>2. CASE IsNull(l) \/ IsNull(r)
    BY Zenon, <2>1, <2>2, HoldingNone, ComparesNumbers DEF CallMeans
  <2>3. CASE ~(IsNull(l) \/ IsNull(r))
    <3>1. \E op \in DOMAIN swap : IntHolding(l, r) = {op} /\ IntHolding(r, l) = {swap[op]}
      <4>1. l.v \in Int /\ r.v \in Int
        BY Zenon, <2>1, <2>3, HoldingOne
      <4>2. /\ DOMAIN swap = {"CompareEquals", "CompareLessThan", "CompareGreaterThan"}
            /\ swap["CompareEquals"] = "CompareEquals"
            /\ swap["CompareLessThan"] = "CompareGreaterThan"
            /\ swap["CompareGreaterThan"] = "CompareLessThan"
        BY Zenon
      <4> HIDE DEF swap
      <4>3. CASE l.v = r.v
        BY <2>1, <2>3, <4>1, <4>2, <4>3, HoldingOne
      <4>4. CASE l.v < r.v
        BY <2>1, <2>3, <4>1, <4>2, <4>4, HoldingOne
      <4>5. CASE l.v > r.v
        BY <2>1, <2>3, <4>1, <4>2, <4>5, HoldingOne
      <4> QED BY <4>1, <4>3, <4>4, <4>5
    <3>2. ASSUME call.op \in {"Min", "Max"}
          PROVE  /\ call.out \in {l, r}
                 /\ \A a \in {l, r} : a = call.out \/ IntHolding(call.out, a) \subseteq
                       {"CompareEquals", IF call.op = "Min" THEN "CompareLessThan" ELSE "CompareGreaterThan"}
      <4> DEFINE e == call.out
      <4>1. e = Extremum(call.op, l, r)
        BY Zenon, <3>2 DEF CallMeans
      <4>2. e \in {l, r} /\ \A c \in {l, r} : IF call.op = "Min" THEN e.v <= c.v ELSE e.v >= c.v
        BY <2>1, <2>3, <3>2, <4>1, ExtremumIs
      <4>3. ASSUME NEW a \in {l, r}
            PROVE  IntHolding(e, a) \subseteq
                     {"CompareEquals", IF call.op = "Min" THEN "CompareLessThan" ELSE "CompareGreaterThan"}
        <5>1. IsIntValue(e) /\ IsIntValue(a) /\ ~IsNull(e) /\ ~IsNull(a)
          BY Zenon, <2>1, <2>3, <4>2
        <5>2. /\ e.v \in Int /\ a.v \in Int
              /\ e.v = a.v => IntHolding(e, a) = {"CompareEquals"}
              /\ e.v < a.v => IntHolding(e, a) = {"CompareLessThan"}
              /\ e.v > a.v => IntHolding(e, a) = {"CompareGreaterThan"}
          BY Zenon, <5>1, HoldingOne
        <5>3. IF call.op = "Min" THEN e.v <= a.v ELSE e.v >= a.v
          BY Zenon, <4>2
        <5> HIDE DEF e
        <5> QED BY <3>2, <5>2, <5>3
      <4> QED BY Zenon, <4>2, <4>3
    <3> QED BY Zenon, <2>3, <3>1, <3>2
  <2> QED BY Zenon, <2>2, <2>3
<1> QED BY <1>1, CallsMean, PTL

-----------------------------------------------------------------------------
(* The Values that callers use, by kind. *)
LEMMA Kinds ==
  ASSUME NEW val \in AllValues
  PROVE  \/ \E t \in IntTypes, n \in Wholes : Fits(t, n) /\ val = Value(t, n)
         \/ \E b \in {0, 1, BooleanNull} : val = Boolean(b)
         \/ \E d \in Decimals \cup {DecimalNull, NaN} : val = Decimal(d)
         \/ \E s \in Words \cup {NullText} : val = Varchar(s)
BY Zenon DEF AllValues

(* The type of the NULL of a type. *)
LEMMA NullTyped ==
  ASSUME NEW t \in AllTypes
  PROVE  GetNullValueByType(t).type = t
BY Zenon DEF AllTypes, IntTypes, GetNullValueByType, Value, Boolean, Decimal, Varchar

(* What the NULL of each kind is. *)
LEMMA IntegerNull ==
  ASSUME NEW t \in IntTypes, NEW n
  PROVE  /\ Value(t, n).type = t /\ Value(t, n).v = n /\ IsInt(Value(t, n))
         /\ IsNull(Value(t, n)) <=> n = Null(t)
         /\ IsNullValue(Value(t, n)) <=> n = Null(t)
<1>1. GetNullValueByType(t) = Value(t, Null(t))
  BY Zenon DEF GetNullValueByType, IntTypes
<1>2. Value(t, n).type = t /\ Value(t, n).v = n /\ (Value(t, n) = Value(t, Null(t)) <=> n = Null(t))
  BY Zenon DEF Value
<1>3. IsNullValue(Value(t, n)) <=> n = Null(t)
  BY Zenon, <1>1, <1>2 DEF IsNullValue, HasNull
<1>4. IsInt(Value(t, n)) /\ (IsNull(Value(t, n)) <=> n = Null(t))
  BY Zenon, <1>2 DEF IsInt, IsNull
<1> QED BY Zenon, <1>2, <1>3, <1>4

(* The same of a BOOLEAN, *)
LEMMA BooleanNullIs ==
  ASSUME NEW b
  PROVE  /\ Boolean(b).type = "BOOLEAN" /\ Boolean(b).v = b /\ ~IsInt(Boolean(b))
         /\ IsNullValue(Boolean(b)) <=> b = BooleanNull
BY DEF IsNullValue, HasNull, GetNullValueByType, Value, Boolean, IsInt, IntTypes

(* of a DECIMAL *)
LEMMA DecimalNullIs ==
  ASSUME NEW d
  PROVE  /\ Decimal(d).type = "DECIMAL" /\ Decimal(d).v = d /\ ~IsInt(Decimal(d))
         /\ IsNullValue(Decimal(d)) <=> d = DecimalNull
BY DEF IsNullValue, HasNull, GetNullValueByType, Value, Decimal, IsInt, IntTypes

(* and of a VARCHAR. *)
LEMMA VarcharNullIs ==
  ASSUME NEW s
  PROVE  /\ Varchar(s).type = "VARCHAR" /\ Varchar(s).v = s /\ ~IsInt(Varchar(s))
         /\ IsNullValue(Varchar(s)) <=> s = NullText
BY DEF IsNullValue, HasNull, GetNullValueByType, Value, Varchar, IsInt, IntTypes

(* The whole part of a double is no further from zero than it. *)
LEMMA WholeIs ==
  ASSUME NEW d \in Int, NEW h \in Nat, -4 * h <= d, d <= 4 * h
  PROVE  /\ Whole(d) \in Int /\ -h <= Whole(d) /\ Whole(d) <= h
         /\ -4 * h < d => -h < Whole(d)
         /\ d < 4 * h => Whole(d) < h
BY DEF Whole, Quot, Abs

(* What a call throws is an exception. *)
LEMMA ExceptionIs == ASSUME NEW e PROVE IsException(Throw(e))
BY Zenon DEF IsException, Throw

(* A call of ValueFactory on a Value of each kind. *)
LEMMA FactoryInteger ==
  ASSUME NEW u \in IntTypes, NEW n \in Int, NEW t \in AllTypes, NEW out \in FactoryCastAs(Value(u, n), t)
  PROVE  LET c == ValueCastAs(Value(u, n), t)
         IN  c = out \/ (n = Null(u) /\ IsException(c) /\ out = GetNullValueByType(t))
<1> DEFINE val == Value(u, n)
           c == ValueCastAs(val, t)
<1>1. /\ val.type = u /\ val.v = n /\ IsInt(val) /\ (IsNull(val) <=> n = Null(u))
      /\ IsNullValue(val) <=> n = Null(u)
  BY Zenon, IntegerNull
<1>2. c = CastIntegerAs(val, t)
  BY Zenon, <1>1 DEF ValueCastAs, IsInt, IntTypes
<1> HIDE DEF val
<1>3. IsCoercableFrom(t, val.type)
  BY Zenon, <1>1 DEF IsCoercableFrom, Numeric, AllTypes, IntTypes
<1>4. CASE n = Null(u)
  <2>1. out = GetNullValueByType(t)
    BY Zenon, <1>1, <1>3, <1>4 DEF FactoryCastAs, val
  <2>2. CASE t \in IntTypes
    <3>1. c = Value(t, Null(t))
      BY Zenon, <1>1, <1>2, <1>4, <2>2 DEF CastIntegerAs, CastInt, IntTypes
    <3> QED BY Zenon, <2>1, <2>2, <3>1 DEF GetNullValueByType, IntTypes, val
  <2>3. CASE t = "BOOLEAN"
    BY Zenon, <1>2, <1>4, <2>1, <2>3, ExceptionIs DEF CastIntegerAs, IntTypes, val
  <2>4. CASE t \in {"DECIMAL", "VARCHAR"}
    BY Zenon, <1>1, <1>2, <1>4, <2>1, <2>4 DEF CastIntegerAs, IntTypes, val
  <2> QED BY Zenon, <2>2, <2>3, <2>4 DEF AllTypes
<1>5. CASE n # Null(u)
  <2>2. CASE t \in IntTypes
    <3>1. out = CastInt(val, t)
      BY Zenon, <1>1, <1>3, <1>5, <2>2 DEF FactoryCastAs, FactoryToInteger, IsInt, IntTypes, val
    <3> QED BY Zenon, <3>1, <1>2, <2>2 DEF CastIntegerAs, IntTypes, val
  <2>3. CASE t = "BOOLEAN"
    BY Zenon, <1>1, <1>2, <1>3, <1>5, <2>3 DEF CastIntegerAs, FactoryCastAs, FactoryToOther, IntTypes, val
  <2>4. CASE t = "DECIMAL"
    BY Zenon, <1>1, <1>2, <1>3, <1>5, <2>4 DEF CastIntegerAs, FactoryCastAs, FactoryToOther, IntTypes, val
  <2>5. CASE t = "VARCHAR"
    BY Zenon, <1>1, <1>2, <1>3, <1>5, <2>5 DEF CastIntegerAs, FactoryCastAs, FactoryToOther, IntTypes, val
  <2> QED BY Zenon, <2>2, <2>3, <2>4, <2>5 DEF AllTypes
<1> QED BY Zenon, <1>4, <1>5 DEF val

(* ValueFactory and CastAs make the same of a BOOLEAN, *)
LEMMA FactoryBoolean ==
  ASSUME NEW b, NEW t \in AllTypes, NEW out \in FactoryCastAs(Boolean(b), t)
  PROVE  LET c == ValueCastAs(Boolean(b), t)
         IN  c = out \/ (IsException(c) /\ IsException(out))
<1> DEFINE val == Boolean(b)
           c == ValueCastAs(val, t)
<1>1. val.type = "BOOLEAN" /\ val.v = b /\ ~IsInt(val) /\ (IsNullValue(val) <=> b = BooleanNull)
  BY Zenon, BooleanNullIs
<1>2. c = CastBooleanAs(val, t)
  BY Zenon, <1>1 DEF ValueCastAs
<1> HIDE DEF val
<1>3. CASE t \in Numeric
  <2>1. out = Throw("not coercable")
    BY Zenon, <1>1, <1>3 DEF FactoryCastAs, IsCoercableFrom, Numeric, IntTypes, val
  <2> QED BY Zenon, <1>2, <1>3, <2>1 DEF CastBooleanAs, Numeric, IntTypes, val
<1>4. CASE t = "BOOLEAN"
  <2>1. out = val
    BY Zenon, <1>1, <1>4 DEF FactoryCastAs, IsCoercableFrom, FactoryToOther, IntTypes, GetNullValueByType, val
  <2> QED BY Zenon, <1>2, <1>4, <2>1 DEF CastBooleanAs, val
<1>5. CASE t = "VARCHAR"
  <2>1. out = IF IsNullValue(val) THEN Varchar(NullText) ELSE Varchar(ToString(val))
    BY Zenon, <1>1, <1>5 DEF FactoryCastAs, IsCoercableFrom, FactoryToOther, Numeric, IntTypes, GetNullValueByType, val
  <2> QED BY Zenon, <1>2, <1>5, <2>1 DEF CastBooleanAs, val
<1> QED BY Zenon, <1>3, <1>4, <1>5 DEF AllTypes, Numeric, val

(* of a text unless it is NULL, which CastAs refuses, *)
LEMMA FactoryVarchar ==
  ASSUME NEW s \in Words \cup {NullText}, NEW t \in AllTypes, NEW out \in FactoryCastAs(Varchar(s), t)
  PROVE  LET c == ValueCastAs(Varchar(s), t)
         IN  c = out \/ (s = NullText /\ IsException(c) /\ out = GetNullValueByType(t))
<1> DEFINE val == Varchar(s)
           c == ValueCastAs(val, t)
<1>1. val.type = "VARCHAR" /\ val.v = s /\ ~IsInt(val) /\ (IsNullValue(val) <=> s = NullText)
  BY Zenon, VarcharNullIs
<1>2. c = CastVarcharAs(val, t)
  BY Zenon, <1>1 DEF ValueCastAs
<1>3. IsCoercableFrom(t, "VARCHAR")
  BY Zenon DEF IsCoercableFrom, Numeric, AllTypes, IntTypes
<1> HIDE DEF val
<1>4. CASE s = NullText
  <2>1. out = GetNullValueByType(t)
    BY Zenon, <1>1, <1>3, <1>4 DEF FactoryCastAs, val
  <2>2. CASE t \in IntTypes
    <3>1. AsRead(val) = val
      BY Zenon, <1>1, <1>4 DEF AsRead
    <3>2. c = CastText(val, t)
      BY Zenon, <1>2, <2>2, <3>1 DEF CastVarcharAs, IntTypes
    <3>3. c = Throw("invalid_argument")
      BY Zenon, <3>2, <1>1, <1>4 DEF CastText
    <3> QED BY Zenon, <1>4, <2>1, <3>3, ExceptionIs DEF val
  <2>3. CASE t = "BOOLEAN"
    BY Zenon, <1>1, <1>2, <1>4, <2>1, <2>3, ExceptionIs DEF CastVarcharAs, IntTypes, val
  <2>4. CASE t = "DECIMAL"
    BY Zenon, <1>1, <1>2, <1>4, <2>1, <2>4, ExceptionIs DEF CastVarcharAs, IntTypes, val
  <2>5. CASE t = "VARCHAR"
    BY Zenon, <1>2, <1>4, <2>1, <2>5 DEF CastVarcharAs, IntTypes, GetNullValueByType, val
  <2> QED BY Zenon, <2>2, <2>3, <2>4, <2>5 DEF AllTypes
<1>5. CASE s # NullText
  <2>2. CASE t \in IntTypes
    <3>1. out = CastText(AsRead(val), t)
      BY Zenon, <1>1, <1>3, <1>5, <2>2 DEF FactoryCastAs, FactoryToInteger, val
    <3>2. c = CastText(AsRead(val), t)
      BY Zenon, <1>2, <2>2 DEF CastVarcharAs, IntTypes
    <3> QED BY Zenon, <3>1, <3>2 DEF val
  <2>3. CASE t = "BOOLEAN"
    BY Zenon, <1>1, <1>2, <1>3, <1>5, <2>3 DEF FactoryCastAs, FactoryToOther, IntTypes, val
  <2>4. CASE t = "DECIMAL"
    BY Zenon, <1>1, <1>2, <1>3, <1>5, <2>4 DEF FactoryCastAs, FactoryToOther, IntTypes, val
  <2>5. CASE t = "VARCHAR"
    BY Zenon, <1>1, <1>2, <1>3, <1>5, <2>5 DEF FactoryCastAs, FactoryToOther, CastVarcharAs, IntTypes, val
  <2> QED BY Zenon, <2>2, <2>3, <2>4, <2>5 DEF AllTypes
<1> QED BY Zenon, <1>4, <1>5 DEF val

(* The bounds of an integer type as doubles. *)
LEMMA Bounds ==
  ASSUME NEW t \in IntTypes, NEW d \in Int, d <= DoubleOf(Max(t)), d >= DoubleOf(Min(t)),
         t = "BIGINT" => Abs(d) # DoubleOf(Max(t))
  PROVE  Whole(d) \in Min(t) .. Max(t) /\ (t = "BIGINT" => d < DoubleOf(Max(t)))
<1>1. Half[t] \in Nat /\ Half[t] > 1
  BY Zenon, Halves
<1>2. CASE t # "BIGINT"
  <2> DEFINE h == Half[t] - 1
  <2>1. DoubleOf(Max(t)) = 4 * h /\ DoubleOf(Min(t)) = -4 * h /\ h \in Nat
    BY <1>1, <1>2, RoundingAssumption DEF Max, Min
  <2>2. Whole(d) \in Int /\ -h <= Whole(d) /\ Whole(d) <= h
    BY Zenon, <2>1, WholeIs
  <2> QED BY <1>1, <1>2, <2>2 DEF Max, Min
<1>3. CASE t = "BIGINT"
  <2> DEFINE h == Half["BIGINT"]
             m == DoubleOf(Max("BIGINT"))
  <2>1. m \in Int /\ m = 4 * h /\ DoubleOf(Min("BIGINT")) = -m
    BY Zenon, RoundingAssumption
  <2> HIDE DEF m
  <2>2. d <= m /\ -m <= d /\ Abs(d) # m
    BY Zenon, <1>3, <2>1 DEF m
  <2>3. -m < d /\ d < m
    BY <2>1, <2>2 DEF Abs
  <2>4. -4 * h < d /\ d < 4 * h /\ h \in Nat
    BY <1>1, <1>3, <2>1, <2>3
  <2>5. Whole(d) \in Int /\ -h < Whole(d) /\ Whole(d) < h
    BY <2>4, WholeIs
  <2> QED BY <1>1, <1>3, <2>3, <2>5 DEF Max, Min, m
<1> QED BY Zenon, <1>2, <1>3

(* A number is no NaN. *)
LEMMA NumberDefined ==
  ASSUME NEW d \in Int, NEW t
  PROVE  ~UndefinedCast(Decimal(d), t)
<1>1. Decimal(d).v = d /\ Decimal(NaN).v = NaN /\ d # NaN
  BY DecimalNullIs, DecimalAssumption
<1> QED BY Zenon, <1>1 DEF UndefinedCast

(* A call of ValueFactory on a DECIMAL that is a number, but for the NULL    *)
(* and the two doubles of TwoToThe63.                                        *)
LEMMA FactoryDecimal ==
  ASSUME NEW d \in Decimals \cup {DecimalNull}, NEW t \in AllTypes, NEW out \in FactoryCastAs(Decimal(d), t)
  PROVE  LET c == ValueCastAs(Decimal(d), t)
         IN  \/ c = out \/ (IsException(c) /\ IsException(out))
             \/ d = DecimalNull /\ IsException(c) /\ out = GetNullValueByType(t)
             \/ t = "BIGINT" /\ TwoToThe63(Decimal(d))
<1> DEFINE val == Decimal(d)
           c == ValueCastAs(val, t)
<1>1. val.type = "DECIMAL" /\ val.v = d /\ ~IsInt(val) /\ (IsNullValue(val) <=> d = DecimalNull)
  BY Zenon, DecimalNullIs
<1>2. c = CastDecimalAs(val, t)
  BY Zenon, <1>1 DEF ValueCastAs
<1>3. IsCoercableFrom(t, "DECIMAL")
  BY Zenon DEF IsCoercableFrom, Numeric, AllTypes, IntTypes
<1>0. d \in Int /\ d # NaN /\ ~UndefinedCast(val, t)
  BY NumberDefined, DecimalAssumption
<1> HIDE DEF val
<1>4. CASE d = DecimalNull
  <2>1. out = GetNullValueByType(t)
    BY Zenon, <1>1, <1>3, <1>4 DEF FactoryCastAs, val
  <2>2. CASE t \in IntTypes
    BY Zenon, <1>1, <1>2, <1>4, <2>1, <2>2 DEF CastDecimalAs, IntTypes, val
  <2>3. CASE t = "BOOLEAN"
    BY Zenon, <1>2, <1>4, <2>1, <2>3, ExceptionIs DEF CastDecimalAs, IntTypes, val
  <2>4. CASE t = "DECIMAL"
    BY Zenon, <1>2, <1>4, <2>1, <2>4 DEF CastDecimalAs, IntTypes, GetNullValueByType, val
  <2>5. CASE t = "VARCHAR"
    BY Zenon, <1>1, <1>2, <1>4, <2>1, <2>5 DEF CastDecimalAs, IntTypes, GetNullValueByType, val
  <2> QED BY Zenon, <2>2, <2>3, <2>4, <2>5 DEF AllTypes
<1>5. CASE d # DecimalNull
  <2>2. CASE t \in IntTypes
    <3>1. out \in FactoryOfDecimal(val, t)
      BY Zenon, <1>1, <1>3, <1>5, <2>2 DEF FactoryCastAs, FactoryToInteger, val
    <3> DEFINE hi == DoubleOf(Max(t))
               lo == DoubleOf(Min(t))
    <3>2. c = IF d > hi \/ (t = "BIGINT" /\ d = hi) \/ d < lo THEN Throw("OUT_OF_RANGE") ELSE Value(t, Whole(d))
      BY Zenon, <1>1, <1>2, <1>5, <2>2 DEF CastDecimalAs, IntTypes
    <3>3. CASE d > hi \/ d < lo
      <4>1. out = Throw("OUT_OF_RANGE")
        BY Zenon, <1>0, <1>1, <3>1, <3>3 DEF FactoryOfDecimal
      <4> QED BY Zenon, <3>2, <3>3, <4>1 DEF val
    <3>4. CASE ~(d > hi \/ d < lo) /\ ~(t = "BIGINT" /\ Abs(d) = hi)
      <4>0. hi \in Int /\ lo \in Int
        BY <2>2, RoundingAssumption, Halves DEF Max, Min
      <4>1. Whole(d) \in Min(t) .. Max(t) /\ (t = "BIGINT" => d < hi)
        BY <1>0, <2>2, <3>4, <4>0, Bounds
      <4>2. ~(Whole(d) > Max(t)) /\ ~(t = "BIGINT" /\ d = hi)
        BY <1>0, <2>2, <4>0, <4>1, Halves DEF Max, Min
      <4>3. out = Value(t, Whole(d))
        BY Zenon, <1>0, <1>1, <3>1, <3>4, <4>2 DEF FactoryOfDecimal
      <4> QED BY Zenon, <3>2, <3>4, <4>2, <4>3 DEF val
    <3>5. CASE t = "BIGINT" /\ Abs(d) = hi
      BY Zenon, <1>0, <1>1, <3>5 DEF TwoToThe63, val
    <3> QED BY Zenon, <3>3, <3>4, <3>5
  <2>3. CASE t = "BOOLEAN"
    BY Zenon, <1>1, <1>2, <1>3, <1>5, <2>3 DEF FactoryCastAs, FactoryToOther, CastDecimalAs, IntTypes, val
  <2>4. CASE t = "DECIMAL"
    BY Zenon, <1>1, <1>2, <1>3, <1>5, <2>4 DEF FactoryCastAs, FactoryToOther, CastDecimalAs, IntTypes, val
  <2>5. CASE t = "VARCHAR"
    BY Zenon, <1>1, <1>2, <1>3, <1>5, <2>5 DEF FactoryCastAs, FactoryToOther, CastDecimalAs, IntTypes, val
  <2> QED BY Zenon, <2>2, <2>3, <2>4, <2>5 DEF AllTypes
<1> QED BY Zenon, <1>4, <1>5 DEF val

(* The NaN, which is cast as any other double to what is no integer. *)
LEMMA FactoryNaN ==
  ASSUME NEW t \in AllTypes, ~UndefinedCast(Decimal(NaN), t), NEW out \in FactoryCastAs(Decimal(NaN), t)
  PROVE  ValueCastAs(Decimal(NaN), t) = out
<1> DEFINE val == Decimal(NaN)
           c == ValueCastAs(val, t)
<1>1. val.type = "DECIMAL" /\ val.v = NaN /\ ~IsInt(val) /\ ~IsNullValue(val)
  BY Zenon, DecimalNullIs, DecimalAssumption
<1>2. c = CastDecimalAs(val, t)
  BY Zenon, <1>1 DEF ValueCastAs
<1>3. IsCoercableFrom(t, "DECIMAL")
  BY Zenon DEF IsCoercableFrom, Numeric, AllTypes, IntTypes
<1>4. t \notin IntTypes
  BY Zenon DEF UndefinedCast
<1> HIDE DEF val
<1>5. CASE t = "BOOLEAN"
  BY Zenon, <1>1, <1>2, <1>3, <1>5 DEF FactoryCastAs, FactoryToOther, CastDecimalAs, IntTypes, val
<1>6. CASE t = "DECIMAL"
  BY Zenon, <1>1, <1>2, <1>3, <1>6 DEF FactoryCastAs, FactoryToOther, CastDecimalAs, IntTypes, val
<1>7. CASE t = "VARCHAR"
  BY Zenon, <1>1, <1>2, <1>3, <1>7 DEF FactoryCastAs, FactoryToOther, CastDecimalAs, IntTypes, val
<1> QED BY Zenon, <1>4, <1>5, <1>6, <1>7 DEF AllTypes

(* What either cast makes of a DECIMAL that becomes an integer. *)
LEMMA DecimalOutcome ==
  ASSUME NEW d \in Decimals, NEW t \in AllTypes, NEW out, NEW op \in {"CastAs", "ValueFactory"},
         IF op = "CastAs" THEN out = ValueCastAs(Decimal(d), t) ELSE out \in FactoryCastAs(Decimal(d), t),
         IsInt(out)
  PROVE  /\ t \in IntTypes /\ out.type = t /\ d \in Int
         /\ ~(d > DoubleOf(Max(t))) /\ ~(d < DoubleOf(Min(t)))
         /\ op = "CastAs" => ~(t = "BIGINT" /\ d = DoubleOf(Max(t))) /\ out = Value(t, Whole(d))
         /\ op = "ValueFactory" => out \in IF Whole(d) > Max(t) THEN {Value(t, Null(t)), Value(t, Max(t))}
                                             ELSE {Value(t, Whole(d))}
<1> DEFINE val == Decimal(d)
           c == CastDecimalAs(val, t)
<1>1. /\ val.type = "DECIMAL" /\ val.v = d /\ ~IsInt(val) /\ ~IsNullValue(val) /\ d \in Int /\ d # DecimalNull
      /\ ~UndefinedCast(val, t)
  <2>1. d \in Int /\ DecimalNull \in Int /\ d > DecimalNull
    BY Zenon, DecimalAssumption
  <2> QED BY <2>1, DecimalNullIs, NumberDefined
<1>2. ValueCastAs(val, t) = c
  BY Zenon, <1>1 DEF ValueCastAs
<1>3. out = c \/ out \in FactoryCastAs(val, t)
  BY Zenon, <1>2
<1>4. IsCoercableFrom(t, "DECIMAL")
  BY Zenon DEF IsCoercableFrom, Numeric, AllTypes, IntTypes
<1>5. op = "CastAs" => out = c
  BY Zenon, <1>2
<1>0. op = "ValueFactory" => out \in FactoryCastAs(val, t)
  BY Zenon
<1> HIDE DEF val
<1>6. ASSUME t \notin IntTypes
      PROVE  FALSE
  <2>1. c = val \/ c = Varchar(ToString(val)) \/ c = Throw("not coercable")
    BY Zenon, <1>1, <1>6 DEF CastDecimalAs, AllTypes
  <2>2. FactoryCastAs(val, t) = FactoryToOther(val, t)
    BY Zenon, <1>1, <1>4, <1>6 DEF FactoryCastAs
  <2>3. \A x \in FactoryToOther(val, t) : x = val \/ x = Varchar(ToString(val)) \/ x = Throw("not coercable")
    <3>1. CASE t = "DECIMAL"
      BY Zenon, <1>1, <3>1 DEF FactoryToOther
    <3>2. CASE t = "VARCHAR"
      BY Zenon, <1>1, <3>2 DEF FactoryToOther
    <3>3. CASE t = "BOOLEAN"
      BY Zenon, <1>1, <3>3 DEF FactoryToOther
    <3> QED BY Zenon, <3>1, <3>2, <3>3, <1>6 DEF AllTypes
  <2>4. ~IsInt(Varchar(ToString(val))) /\ ~IsInt(Throw("not coercable"))
    BY Zenon DEF IsInt, IntTypes, Varchar, Value, Throw
  <2> QED BY Zenon, <1>1, <1>3, <2>1, <2>2, <2>3, <2>4
<1>7. t \in IntTypes
  BY Zenon, <1>6
<1> DEFINE hi == DoubleOf(Max(t))
           lo == DoubleOf(Min(t))
<1>8. FactoryCastAs(val, t) = FactoryOfDecimal(val, t)
  BY Zenon, <1>1, <1>4, <1>7 DEF FactoryCastAs, FactoryToInteger
<1>9. c = IF d > hi \/ (t = "BIGINT" /\ d = hi) \/ d < lo THEN Throw("OUT_OF_RANGE") ELSE Value(t, Whole(d))
  BY Zenon, <1>1, <1>7 DEF CastDecimalAs, IntTypes
<1>10. ~IsInt(Throw("OUT_OF_RANGE"))
  BY Zenon DEF IsInt, IntTypes, Throw
<1>11. \A n : Value(t, n).type = t
  BY Zenon DEF Value
<1>12. CASE op = "CastAs"
  BY Zenon, <1>1, <1>5, <1>7, <1>9, <1>10, <1>11, <1>12
<1>13. CASE op = "ValueFactory"
  <2>1. FactoryOfDecimal(val, t) =
          IF d > hi \/ d < lo THEN {Throw("OUT_OF_RANGE")}
          ELSE IF Whole(d) > Max(t) THEN {Value(t, Null(t)), Value(t, Max(t))} ELSE {Value(t, Whole(d))}
    BY Zenon, <1>1 DEF FactoryOfDecimal
  <2>2. ~(d > hi) /\ ~(d < lo)
    BY Zenon, <1>0, <1>8, <1>10, <1>13, <2>1
  <2>3. out \in IF Whole(d) > Max(t) THEN {Value(t, Null(t)), Value(t, Max(t))} ELSE {Value(t, Whole(d))}
    BY Zenon, <1>0, <1>8, <1>13, <2>1, <2>2
  <2> QED BY Zenon, <1>1, <1>7, <1>11, <1>13, <2>2, <2>3
<1> QED BY Zenon, <1>12, <1>13

(* A DECIMAL that becomes an integer, by CastAs or by ValueFactory. *)
LEMMA DecimalToInteger ==
  ASSUME NEW d \in Decimals, NEW t \in AllTypes, NEW out, NEW op \in {"CastAs", "ValueFactory"},
         IF op = "CastAs" THEN out = ValueCastAs(Decimal(d), t) ELSE out \in FactoryCastAs(Decimal(d), t),
         IsInt(out)
  PROVE  IF out.type = "BIGINT" /\ TwoToThe63(Decimal(d))
         THEN IsNull(out) \/ (op = "ValueFactory" /\ d > 0 /\ out.v = Max("BIGINT"))
         ELSE out.v = Quot(d, 4) /\ ~IsNull(out)
<1> DEFINE hi == DoubleOf(Max(t))
           lo == DoubleOf(Min(t))
<1>1. /\ t \in IntTypes /\ out.type = t /\ d \in Int /\ ~(d > hi) /\ ~(d < lo)
      /\ op = "CastAs" => ~(t = "BIGINT" /\ d = hi) /\ out = Value(t, Whole(d))
      /\ op = "ValueFactory" => out \in IF Whole(d) > Max(t) THEN {Value(t, Null(t)), Value(t, Max(t))}
                                          ELSE {Value(t, Whole(d))}
  BY Zenon, DecimalOutcome
<1>2. hi \in Int /\ lo \in Int
  BY <1>1, RoundingAssumption, Halves DEF Max, Min
<1>3. Decimal(d).v = d /\ Decimal(d).type = "DECIMAL" /\ d # NaN
  BY <1>1, DecimalNullIs, DecimalAssumption
<1>4. CASE t = "BIGINT" /\ Abs(d) = hi
  <2> DEFINE h == Half["BIGINT"]
  <2>1. hi = 4 * h /\ h \in Nat /\ h > 1
    BY Zenon, <1>1, <1>4, RoundingAssumption, Halves
  <2>2. d = 4 * h \/ d = -4 * h
    BY <1>1, <1>4, <2>1 DEF Abs
  <2>3. CASE d = 4 * h
    <3>1. op = "ValueFactory" /\ d > 0 /\ out \in {Value(t, Null(t)), Value(t, Max(t)), Value(t, Whole(d))}
      BY <1>1, <1>4, <2>1, <2>3
    <3>2. Whole(d) > Max(t)
      BY <1>4, <2>1, <2>3 DEF Whole, Quot, Abs, Max
    <3>3. out = Value(t, Null(t)) \/ out = Value(t, Max(t))
      BY Zenon, <1>1, <3>1, <3>2
    <3>4. IsNull(out) \/ out.v = Max("BIGINT")
      <4>1. CASE out = Value(t, Null(t))
        <5>1. IsNull(Value(t, Null(t)))
          BY Zenon, <1>1, IntegerNull
        <5> QED BY Zenon, <4>1, <5>1
      <4>2. CASE out = Value(t, Max(t))
        BY Zenon, <1>1, <1>4, <4>2, IntegerNull
      <4> QED BY Zenon, <3>3, <4>1, <4>2
    <3> QED BY Zenon, <1>1, <1>3, <1>4, <3>1, <3>4 DEF TwoToThe63
  <2>4. CASE d = -4 * h
    <3>1. Whole(d) = Null(t) /\ ~(Whole(d) > Max(t))
      BY <1>4, <2>1, <2>4 DEF Whole, Quot, Abs, Max, Null
    <3>2. out = Value(t, Null(t))
      BY Zenon, <1>1, <3>1
    <3> QED BY Zenon, <1>1, <1>3, <1>4, <3>2, IntegerNull DEF TwoToThe63
  <2> QED BY Zenon, <2>2, <2>3, <2>4
<1>5. CASE ~(t = "BIGINT" /\ Abs(d) = hi)
  <2>1. Whole(d) \in Min(t) .. Max(t)
    BY <1>1, <1>2, <1>5, Bounds
  <2>2. ~(Whole(d) > Max(t)) /\ Whole(d) # Null(t)
    BY <1>1, <2>1, Halves DEF Max, Min, Null
  <2>3. out = Value(t, Whole(d))
    BY Zenon, <1>1, <2>2
  <2>4. ~(out.type = "BIGINT" /\ TwoToThe63(Decimal(d)))
    BY Zenon, <1>1, <1>3, <1>5 DEF TwoToThe63
  <2>5. out.v = Whole(d) /\ ~IsNull(out)
    <3>1. Value(t, Whole(d)).v = Whole(d) /\ (IsNull(Value(t, Whole(d))) <=> Whole(d) = Null(t))
      BY Zenon, <1>1, IntegerNull
    <3> QED BY Zenon, <2>2, <2>3, <3>1
  <2> QED BY Zenon, <2>4, <2>5 DEF Whole
<1> QED BY Zenon, <1>4, <1>5

(* The texts have places. *)
LEMMA Places ==
  ASSUME NEW s \in DOMAIN TextTable
  PROVE  s \in Int /\ s # NullText
<1>1. s \in 1 .. Len(TextTable) /\ Len(TextTable) \in Nat
  BY TextAssumption
<1> QED BY <1>1, TextAssumption

(* An integer shown as text is read back. *)
LEMMA IntegerTextBack ==
  ASSUME NEW u \in IntTypes, NEW n \in Wholes, Fits(u, n)
  PROVE  LET back == ValueCastAs(ValueCastAs(Value(u, n), "VARCHAR"), u)
         IN  IF n = Null(u) THEN IsException(back) ELSE back = Value(u, n)
<1> DEFINE val == Value(u, n)
           c == ValueCastAs(val, "VARCHAR")
<1>1. /\ val.type = u /\ val.v = n /\ IsInt(val) /\ (IsNull(val) <=> n = Null(u)) /\ n \in Int
  BY Zenon, IntegerNull, DecimalAssumption
<1>2. c = IF n = Null(u) THEN Varchar(NullText) ELSE Varchar(ToString(val))
  <2>1. c = CastIntegerAs(val, "VARCHAR")
    BY Zenon, <1>1 DEF ValueCastAs, IsInt, IntTypes
  <2>2. GetNullValueByType("VARCHAR") = Varchar(NullText)
    BY Zenon DEF GetNullValueByType, IntTypes
  <2> QED BY Zenon, <1>1, <2>1, <2>2 DEF CastIntegerAs, IntTypes
<1> HIDE DEF c
<1>3. ASSUME NEW s
      PROVE  ValueCastAs(Varchar(s), u) = CastText(AsRead(Varchar(s)), u)
  <2>1. ValueCastAs(Varchar(s), u) = CastVarcharAs(Varchar(s), u)
    BY Zenon, VarcharNullIs DEF ValueCastAs
  <2> QED BY Zenon, <2>1 DEF CastVarcharAs, IntTypes
<1>4. CASE n = Null(u)
  <2>1. AsRead(Varchar(NullText)) = Varchar(NullText) /\ Varchar(NullText).v = NullText
    BY Zenon, VarcharNullIs DEF AsRead
  <2>2. ValueCastAs(c, u) = Throw("invalid_argument")
    BY Zenon, <1>2, <1>3, <1>4, <2>1 DEF CastText
  <2> QED BY Zenon, <1>4, <2>2, ExceptionIs DEF c
<1>5. CASE n # Null(u)
  <2> DEFINE s == ToString(val)
  <2>1. s \in DOMAIN TextTable /\ TextTable[s].shows = <<"INTEGER", n>>
    BY Zenon, <1>1, TextAssumption DEF ToString
  <2>2. TextTable[s].whole = n /\ s # NullText
    <3>1. TextTable[s].shows[1] = "INTEGER" /\ TextTable[s].shows[2] = n
      BY <2>1
    <3> HIDE DEF s
    <3> QED BY Zenon, <2>1, <3>1, Places, TextAssumption
  <2> HIDE DEF s
  <2>3. AsRead(Varchar(s)) = Value("VARCHAR", n)
    BY Zenon, <2>2, VarcharNullIs DEF AsRead
  <2>4. Value("VARCHAR", n).v = n
    BY Zenon DEF Value
  <2>5. ValueCastAs(c, u) = CastText(Value("VARCHAR", n), u)
    BY Zenon, <1>2, <1>3, <1>5, <2>3 DEF s
  <2>6. Fits(Wider(u, "INTEGER"), n)
    <3>1. Half[u] \in Nat /\ Half["INTEGER"] \in Nat
      BY Zenon, Halves DEF IntTypes
    <3> QED BY <1>1, <3>1 DEF Fits, Wider
  <2>7. Cast(u, n) = n
    BY Zenon, <1>1, CastFits
  <2>8. n \notin {NullText, NoNumber}
    BY Zenon, <1>1, TextAssumption
  <2> QED BY Zenon, <1>5, <2>4, <2>5, <2>6, <2>7, <2>8 DEF CastText, c
<1> QED BY Zenon, <1>4, <1>5 DEF c

(* A truth value shown as text is read back. *)
LEMMA BooleanTextBack ==
  ASSUME NEW b \in {0, 1, BooleanNull}
  PROVE  LET back == ValueCastAs(ValueCastAs(Boolean(b), "VARCHAR"), "BOOLEAN")
         IN  IF b = BooleanNull THEN IsException(back) ELSE back = Boolean(b)
<1> DEFINE val == Boolean(b)
           c == ValueCastAs(val, "VARCHAR")
<1>1. val.type = "BOOLEAN" /\ val.v = b /\ ~IsInt(val) /\ (IsNullValue(val) <=> b = BooleanNull)
  BY Zenon, BooleanNullIs
<1>2. c = IF b = BooleanNull THEN Varchar(NullText) ELSE Varchar(ToString(val))
  <2>1. c = CastBooleanAs(val, "VARCHAR")
    BY Zenon, <1>1 DEF ValueCastAs
  <2> QED BY Zenon, <1>1, <2>1 DEF CastBooleanAs
<1> HIDE DEF c
<1>3. ASSUME NEW s
      PROVE  ValueCastAs(Varchar(s), "BOOLEAN") = CastVarcharAs(Varchar(s), "BOOLEAN")
  BY Zenon, VarcharNullIs DEF ValueCastAs
<1>4. CASE b = BooleanNull
  <2>1. CastVarcharAs(Varchar(NullText), "BOOLEAN") = Throw("format error")
    BY Zenon, VarcharNullIs DEF CastVarcharAs, IntTypes
  <2> QED BY Zenon, <1>2, <1>3, <1>4, <2>1, ExceptionIs DEF c
<1>5. CASE b # BooleanNull
  <2> DEFINE s == ToString(val)
  <2>1. s \in DOMAIN TextTable /\ TextTable[s].shows = <<"BOOLEAN", b>>
    BY Zenon, <1>1, <1>5, TextAssumption DEF ToString
  <2>2. TextTable[s].truth = b /\ s # NullText /\ b # NoNumber
    <3>1. TextTable[s].shows[1] = "BOOLEAN" /\ TextTable[s].shows[2] = b
      BY <2>1
    <3>2. b \in Int
      BY <1>5
    <3> HIDE DEF s
    <3>3. TextTable[s].truth = b
      BY Zenon, <2>1, <3>1, TextAssumption
    <3> QED BY Zenon, <2>1, <3>2, <3>3, Places, TextAssumption
  <2> HIDE DEF s
  <2>3. ~IsNullValue(Varchar(s)) /\ Varchar(s).v = s
    BY Zenon, <2>2, VarcharNullIs
  <2>4. CastVarcharAs(Varchar(s), "BOOLEAN") = Boolean(b)
    <3> DEFINE read == IF IsNullValue(Varchar(s)) THEN [quarters |-> NoNumber, truth |-> NoNumber]
                       ELSE TextTable[Varchar(s).v]
    <3>1. read.truth = b
      BY Zenon, <2>2, <2>3
    <3>2. CastVarcharAs(Varchar(s), "BOOLEAN")
            = IF read.truth = NoNumber THEN Throw("format error") ELSE Boolean(read.truth)
      <4> HIDE DEF read
      <4> QED BY Zenon DEF CastVarcharAs, IntTypes, read
    <3> QED BY Zenon, <2>2, <3>1, <3>2
  <2> QED BY Zenon, <1>2, <1>3, <1>5, <2>4 DEF c, s
<1> QED BY Zenon, <1>4, <1>5 DEF c

(* Two Values of which one order is promised. *)
OneKind(l, r) == l.type = r.type \/ {l.type, r.type} \subseteq Numeric

(* What of a Value is compared with another one. *)
Key(val, other) == IF IsInt(val) /\ other.type = "DECIMAL" THEN DoubleOf(val.v) ELSE val.v

(* The answers of a comparison are different. *)
LEMMA CmpIs ==
  /\ \A b \in BOOLEAN : (CmpBool(b) = CmpBool(TRUE) <=> b) /\ ~IsException(CmpBool(b))
  /\ CmpNull # CmpBool(TRUE)
BY Zenon DEF CmpBool, CmpNull, IsException

(* HasNull of two Values. *)
LEMMA HasNullIs ==
  ASSUME NEW l, NEW r
  PROVE  HasNull(l, r) <=> IsNullValue(l) \/ IsNullValue(r)
BY Zenon DEF HasNull, IsNullValue

(* What a Value that is no NULL is compared by is a number or the NaN. *)
LEMMA KeyIs ==
  ASSUME NEW l \in AllValues, NEW r, ~IsNullValue(l)
  PROVE  /\ Key(l, r) \in Int \cup {NaN} /\ (Key(l, r) = NaN <=> l.v = NaN)
         /\ l.v = NaN => l.type = "DECIMAL"
<1>0. NaN \notin Int
  BY Zenon, DecimalAssumption
<1>1. CASE \E t \in IntTypes, n \in Wholes : l = Value(t, n)
  <2>1. PICK t \in IntTypes, n \in Wholes : l = Value(t, n)
    BY Zenon, <1>1
  <2>2. l.v = n /\ n \in Int /\ DoubleOf(n) \in Int
    BY Zenon, <2>1, IntegerNull, DecimalAssumption, RoundingAssumption
  <2> QED BY Zenon, <1>0, <2>2 DEF Key
<1>2. CASE \E d \in Decimals \cup {DecimalNull, NaN} : l = Decimal(d)
  <2>1. PICK d \in Decimals \cup {DecimalNull, NaN} : l = Decimal(d)
    BY Zenon, <1>2
  <2>2. l.v = d /\ ~IsInt(l) /\ l.type = "DECIMAL" /\ d \in Int \cup {NaN}
    BY Zenon, <2>1, DecimalNullIs, DecimalAssumption
  <2> QED BY Zenon, <2>2 DEF Key
<1>3. CASE \E b \in {0, 1, BooleanNull} : l = Boolean(b)
  <2>1. PICK b \in {0, 1, BooleanNull} : l = Boolean(b)
    BY Zenon, <1>3
  <2>2. b \in Int
    BY DEF BooleanNull
  <2>3. l.v = b /\ ~IsInt(l)
    BY Zenon, <2>1, BooleanNullIs
  <2> QED BY Zenon, <1>0, <2>2, <2>3 DEF Key
<1>4. CASE \E s \in Words \cup {NullText} : l = Varchar(s)
  <2>1. PICK s \in Words \cup {NullText} : l = Varchar(s)
    BY Zenon, <1>4
  <2>2. l.v = s /\ ~IsInt(l) /\ s \in Int
    BY Zenon, <2>1, VarcharNullIs, Places, TextAssumption
  <2> QED BY Zenon, <1>0, <2>2 DEF Key
<1> QED BY Zenon, <1>1, <1>2, <1>3, <1>4, Kinds

(* Without a NULL each comparison is the one of two doubles. *)
LEMMA ComparesDoubles ==
  ASSUME NEW l \in AllValues, NEW r \in AllValues, ~HasNull(l, r), OneKind(l, r), NEW op
  PROVE  ValueCompare(op, l, r) = CmpBool(HoldsOf(op, Key(l, r), Key(r, l)))
<1>0. ~IsNullValue(l) /\ ~IsNullValue(r)
  BY Zenon, HasNullIs
<1>1. CASE \E t \in IntTypes, n \in Wholes : l = Value(t, n)
  <2>1. PICK t \in IntTypes, n \in Wholes : l = Value(t, n)
    BY Zenon, <1>1
  <2>2. l.type = t /\ l.v = n /\ IsInt(l) /\ ~IsNull(l) /\ l.type # "DECIMAL"
    BY Zenon, <1>0, <2>1, IntegerNull DEF IntTypes
  <2>3. ValueCompare(op, l, r) = CompareInteger(op, l, r)
    BY Zenon, <2>2 DEF ValueCompare, IsInt, IntTypes
  <2>4. n \in Int /\ n # NaN
    BY Zenon, DecimalAssumption
  <2>5. CASE r.type = "DECIMAL"
    <3>1. ~IsInt(r)
      BY Zenon, <2>5 DEF IsInt, IntTypes
    <3> QED BY Zenon, <2>2, <2>3, <2>4, <2>5, <3>1 DEF CompareInteger, Key
  <2>6. CASE IsInt(r)
    <3>1. PICK u \in IntTypes, m \in Wholes : r = Value(u, m)
      BY <2>6, Kinds, BooleanNullIs, DecimalNullIs, VarcharNullIs
    <3>2. r.type = u /\ r.v = m /\ m \in Int /\ m # NaN /\ ~IsNull(r) /\ r.type # "DECIMAL" /\ r.type # "VARCHAR"
      <4>1. r.type = u /\ r.v = m /\ ~IsNull(r)
        BY Zenon, <1>0, <3>1, IntegerNull
      <4>2. m \in Int /\ m # NaN
        BY Zenon, DecimalAssumption
      <4> QED BY Zenon, <4>1, <4>2 DEF IntTypes
    <3>3. AsRead(r) = r
      BY Zenon, <3>2 DEF AsRead
    <3>4. Compare(op, l, r) = CmpBool(Holds(op, l.v, r.v))
      BY Zenon, <2>2, <2>6, <3>2 DEF Compare
    <3> QED BY Zenon, <2>2, <2>3, <2>4, <3>2, <3>3, <3>4 DEF CompareInteger, Key, HoldsOf
  <2> QED BY Zenon, <2>2, <2>5, <2>6 DEF OneKind, Numeric, IsInt
<1>2. CASE \E d \in Decimals \cup {DecimalNull, NaN} : l = Decimal(d)
  <2>1. PICK d \in Decimals \cup {DecimalNull, NaN} : l = Decimal(d)
    BY Zenon, <1>2
  <2>2. l.type = "DECIMAL" /\ l.v = d /\ ~IsInt(l)
    BY Zenon, <2>1, DecimalNullIs
  <2>3. ValueCompare(op, l, r) = CompareDecimal(op, l, r)
    BY Zenon, <2>2 DEF ValueCompare
  <2>4. CASE IsInt(r)
    BY Zenon, <2>2, <2>3, <2>4 DEF CompareDecimal, Key
  <2>5. CASE r.type = "DECIMAL"
    <3>1. ~IsInt(r)
      BY Zenon, <2>5 DEF IsInt, IntTypes
    <3>2. ValueCastAs(r, "DECIMAL") = r
      BY Zenon, <2>5, <3>1 DEF ValueCastAs, CastDecimalAs, IntTypes
    <3>3. ~IsException(r)
      BY Zenon, <2>5 DEF IsException
    <3> QED BY Zenon, <2>2, <2>3, <3>1, <3>2, <3>3 DEF CompareDecimal, CompareCast, Key
  <2> QED BY Zenon, <2>2, <2>4, <2>5 DEF OneKind, Numeric, IsInt
<1>3. CASE \E b \in {0, 1, BooleanNull} : l = Boolean(b)
  <2>1. PICK b \in {0, 1, BooleanNull} : l = Boolean(b)
    BY Zenon, <1>3
  <2>2. l.type = "BOOLEAN" /\ l.v = b /\ ~IsInt(l)
    BY Zenon, <2>1, BooleanNullIs
  <2>3. r.type = "BOOLEAN" /\ ~IsInt(r)
    BY Zenon, <2>2 DEF OneKind, Numeric, IsInt, IntTypes
  <2>4. ValueCompare(op, l, r) = CompareCast(op, l, r)
    BY Zenon, <2>2 DEF ValueCompare, CompareBoolean
  <2>5. ValueCastAs(r, "BOOLEAN") = r /\ ~IsException(r)
    BY Zenon, <2>3 DEF ValueCastAs, CastBooleanAs, IsException
  <2> QED BY Zenon, <2>2, <2>3, <2>4, <2>5 DEF CompareCast, Key
<1>4. CASE \E s \in Words \cup {NullText} : l = Varchar(s)
  <2>1. PICK s \in Words \cup {NullText} : l = Varchar(s)
    BY Zenon, <1>4
  <2>2. l.type = "VARCHAR" /\ l.v = s /\ ~IsInt(l)
    BY Zenon, <2>1, VarcharNullIs
  <2>3. r.type = "VARCHAR" /\ ~IsInt(r)
    BY Zenon, <2>2 DEF OneKind, Numeric, IsInt, IntTypes
  <2>4. ValueCompare(op, l, r) = CompareCast(op, l, r)
    BY Zenon, <2>2 DEF ValueCompare, CompareVarchar
  <2>5. ValueCastAs(r, "VARCHAR") = r /\ ~IsException(r)
    BY Zenon, <2>3 DEF ValueCastAs, CastVarcharAs, IsException, IntTypes
  <2> QED BY Zenon, <2>2, <2>3, <2>4, <2>5 DEF CompareCast, Key
<1> QED BY Zenon, <1>1, <1>2, <1>3, <1>4, Kinds

(* Without a NULL and a NaN it is the one of two numbers. *)
LEMMA ComparesKeys ==
  ASSUME NEW l \in AllValues, NEW r \in AllValues, ~HasNull(l, r), OneKind(l, r), NaN \notin {l.v, r.v}, NEW op
  PROVE  ValueCompare(op, l, r) = CmpBool(Holds(op, Key(l, r), Key(r, l))) /\ Key(l, r) \in Int
<1>1. ~IsNullValue(l) /\ ~IsNullValue(r)
  BY Zenon, HasNullIs
<1>2. Key(l, r) # NaN /\ Key(r, l) # NaN /\ Key(l, r) \in Int
  BY Zenon, <1>1, KeyIs
<1> QED BY Zenon, <1>2, ComparesDoubles DEF HoldsOf

(* Beside a NaN nothing holds but that the two are unequal. *)
LEMMA NaNUnordered ==
  ASSUME NEW l \in AllValues, NEW r \in AllValues, ~HasNull(l, r), OneKind(l, r), NaN \in {l.v, r.v}, NEW op
  PROVE  /\ ValueCompare(op, l, r) = CmpBool(TRUE) <=> op = "CompareNotEquals"
         /\ Holding(l, r) = {} /\ l.type # "BOOLEAN"
         /\ op \in {"Min", "Max"} => ValueExtremum(op, l, r) = r
<1>1. ~IsNullValue(l) /\ ~IsNullValue(r)
  BY Zenon, HasNullIs
<1>2. NaN \in {Key(l, r), Key(r, l)}
  BY Zenon, <1>1, KeyIs
<1>3. ASSUME NEW o
      PROVE  ValueCompare(o, l, r) = CmpBool(o = "CompareNotEquals")
  BY Zenon, <1>2, ComparesDoubles DEF HoldsOf
<1>4. "CompareNotEquals" \notin DOMAIN Orders
  BY Zenon DEF Orders
<1>5. \A o : o # "CompareNotEquals" => ValueCompare(o, l, r) # CmpBool(TRUE) /\ ~IsException(ValueCompare(o, l, r))
  BY Zenon, <1>3, CmpIs
<1>6. Holding(l, r) = {}
  BY Zenon, <1>4, <1>5 DEF Holding
<1>7. l.type # "BOOLEAN"
  <2>1. l.type = "DECIMAL" \/ r.type = "DECIMAL"
    BY Zenon, <1>1, KeyIs
  <2> QED BY Zenon, <2>1 DEF OneKind, Numeric, IntTypes
<1>9. ValueCompare(op, l, r) = CmpBool(TRUE) <=> op = "CompareNotEquals"
  <2>1. (op = "CompareNotEquals") \in BOOLEAN
    BY Zenon
  <2> QED BY Zenon, <1>3, <2>1, CmpIs
<1>8. ASSUME op \in {"Min", "Max"}
      PROVE  ValueExtremum(op, l, r) = r
  <2>1. Decides(op, l.type) # "CompareNotEquals"
    <3>1. l.type \in AllTypes \ {"BOOLEAN"}
      BY <1>7, Kinds, IntegerNull, DecimalNullIs, VarcharNullIs, BooleanNullIs DEF AllTypes
    <3>2. CASE l.type \in IntTypes
      BY <1>8, <3>2 DEF Decides, Keeps, IntTypes
    <3>3. CASE l.type = "DECIMAL"
      BY Zenon, <3>3 DEF Decides, IntTypes
    <3>4. CASE l.type = "VARCHAR"
      BY Zenon, <3>4 DEF Decides, IntTypes
    <3> QED BY Zenon, <3>1, <3>2, <3>3, <3>4 DEF AllTypes
  <2> QED BY Zenon, <1>5, <1>7, <2>1 DEF ValueExtremum
<1> QED BY Zenon, <1>6, <1>7, <1>8, <1>9

(* The comparisons of numbers. *)
LEMMA HoldsIs ==
  ASSUME NEW x \in Int, NEW y \in Int
  PROVE  /\ (Holds("CompareEquals", x, y) <=> x = y)
         /\ (Holds("CompareLessThan", x, y) <=> x < y)
         /\ (Holds("CompareLessThanEquals", x, y) <=> x <= y)
         /\ (Holds("CompareGreaterThan", x, y) <=> x > y)
         /\ (Holds("CompareGreaterThanEquals", x, y) <=> x >= y)
BY Zenon DEF Holds

(* Of two numbers one comparison holds. *)
Which(x, y) == IF x = y THEN "CompareEquals" ELSE IF x < y THEN "CompareLessThan" ELSE "CompareGreaterThan"

(* Exactly one comparison holds: the one of the keys. *)
LEMMA HoldingWhich ==
  ASSUME NEW l \in AllValues, NEW r \in AllValues, ~HasNull(l, r), OneKind(l, r), NaN \notin {l.v, r.v}
  PROVE  Holding(l, r) = {Which(Key(l, r), Key(r, l))} /\ Key(l, r) \in Int /\ Key(r, l) \in Int
<1> DEFINE x == Key(l, r)
           y == Key(r, l)
<1>1. ~HasNull(r, l) /\ OneKind(r, l)
  BY Zenon, HasNullIs DEF OneKind
<1>2. x \in Int /\ y \in Int /\ \A op : ValueCompare(op, l, r) = CmpBool(Holds(op, x, y))
  BY Zenon, <1>1, ComparesKeys
<1> HIDE DEF x, y
<1>3. DOMAIN Orders = {"CompareEquals", "CompareLessThan", "CompareGreaterThan"}
  BY Zenon DEF Orders
<1>4. ASSUME NEW op \in DOMAIN Orders
      PROVE  ValueCompare(op, l, r) = CmpBool(TRUE) <=> op = Which(x, y)
  <2>1. Holds(op, x, y) \in BOOLEAN /\ (Holds(op, x, y) <=> op = Which(x, y))
    <3>1. CASE op = "CompareEquals"
      BY Zenon, <1>2, <3>1 DEF Holds, Which
    <3>2. CASE op = "CompareLessThan"
      BY <1>2, <3>2 DEF Holds, Which
    <3>3. CASE op = "CompareGreaterThan"
      BY <1>2, <3>3 DEF Holds, Which
    <3> QED BY Zenon, <1>3, <3>1, <3>2, <3>3
  <2> QED BY Zenon, <1>2, <2>1, CmpIs
<1>5. Which(x, y) \in DOMAIN Orders
  BY Zenon, <1>3 DEF Which
<1>6. Holding(l, r) = {Which(x, y)}
  BY Zenon, <1>4, <1>5 DEF Holding
<1> QED BY Zenon, <1>2, <1>6 DEF x, y

(* The order of two Values is turned round with them, and is the one of the  *)
(* numbers if the integers are doubles.                                      *)
LEMMA OrderOfTwo ==
  ASSUME NEW l \in AllValues, NEW r \in AllValues, ~HasNull(l, r), OneKind(l, r), NaN \notin {l.v, r.v}
  PROVE  \E op \in DOMAIN Orders :
           /\ Holding(l, r) = {op} /\ Holding(r, l) = {Orders[op]}
           /\ (\A val \in {l, r} : IsInt(val) => DoubleOf(val.v) = 4 * val.v) => Holds(op, Exactly(l), Exactly(r))
<1> DEFINE x == Key(l, r)
           y == Key(r, l)
           op == Which(x, y)
<1>1. ~HasNull(r, l) /\ OneKind(r, l)
  BY Zenon, HasNullIs DEF OneKind
<1>2. Holding(l, r) = {Which(x, y)} /\ Holding(r, l) = {Which(y, x)} /\ x \in Int /\ y \in Int
  BY Zenon, <1>1, HoldingWhich
<1>3. ASSUME \A val \in {l, r} : IsInt(val) => DoubleOf(val.v) = 4 * val.v
      PROVE  (x = Exactly(l) /\ y = Exactly(r)) \/ (4 * x = Exactly(l) /\ 4 * y = Exactly(r))
  <2>1. CASE IsInt(l) /\ IsInt(r)
    <3>1. r.type # "DECIMAL" /\ l.type # "DECIMAL"
      BY Zenon, <2>1 DEF IsInt, IntTypes
    <3> QED BY Zenon, <2>1, <3>1 DEF Key, Exactly
  <2>2. CASE IsInt(l) /\ ~IsInt(r)
    <3>1. r.type = "DECIMAL"
      BY Zenon, <2>2 DEF OneKind, Numeric, IsInt
    <3> QED BY Zenon, <1>3, <2>2, <3>1 DEF Key, Exactly
  <2>3. CASE ~IsInt(l) /\ IsInt(r)
    <3>1. l.type = "DECIMAL"
      BY Zenon, <2>3 DEF OneKind, Numeric, IsInt
    <3> QED BY Zenon, <1>3, <2>3, <3>1 DEF Key, Exactly
  <2>4. CASE ~IsInt(l) /\ ~IsInt(r)
    BY Zenon, <2>4 DEF Key, Exactly
  <2> QED BY Zenon, <2>1, <2>2, <2>3, <2>4
<1> HIDE DEF x, y
<1>4. op \in DOMAIN Orders /\ Orders[op] = Which(y, x)
  BY <1>2 DEF Which, Orders
<1>5. \A m \in Int, n \in Int : (m = x /\ n = y) \/ (m = 4 * x /\ n = 4 * y) => Holds(op, m, n)
  <2>1. CASE x = y
    BY Zenon, <1>2, <2>1 DEF Holds, Which
  <2>2. CASE x < y
    <3>1. op = "CompareLessThan"
      BY <1>2, <2>2 DEF Which
    <3> HIDE DEF op
    <3> QED BY <1>2, <2>2, <3>1, HoldsIs
  <2>3. CASE x > y
    <3>1. op = "CompareGreaterThan"
      BY <1>2, <2>3 DEF Which
    <3> HIDE DEF op
    <3> QED BY <1>2, <2>3, <3>1, HoldsIs
  <2> QED BY <1>2, <2>1, <2>2, <2>3
<1>6. ASSUME \A val \in {l, r} : IsInt(val) => DoubleOf(val.v) = 4 * val.v
      PROVE  Holds(op, Exactly(l), Exactly(r))
  <2>1. Exactly(l) \in Int /\ Exactly(r) \in Int
    BY <1>2, <1>3, <1>6
  <2> QED BY Zenon, <1>3, <1>5, <1>6, <2>1
<1> QED BY Zenon, <1>2, <1>4, <1>6

(* Min and Max answer with an operand that the order puts first or last. *)
LEMMA ExtremumOfTwo ==
  ASSUME NEW l \in AllValues, NEW r \in AllValues, ~HasNull(l, r), OneKind(l, r), NaN \notin {l.v, r.v}, l.type # "BOOLEAN",
         NEW op \in {"Min", "Max"}
  PROVE  LET out == ValueExtremum(op, l, r)
         IN  /\ out \in {l, r}
             /\ \A val \in {l, r} : Holding(out, val) \subseteq
                  {"CompareEquals", IF op = "Min" THEN "CompareLessThan" ELSE "CompareGreaterThan"}
<1> DEFINE x == Key(l, r)
           y == Key(r, l)
           by == Decides(op, l.type)
           out == ValueExtremum(op, l, r)
<1>1. ~HasNull(r, l) /\ OneKind(r, l) /\ ~HasNull(l, l) /\ ~HasNull(r, r) /\ OneKind(l, l) /\ OneKind(r, r)
  BY Zenon, HasNullIs DEF OneKind
<1>2. /\ Holding(l, r) = {Which(x, y)} /\ Holding(r, l) = {Which(y, x)} /\ x \in Int /\ y \in Int
      /\ Holding(l, l) = {"CompareEquals"} /\ Holding(r, r) = {"CompareEquals"}
  BY Zenon, <1>1, HoldingWhich DEF Which
<1>3. ValueCompare(by, l, r) = CmpBool(Holds(by, x, y))
  BY Zenon, ComparesKeys
<1> HIDE DEF x, y
<1>4. l.type \in AllTypes \ {"BOOLEAN"}
  BY Kinds, IntegerNull, DecimalNullIs, VarcharNullIs, BooleanNullIs DEF AllTypes
<1>5. by \in IF op = "Min" THEN {"CompareLessThan", "CompareLessThanEquals"}
            ELSE {"CompareGreaterThan", "CompareGreaterThanEquals"}
  <2>1. CASE l.type \in IntTypes
    BY <2>1 DEF Decides, Keeps, IntTypes
  <2>2. CASE l.type = "DECIMAL"
    BY Zenon, <2>2 DEF Decides, IntTypes
  <2>3. CASE l.type = "VARCHAR"
    BY Zenon, <2>3 DEF Decides, IntTypes
  <2> QED BY Zenon, <1>4, <2>1, <2>2, <2>3 DEF AllTypes
<1> HIDE DEF by
<1>6. /\ op = "Min" => (Holds(by, x, y) => x <= y) /\ (~Holds(by, x, y) => y <= x)
      /\ op = "Max" => (Holds(by, x, y) => y <= x) /\ (~Holds(by, x, y) => x <= y)
  <2>1. CASE by = "CompareLessThan"
    BY <1>2, <1>5, <2>1, HoldsIs
  <2>2. CASE by = "CompareLessThanEquals"
    BY <1>2, <1>5, <2>2, HoldsIs
  <2>3. CASE by = "CompareGreaterThan"
    BY <1>2, <1>5, <2>3, HoldsIs
  <2>4. CASE by = "CompareGreaterThanEquals"
    BY <1>2, <1>5, <2>4, HoldsIs
  <2> QED BY Zenon, <1>5, <2>1, <2>2, <2>3, <2>4
<1>7. out = IF Holds(by, x, y) THEN l ELSE r
  <2>1. out = LET c == ValueCompare(by, l, r) IN IF IsException(c) THEN c ELSE IF c = CmpBool(TRUE) THEN l ELSE r
    BY Zenon DEF ValueExtremum, by
  <2>2. CASE Holds(by, x, y)
    <3>1. ValueCompare(by, l, r) = CmpBool(TRUE)
      BY Zenon, <1>3, <2>2 DEF CmpBool
    <3> QED BY Zenon, <2>1, <2>2, <3>1, CmpIs
  <2>3. CASE ~Holds(by, x, y)
    <3>1. ValueCompare(by, l, r) = CmpBool(FALSE)
      BY Zenon, <1>3, <2>3 DEF CmpBool
    <3> QED BY Zenon, <2>1, <2>3, <3>1, CmpIs
  <2> QED BY Zenon, <2>2, <2>3
<1> HIDE DEF out
<1>8. CASE op = "Min"
  <2>1. Holds(by, x, y) => x <= y
    BY Zenon, <1>6, <1>8
  <2>2. ~Holds(by, x, y) => y <= x
    BY Zenon, <1>6, <1>8
  <2>3. CASE Holds(by, x, y)
    <3>1. Which(x, y) \in {"CompareEquals", "CompareLessThan"}
      BY <1>2, <2>1, <2>3 DEF Which
    <3> QED BY Zenon, <1>2, <1>7, <1>8, <2>3, <3>1 DEF out
  <2>4. CASE ~Holds(by, x, y)
    <3>1. Which(y, x) \in {"CompareEquals", "CompareLessThan"}
      BY <1>2, <2>2, <2>4 DEF Which
    <3> QED BY Zenon, <1>2, <1>7, <1>8, <2>4, <3>1 DEF out
  <2> QED BY Zenon, <2>3, <2>4
<1>9. CASE op = "Max"
  <2>1. Holds(by, x, y) => y <= x
    BY Zenon, <1>6, <1>9
  <2>2. ~Holds(by, x, y) => x <= y
    BY Zenon, <1>6, <1>9
  <2>3. CASE Holds(by, x, y)
    <3>1. Which(x, y) \in {"CompareEquals", "CompareGreaterThan"}
      BY <1>2, <2>1, <2>3 DEF Which
    <3> QED BY Zenon, <1>2, <1>7, <1>9, <2>3, <3>1 DEF out
  <2>4. CASE ~Holds(by, x, y)
    <3>1. Which(y, x) \in {"CompareEquals", "CompareGreaterThan"}
      BY <1>2, <2>2, <2>4 DEF Which
    <3> QED BY Zenon, <1>2, <1>7, <1>9, <2>4, <3>1 DEF out
  <2> QED BY Zenon, <2>3, <2>4
<1> QED BY Zenon, <1>8, <1>9

(* The fields of a call. *)
LEMMA CallIs ==
  ASSUME NEW op, NEW l, NEW r, NEW out, CallValue(op, l, r, out)
  PROVE  last'.op = op /\ last'.left = l /\ last'.right = r /\ last'.out = out
BY Zenon DEF CallValue

(* The calls. *)
LEMMA Steps ==
  ASSUME ValueNext
  PROVE  \/ last'.op = "none"
         \/ \E l \in AllValues, r \in AllValues :
              \/ \E op \in Compares : CallValue(op, l, r, ValueCompare(op, l, r))
              \/ \E op \in {"Min", "Max"} : CallValue(op, l, r, ValueExtremum(op, l, r))
         \/ \E val \in AllValues, t \in AllTypes :
              \/ \E out \in CastOutcomes(val, t) : CallValue("CastAs", val, GetNullValueByType(t), out)
              \/ \E out \in FactoryCastAs(val, t) : CallValue("ValueFactory", val, GetNullValueByType(t), out)
<1>1. NoCall.op = "none"
  BY Zenon DEF NoCall
<1> QED BY Zenon, <1>1 DEF ValueNext, CompareValues, ExtremumOfValues, CastValue, MakeValue, ReturnValue

(* ValueFactory agrees with CastAs on every Value but for the NULLs it       *)
(* keeps, 2^63, and a NaN made an integer, which is undefined both ways:     *)
(* FactoryAgrees, for every width of the types.                              *)
THEOREM FactoryCorrect == ValueSpec => []FactoryAgrees
<1>1. ASSUME last.op # "ValueFactory"
      PROVE  FactoryAgrees
  BY Zenon, <1>1 DEF FactoryAgrees
<1>2. ValueInit => FactoryAgrees
  BY <1>1 DEF ValueInit, NoCall
<1>3. ASSUME ValueNext
      PROVE  FactoryAgrees'
  <2>1. CASE last'.op # "ValueFactory"
    BY Zenon, <2>1 DEF FactoryAgrees
  <2>2. CASE \E val \in AllValues, t \in AllTypes : \E out \in FactoryCastAs(val, t) :
               CallValue("ValueFactory", val, GetNullValueByType(t), out)
    <3>0. PICK val \in AllValues, t \in AllTypes : \E out \in FactoryCastAs(val, t) :
                 CallValue("ValueFactory", val, GetNullValueByType(t), out)
      BY Zenon, <2>2
    <3>1. PICK out \in FactoryCastAs(val, t) : CallValue("ValueFactory", val, GetNullValueByType(t), out)
      BY Zenon, <3>0
    <3>2. last'.left = val /\ last'.right = GetNullValueByType(t) /\ last'.out = out /\ last'.right.type = t
      BY Zenon, <3>1, CallIs, NullTyped
    <3> DEFINE c == ValueCastAs(val, t)
    <3>3. ASSUME ~UndefinedCast(val, t)
          PROVE  \/ c = out \/ (IsException(c) /\ IsException(out))
                 \/ IsNullValue(val) /\ IsException(c) /\ out = GetNullValueByType(t)
                 \/ t = "BIGINT" /\ TwoToThe63(val)
      <4>1. CASE \E u \in IntTypes, n \in Wholes : Fits(u, n) /\ val = Value(u, n)
        BY <4>1, FactoryInteger, IntegerNull, DecimalAssumption
      <4>2. CASE \E b \in {0, 1, BooleanNull} : val = Boolean(b)
        BY Zenon, <4>2, FactoryBoolean
      <4>3. CASE \E d \in Decimals \cup {DecimalNull} : val = Decimal(d)
        BY Zenon, <4>3, FactoryDecimal, DecimalNullIs
      <4>4. CASE \E s \in Words \cup {NullText} : val = Varchar(s)
        BY Zenon, <4>4, FactoryVarchar, VarcharNullIs
      <4>5. CASE val = Decimal(NaN)
        BY Zenon, <3>1, <3>3, <4>5, FactoryNaN
      <4> QED BY Zenon, <4>1, <4>2, <4>3, <4>4, <4>5, Kinds
    <3> QED BY Zenon, <3>2, <3>3 DEF FactoryAgrees
  <2>3. "ValueFactory" \notin Compares \cup {"Min", "Max", "CastAs"}
    BY Zenon DEF Compares
  <2> QED BY <1>3, <2>1, <2>2, <2>3, Steps, CallIs
<1>4. FactoryAgrees /\ UNCHANGED last => FactoryAgrees'
  BY Zenon DEF FactoryAgrees
<1> QED BY <1>2, <1>3, <1>4, PTL DEF ValueSpec

(* A DECIMAL becomes its whole part or is refused, by either cast, save that *)
(* as a BIGINT -2^63 is the NULL and, by ValueFactory, 2^63 the NULL or the  *)
(* largest number, and that nothing is said of a NaN; an integer or a        *)
(* BOOLEAN cast to text reads back as itself: CastsKeepValue, for every      *)
(* width of the types and every rounding of RoundingAssumption.              *)
THEOREM ValueCastsCorrect == ValueSpec => []CastsKeepValue
<1>1. ValueInit => CastsKeepValue
  <2>1. NoCall.op = "none"
    BY Zenon DEF NoCall
  <2> QED BY Zenon, <2>1 DEF ValueInit, CastsKeepValue
<1>2. ASSUME ValueNext
      PROVE  CastsKeepValue'
  <2>1. CASE last'.op \notin {"CastAs", "ValueFactory"}
    BY Zenon, <2>1 DEF CastsKeepValue
  <2>2. ASSUME NEW val \in AllValues, NEW t \in AllTypes, NEW op \in {"CastAs", "ValueFactory"}, NEW out,
               CallValue(op, val, GetNullValueByType(t), out),
               IF op = "CastAs" THEN out \in CastOutcomes(val, t) ELSE out \in FactoryCastAs(val, t)
        PROVE  CastsKeepValue'
    <3>1. /\ last'.op = op /\ last'.left = val /\ last'.out = out
          /\ last'.right = GetNullValueByType(t) /\ last'.right.type = t
      BY Zenon, <2>2, CallIs, NullTyped
    <3>2. ASSUME val.type = "DECIMAL", ~IsNullValue(val), IsInt(out), ~UndefinedCast(val, t)
          PROVE  IF out.type = "BIGINT" /\ TwoToThe63(val)
                 THEN IsNull(out) \/ (op = "ValueFactory" /\ val.v > 0 /\ out.v = Max("BIGINT"))
                 ELSE out.v = Quot(val.v, 4) /\ ~IsNull(out)
      <4>1. PICK d \in Decimals \cup {DecimalNull, NaN} : val = Decimal(d)
        BY <3>2, Kinds, IntegerNull, BooleanNullIs, VarcharNullIs DEF IntTypes
      <4>2. IF op = "CastAs" THEN out = ValueCastAs(val, t) ELSE out \in FactoryCastAs(val, t)
        BY Zenon, <2>2, <3>2 DEF CastOutcomes
      <4>3. CASE d = NaN
        <5>1. t \notin IntTypes
          BY Zenon, <3>2, <4>1, <4>3 DEF UndefinedCast
        <5>2. ~IsInt(ValueCastAs(val, t))
          <6>1. ~IsInt(val) /\ val.type = "DECIMAL" /\ ValueCastAs(val, t) = CastDecimalAs(val, t)
            BY Zenon, <4>1, DecimalNullIs DEF ValueCastAs
          <6>2. CastDecimalAs(val, t) \in {val, Varchar(NullText), Varchar(ToString(val)), Throw("not coercable")}
            BY Zenon, <5>1 DEF CastDecimalAs, AllTypes
          <6>3. ~IsInt(Throw("not coercable")) /\ \A x : ~IsInt(Varchar(x))
            BY Zenon DEF IsInt, IntTypes, Varchar, Value, Throw
          <6> QED BY Zenon, <6>1, <6>2, <6>3
        <5>3. out = ValueCastAs(val, t)
          BY Zenon, <3>2, <4>1, <4>2, <4>3, FactoryNaN
        <5> QED BY Zenon, <3>2, <5>2, <5>3
      <4>4. CASE d # NaN
        <5>1. d \in Decimals /\ val.v = d
          BY Zenon, <3>2, <4>1, <4>4, DecimalNullIs
        <5> QED BY Zenon, <2>2, <3>2, <4>1, <4>2, <5>1, DecimalToInteger
      <4> QED BY Zenon, <4>3, <4>4
    <3>4. op = "CastAs" /\ t = "VARCHAR" => out = ValueCastAs(val, t)
      <4>1. ~UndefinedCast(val, "VARCHAR")
        BY Zenon DEF UndefinedCast, IntTypes
      <4> QED BY Zenon, <2>2, <4>1 DEF CastOutcomes
    <3>3. ASSUME op = "CastAs", t = "VARCHAR", IsInt(val) \/ val.type = "BOOLEAN"
          PROVE  LET back == ValueCastAs(out, val.type)
                 IN  IF IsNullValue(val) THEN IsException(back) ELSE back = val
      <4>1. CASE IsInt(val)
        <5>1. PICK u \in IntTypes, n \in Wholes : Fits(u, n) /\ val = Value(u, n)
          BY <4>1, Kinds, BooleanNullIs, DecimalNullIs, VarcharNullIs
        <5>2. val.type = u /\ (IsNullValue(val) <=> n = Null(u))
          BY Zenon, <5>1, IntegerNull
        <5> QED BY Zenon, <3>3, <3>4, <5>1, <5>2, IntegerTextBack
      <4>2. CASE val.type = "BOOLEAN"
        <5>1. PICK b \in {0, 1, BooleanNull} : val = Boolean(b)
          BY <4>2, Kinds, IntegerNull, DecimalNullIs, VarcharNullIs DEF IntTypes
        <5>2. IsNullValue(val) <=> b = BooleanNull
          BY Zenon, <5>1, BooleanNullIs
        <5> QED BY Zenon, <3>3, <3>4, <4>2, <5>1, <5>2, BooleanTextBack
      <4> QED BY Zenon, <3>3, <4>1, <4>2
    <3> QED BY Zenon, <3>1, <3>2, <3>3 DEF CastsKeepValue
  <2>3. (Compares \cup {"Min", "Max", "none"}) \cap {"CastAs", "ValueFactory"} = {}
    BY Zenon DEF Compares
  <2> QED BY Zenon, <1>2, <2>1, <2>2, <2>3, Steps, CallIs
<1>3. CastsKeepValue /\ UNCHANGED last => CastsKeepValue'
  BY Zenon DEF CastsKeepValue
<1> QED BY <1>1, <1>2, <1>3, PTL DEF ValueSpec

(* Comparisons of a DECIMAL with integers of any width, and of two Values of *)
(* one type, are one order that Min and Max follow, in which neither NULL    *)
(* nor NaN has a place: OrderAcrossTypes.                                    *)
THEOREM ValueOrderCorrect == ValueSpec => []OrderAcrossTypes
<1>1. ValueInit => OrderAcrossTypes
  <2>1. NoCall.op = "none" /\ "none" \notin Compares \cup {"Min", "Max"}
    BY Zenon DEF NoCall, Compares
  <2> QED BY Zenon, <2>1 DEF ValueInit, OrderAcrossTypes
<1>2. ASSUME ValueNext
      PROVE  OrderAcrossTypes'
  <2>1. CASE last'.op \notin Compares \cup {"Min", "Max"}
    BY Zenon, <2>1 DEF OrderAcrossTypes
  <2>2. ASSUME NEW l \in AllValues, NEW r \in AllValues, NEW op \in Compares \cup {"Min", "Max"}, NEW out,
               CallValue(op, l, r, out),
               IF op \in Compares THEN out = ValueCompare(op, l, r) ELSE out = ValueExtremum(op, l, r)
        PROVE  OrderAcrossTypes'
    <3>1. last'.op = op /\ last'.left = l /\ last'.right = r /\ last'.out = out
      BY Zenon, <2>2, CallIs
    <3>2. CASE ~OneKind(l, r)
      BY Zenon, <3>1, <3>2 DEF OrderAcrossTypes, OneKind
    <3>3. CASE HasNull(l, r)
      <4>1. \A o : ValueCompare(o, l, r) = CmpNull
        BY Zenon, <3>3 DEF ValueCompare
      <4>2. Holding(l, r) = {}
        BY Zenon, <4>1, CmpIs DEF Holding
      <4>3. op \in Compares => out = CmpNull
        BY Zenon, <2>2, <4>1
      <4> QED BY Zenon, <3>1, <3>3, <4>2, <4>3 DEF OrderAcrossTypes
    <3>4. CASE OneKind(l, r) /\ ~HasNull(l, r) /\ NaN \notin {l.v, r.v}
      <4>1. \E o \in DOMAIN Orders :
              /\ Holding(l, r) = {o} /\ Holding(r, l) = {Orders[o]}
              /\ (\A val \in {l, r} : IsInt(val) => DoubleOf(val.v) = 4 * val.v) => Holds(o, Exactly(l), Exactly(r))
        BY Zenon, <3>4, OrderOfTwo
      <4>2. ASSUME op \in {"Min", "Max"}, l.type # "BOOLEAN"
            PROVE  /\ out \in {l, r}
                   /\ \A val \in {l, r} : Holding(out, val) \subseteq
                        {"CompareEquals", IF op = "Min" THEN "CompareLessThan" ELSE "CompareGreaterThan"}
        <5>1. out = ValueExtremum(op, l, r)
          BY Zenon, <2>2, <4>2 DEF Compares
        <5> QED BY Zenon, <3>4, <4>2, <5>1, ExtremumOfTwo
      <4>3. Ordered(op, l, r, out)
        BY Zenon, <4>1, <4>2 DEF Ordered
      <4> QED BY Zenon, <3>1, <3>4, <4>3 DEF OrderAcrossTypes
    <3>5. CASE OneKind(l, r) /\ ~HasNull(l, r) /\ NaN \in {l.v, r.v}
      <4>1. ~HasNull(r, l) /\ OneKind(r, l) /\ NaN \in {r.v, l.v}
        BY Zenon, <3>5, HasNullIs DEF OneKind
      <4>2. Holding(l, r) = {} /\ Holding(r, l) = {}
        BY Zenon, <3>5, <4>1, NaNUnordered
      <4>3. op = "CompareNotEquals" => out = CmpBool(TRUE)
        <5>1. op = "CompareNotEquals" => out = ValueCompare(op, l, r)
          BY Zenon, <2>2 DEF Compares
        <5> QED BY Zenon, <3>5, <5>1, NaNUnordered
      <4>4. op \in {"Min", "Max"} => out = r
        <5>1. op \in {"Min", "Max"} => out = ValueExtremum(op, l, r)
          BY Zenon, <2>2 DEF Compares
        <5> QED BY Zenon, <3>5, <5>1, NaNUnordered
      <4>5. Unordered(op, l, r, out)
        BY Zenon, <4>2, <4>3, <4>4 DEF Unordered
      <4> QED BY Zenon, <3>1, <3>5, <4>5 DEF OrderAcrossTypes
    <3> QED BY Zenon, <3>2, <3>3, <3>4, <3>5
  <2>3. CASE \E l \in AllValues, r \in AllValues, op \in Compares : CallValue(op, l, r, ValueCompare(op, l, r))
    BY Zenon, <2>2, <2>3
  <2>4. CASE \E l \in AllValues, r \in AllValues, op \in {"Min", "Max"} : CallValue(op, l, r, ValueExtremum(op, l, r))
    <3>1. "Min" \notin Compares /\ "Max" \notin Compares
      BY Zenon DEF Compares
    <3> QED BY Zenon, <2>2, <2>4, <3>1
  <2>5. "CastAs" \notin Compares /\ "ValueFactory" \notin Compares /\ "none" \notin Compares
    BY Zenon DEF Compares
  <2> QED BY <1>2, <2>1, <2>3, <2>4, <2>5, Steps, CallIs
<1>3. OrderAcrossTypes /\ UNCHANGED last => OrderAcrossTypes'
  BY DEF OrderAcrossTypes
<1> QED BY <1>1, <1>2, <1>3, PTL DEF ValueSpec
=============================================================================
