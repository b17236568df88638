---------------------------- MODULE IntegerTypes ----------------------------
(***************************************************************************)
(* SQL integer values (type/value, integer_parent_type and the four types  *)
(* TINYINT, SMALLINT, INTEGER, BIGINT).  A caller keeps a Value and calls  *)
(* its operations with other Values.                                       *)
(*                                                                         *)
(* An integer type of w bits is given by Half[t] = 2^(w-1).  The smallest  *)
(* number of a type stands for NULL, in memory and on disk.  Operands      *)
(* narrower than INTEGER are promoted to INTEGER by C++, so that overflow  *)
(* of the C++ operation itself is possible at the INTEGER and BIGINT width *)
(* only: there it is undefined.  An unoptimised build wraps; an optimised  *)
(* one may drop a test that only overflow can make true.                   *)
(*                                                                         *)
(* A VARCHAR is known by the number its text reads as, if any.             *)
(***************************************************************************)
EXTENDS Integers

CONSTANTS Half,             \* integer type -> half the number of its bit patterns
          Numbers, Texts,   \* the numbers and the texts callers use
          NullText, NoNumber,  \* the NULL of VARCHAR; text that is no number
          Builds            \* the builds considered: TRUE for an optimised one

IntTypes == {"TINYINT", "SMALLINT", "INTEGER", "BIGINT"}

ASSUME HalfAssumption ==
  /\ Half \in [IntTypes -> Nat \ {0, 1}]
  /\ Half["TINYINT"] < Half["SMALLINT"]
  /\ Half["SMALLINT"] * Half["SMALLINT"] < Half["INTEGER"]
  /\ Half["INTEGER"] < Half["BIGINT"]
ASSUME InputAssumption ==
  /\ Numbers \subseteq Int /\ Builds \subseteq BOOLEAN
  /\ Texts \subseteq Int \cup {NullText, NoNumber}

VARIABLES optimised,  \* whether this build is an optimised one; never changes
          acc,        \* the Value the caller keeps
          call        \* the last call: its name, operands and outcome

vars == <<optimised, acc, call>>

-----------------------------------------------------------------------------
Null(t) == -Half[t]
Min(t) == -Half[t] + 1
Max(t) == Half[t] - 1

Value(t, n) == [type |-> t, v |-> n]

Fits(t, n) == n \in -Half[t] .. Half[t] - 1

IsInt(val) == val.type \in IntTypes
IsIntValue(val) == IsInt(val) /\ Fits(val.type, val.v)

IsNull(val) == IF IsInt(val) THEN val.v = Null(val.type) ELSE val.v = NullText

Throw(e) == [type |-> "exception", v |-> e]

(* static_cast to an integer type: the low bits *)
Cast(t, n) == ((n + Half[t]) % (2 * Half[t])) - Half[t]

(* sizeof(x) >= sizeof(y) decides for the left type *)
Wider(t, u) == IF Half[t] >= Half[u] THEN t ELSE u

(* The type C++ computes in *)
Promoted(t, u) == Wider(Wider(t, u), "INTEGER")

(* C++ division rounds towards zero *)
Abs(n) == IF n < 0 THEN -n ELSE n
Quot(x, y) == IF (x < 0) = (y < 0) THEN Abs(x) \div Abs(y) ELSE -(Abs(x) \div Abs(y))
Rem(x, y) == x - y * Quot(x, y)

(* Mutant: NULL is not looked for *)
CastIntNoNull(val, t) ==
  IF val.v \in Null(t) .. Max(t) THEN Value(t, val.v) ELSE Throw("OUT_OF_RANGE")

(* CastAs of an integer value, and of a VARCHAR through stoi or stoll, which *)
(* throw on what is no number (the text of the NULL included) or too large;  *)
(* the number is then cut to a TINYINT or SMALLINT before it is tested.      *)
CastInt(val, t) ==
  IF IsNull(val) THEN Value(t, Null(t))
  ELSE IF val.v \in Min(t) .. Max(t) THEN Value(t, val.v) ELSE Throw("OUT_OF_RANGE")

CastText(val, t) ==
  IF val.v \in {NullText, NoNumber} THEN Throw("invalid_argument")
  ELSE IF ~Fits(Wider(t, "INTEGER"), val.v) \/ Cast(t, val.v) = Null(t) THEN Throw("OUT_OF_RANGE")
  ELSE Value(t, Cast(t, val.v))

CastAs(val, t) == IF IsInt(val) THEN CastInt(val, t) ELSE CastText(val, t)

-----------------------------------------------------------------------------
(* The end of AddValue, SubtractValue and MultiplyValue: raw is what the    *)
(* C++ operation gave, lost(n) the test on the result of the wider type.    *)
Narrow(t, u, raw, lost(_)) ==
  LET n == Cast(Wider(t, u), raw)
  IN IF (raw # Cast(t, raw) /\ raw # Cast(u, raw)) \/ lost(n)
     THEN Throw("OUT_OF_RANGE") ELSE Value(Wider(t, u), n)

(* The outcomes of one of them whose exact result is n *)
Outcomes(t, u, n, lost(_)) ==
  LET raw == Cast(Promoted(t, u), n)
      never(m) == FALSE
  IN {Narrow(t, u, raw, lost)}
     \cup (IF optimised /\ raw # n THEN {Narrow(t, u, raw, never)} ELSE {})

(* Mutant: overflow to the negative side is not looked for *)
AddValueUpOnly(t, u, x, y) ==
  LET lost(n) == x > 0 /\ y > 0 /\ n < 0
  IN Outcomes(t, u, x + y, lost)

AddValue(t, u, x, y) ==
  LET lost(n) == (x > 0 /\ y > 0 /\ n < 0) \/ (x < 0 /\ y < 0 /\ n > 0)
  IN Outcomes(t, u, x + y, lost)

SubtractValue(t, u, x, y) ==
  LET lost(n) == (x > 0 /\ y < 0 /\ n < 0) \/ (x < 0 /\ y > 0 /\ n > 0)
  IN Outcomes(t, u, x - y, lost)

(* Mutant: the signs are compared as in AddValue *)
MultiplyValueSigns(t, u, x, y) ==
  LET lost(n) == (x > 0 /\ y > 0 /\ n < 0) \/ (x < 0 /\ y < 0 /\ n < 0)
  IN Outcomes(t, u, x * y, lost)

MultiplyValue(t, u, x, y) ==
  LET lost(n) == y # 0 /\ Quot(n, y) # x
  IN Outcomes(t, u, x * y, lost)

(* Divide and Modulo have turned y = 0 away, which these two test again *)
DivideValue(t, u, x, y) == {Value(Wider(t, u), Cast(Wider(t, u), Quot(x, y)))}
ModuloValue(t, u, x, y) == {Value(Wider(t, u), Cast(Wider(t, u), Rem(x, y)))}

Sums == {"Add", "Subtract"}
Products == {"Multiply", "Divide", "Modulo"}

Method(op, t, u, x, y) ==
  CASE op = "Add" -> AddValue(t, u, x, y)
    [] op = "Subtract" -> SubtractValue(t, u, x, y)
    [] op = "Multiply" -> MultiplyValue(t, u, x, y)
    [] op = "Divide" -> DivideValue(t, u, x, y)
    [] op = "Modulo" -> ModuloValue(t, u, x, y)

OperateNull(left, right) ==
  IF IsInt(right) THEN LET t == Wider(left.type, right.type) IN Value(t, Null(t))
  ELSE Throw("type error")

(* MODIFY_FUNC of the left type: a VARCHAR is first cast to that type.  IsZero *)
(* is not implemented for VARCHAR.                                             *)
Arithmetic(op, left, right) ==
  LET r == IF IsInt(right) THEN right ELSE CastAs(right, left.type)
  IN IF IsNull(left) \/ IsNull(right) THEN {OperateNull(left, right)}
     ELSE IF op \in {"Divide", "Modulo"} /\ ~IsInt(right) THEN {Throw("not implemented")}
     ELSE IF op \in {"Divide", "Modulo"} /\ right.v = 0 THEN {Throw("DIVIDE_BY_ZERO")}
     ELSE IF ~IsInt(r) THEN {r}
     ELSE Method(op, left.type, r.type, left.v, r.v)

Compares == {"CompareEquals", "CompareNotEquals", "CompareLessThan", "CompareLessThanEquals",
             "CompareGreaterThan", "CompareGreaterThanEquals"}

CmpBool(b) == [type |-> "CmpBool", v |-> IF b THEN "CmpTrue" ELSE "CmpFalse"]
CmpNull == [type |-> "CmpBool", v |-> "CmpNull"]

Holds(op, x, y) ==
  CASE op = "CompareEquals" -> x = y
    [] op = "CompareNotEquals" -> x # y
    [] op = "CompareLessThan" -> x < y
    [] op = "CompareLessThanEquals" -> x <= y
    [] op = "CompareGreaterThan" -> x > y
    [] op = "CompareGreaterThanEquals" -> x >= y

Compare(op, left, right) ==
  LET r == IF IsInt(right) THEN right ELSE CastAs(right, left.type)
  IN IF IsNull(left) \/ IsNull(right) THEN CmpNull
     ELSE IF ~IsInt(r) THEN r ELSE CmpBool(Holds(op, left.v, r.v))

(* Mutant: Max decides as Min does *)
KeepsLess == [Min |-> "CompareLessThan", Max |-> "CompareLessThanEquals"]

(* IntegerParentType::Min and Max: the comparison that decides for left *)
Keeps == [Min |-> "CompareLessThan", Max |-> "CompareGreaterThanEquals"]

Extremum(op, left, right) ==
  LET c == Compare(Keeps[op], left, right)
  IN IF IsNull(left) \/ IsNull(right) THEN OperateNull(left, right)
     ELSE IF c.type = "exception" THEN c
     ELSE IF c = CmpBool(TRUE) THEN left ELSE right

(* Mutant: the operands are not tested for NULL *)
PerformComputationNoNull(op, left, right) ==
  Value("INTEGER", Cast("INTEGER", IF op = "Plus" THEN left.v + right.v ELSE left.v - right.v))

(* ArithmeticExpression on two INTEGER values: the sum is not tested *)
PerformComputation(op, left, right) ==
  LET n == IF op = "Plus" THEN left.v + right.v ELSE left.v - right.v
  IN Value("INTEGER", IF IsNull(left) \/ IsNull(right) THEN Null("INTEGER") ELSE Cast("INTEGER", n))

-----------------------------------------------------------------------------
Zero == Value("INTEGER", 0)
NoCall == [op |-> "none", left |-> Zero, right |-> Zero, out |-> Zero]

Init ==
  /\ optimised \in Builds
  /\ acc = Zero
  /\ call = NoCall

Operands ==
  (UNION {{Value(t, n) : n \in {m \in Numbers : Fits(t, m)}} : t \in IntTypes})
    \cup {Value("VARCHAR", x) : x \in Texts}

Call(op, left, right, out) ==
  /\ call' = [op |-> op, left |-> left, right |-> right, out |-> out]
  /\ UNCHANGED <<optimised, acc>>

Compute(op, right) == \E out \in Arithmetic(op, acc, right) : Call(op, acc, right, out)

CompareWith(op, right) == Call(op, acc, right, Compare(op, acc, right))

ExtremumWith(op, right) == Call(op, acc, right, Extremum(op, acc, right))

EvaluateWith(op, right) ==
  /\ acc.type = "INTEGER" /\ right.type = "INTEGER"
  /\ Call(op, acc, right, PerformComputation(op, acc, right))

CastTo(val, t) == Call("CastAs", val, Value(t, 0), CastAs(val, t))

(* The caller goes on with the result if it is an integer Value *)
Assign ==
  /\ call.op # "none"
  /\ call' = NoCall
  /\ acc' = IF IsInt(call.out) THEN call.out ELSE acc
  /\ UNCHANGED optimised

Next ==
  \/ /\ call.op = "none"
     /\ \/ \E right \in Operands :
             \/ \E op \in Sums \cup Products : Compute(op, right)
             \/ \E op \in Compares : CompareWith(op, right)
             \/ \E op \in {"Min", "Max"} : ExtremumWith(op, right)
             \/ \E op \in {"Plus", "Minus"} : EvaluateWith(op, right)
        \/ \E val \in Operands \cup {acc}, t \in IntTypes : CastTo(val, t)
  \/ Assign

Spec == Init /\ [][Next]_vars

-----------------------------------------------------------------------------
(* The Value kept is a bit pattern of its type, whatever was computed. *)
TypeOK == optimised \in BOOLEAN /\ IsIntValue(acc) /\ (IsInt(call.out) => IsIntValue(call.out))

Exact(op, x, y) ==
  CASE op \in {"Add", "Plus"} -> x + y
    [] op \in {"Subtract", "Minus"} -> x - y
    [] op = "Multiply" -> x * y
    [] op = "Divide" -> Quot(x, y)
    [] op = "Modulo" -> Rem(x, y)

(* The outcome of the last call is the exact result in the wider type of its *)
(* operands, OUT_OF_RANGE when that type has no such number, and NULL when   *)
(* an operand is.  One result is neither given nor refused: the number below *)
(* the smallest one of the type passes every test and has the bits of the    *)
(* NULL, so that two operands that are not NULL (TINYINT -127 and -1, -64    *)
(* and 2) have the NULL for a sum or product.                                *)
ExactOutcome ==
  LET t == Wider(call.left.type, call.right.type)
      n == Exact(call.op, call.left.v, call.right.v)
  IN call.out = IF IsNull(call.left) \/ IsNull(call.right) THEN Value(t, Null(t))
                ELSE IF n \in Min(t) .. Max(t) THEN Value(t, n)
                ELSE IF n = Min(t) - 1 THEN Value(t, Null(t))
                ELSE Throw("OUT_OF_RANGE")

(* What C++ leaves undefined: the operation itself overflows *)
Undefined ==
  ~Fits(Promoted(call.left.type, call.right.type), Exact(call.op, call.left.v, call.right.v))

(* Sums and differences of integers of any two types are exact, refused or,  *)
(* for the number just below the type and no other, the NULL (ExactOutcome): *)
(* at every width the sign tests after the wrapped operation catch every     *)
(* other overflow, but only because the smallest bit pattern is NULL and     *)
(* never gets there.  In an optimised build this needs a defined operation.  *)
SumsExact ==
  call.op \in Sums /\ IsInt(call.right) /\ (optimised => ~Undefined) => ExactOutcome

(* The same of products, quotients and remainders: dividing the wrapped      *)
(* product back catches every overflow but the one to the NULL, and no       *)
(* quotient overflows.                                                       *)
ProductsExact ==
  /\ call.op \in Products /\ IsInt(call.right) /\ (call.op # "Multiply" => call.right.v # 0)
  /\ optimised => ~Undefined
  => ExactOutcome

(* SQL's + and - are computed by ArithmeticExpression without a test: they   *)
(* answer what Value::Add and Subtract answer unless these refuse.           *)
ExpressionAgrees ==
  call.op \in {"Plus", "Minus"} =>
    \A out \in Arithmetic(IF call.op = "Plus" THEN "Add" ELSE "Subtract", call.left, call.right) :
       out = call.out \/ out = Throw("OUT_OF_RANGE")

(* A cast that succeeds loses nothing: cast back to its type the result is   *)
(* the Value it came from, and NULL comes from NULL only and stays NULL; a   *)
(* text read as an INTEGER or BIGINT is the number it shows.                 *)
CastsFaithful ==
  call.op = "CastAs" /\ IsInt(call.out) =>
    IF IsInt(call.left)
    THEN CastAs(call.out, call.left.type) = Value(call.left.type, call.left.v) /\ (IsNull(call.out) <=> IsNull(call.left))
    ELSE call.out.type \in {"INTEGER", "BIGINT"} => call.out.v = call.left.v

(* Comparisons across types are one order: of two integers exactly one of    *)
(* <, =, > holds, both ways round, and Min and Max answer with an operand    *)
(* that this order puts first or last; with a NULL there is no order.        *)
OneOrder ==
  IsInt(call.left) /\ IsInt(call.right) =>
    LET l == call.left
        r == call.right
        holding(a, b) == {op \in {"CompareEquals", "CompareLessThan", "CompareGreaterThan"} :
                            Compare(op, a, b) = CmpBool(TRUE)}
        swap == [CompareEquals |-> "CompareEquals", CompareLessThan |-> "CompareGreaterThan",
                 CompareGreaterThan |-> "CompareLessThan"]
    IN IF IsNull(l) \/ IsNull(r) THEN holding(l, r) = {} /\ (call.op \in Compares => call.out = CmpNull)
       ELSE /\ \E op \in DOMAIN swap : holding(l, r) = {op} /\ holding(r, l) = {swap[op]}
            /\ call.op \in {"Min", "Max"} =>
                 /\ call.out \in {l, r}
                 /\ \A a \in {l, r} : a = call.out \/ holding(call.out, a) \subseteq
                       {"CompareEquals", IF call.op = "Min" THEN "CompareLessThan" ELSE "CompareGreaterThan"}
=============================================================================
