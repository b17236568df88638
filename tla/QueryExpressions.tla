-------------------------- MODULE QueryExpressions --------------------------
(***************************************************************************)
(* The expressions of query plans (execution/expressions) over SQL values. *)
(*                                                                         *)
(* A value keeps its type, whether it is NULL, and a number; the number of *)
(* a VARCHAR is its text's place in an enumeration of the texts in use, and *)
(* that of a BOOLEAN is 0 or 1.  A row is a sequence of values.             *)
(*                                                                         *)
(* The result of a C++ call that may throw is a node: the node it returns, *)
(* or a Throw that says what it threw.  An exception is not caught between *)
(* the binder and the client, so that a node one of whose parts is thrown  *)
(* is thrown itself: Built gives the first of them.                        *)
(***************************************************************************)
EXTENDS Integers, Sequences, SequencesExt, TLC

CONSTANT IntHalf    \* half the number of bit patterns of an int32_t

(* The sequence itself; its elements are evaluated once and for all *)
Eager(s) == s \o <<>>

Val(t, n) == [type |-> t, null |-> FALSE, v |-> n]
NullOf(t) == [type |-> t, null |-> TRUE, v |-> 0]
GetIntegerValue(n) == Val("INTEGER", n)
GetBooleanValue(cmp) ==
  CASE cmp = "CmpTrue" -> Val("BOOLEAN", 1)
    [] cmp = "CmpFalse" -> Val("BOOLEAN", 0)
    [] cmp = "CmpNull" -> NullOf("BOOLEAN")

(* What a caller of the engine can tell apart: bustub::Exception is caught *)
(* by the shell, std::logic_error (UNREACHABLE) and a failed assertion end *)
(* the process.                                                            *)
Throw(kind) == [op |-> "Throw", kind |-> kind, type |-> "INVALID", schema |-> <<>>]
Exception == Throw("Exception")
Unreachable == Throw("logic_error")

IsThrow(node) == node.op = "Throw"
Built(parts, node) ==
  LET thrown == SelectSeq(parts, IsThrow) IN IF thrown = <<>> THEN node ELSE thrown[1]

-----------------------------------------------------------------------------
ConstantValueExpression(val) ==
  [op |-> "Constant", x |-> val, type |-> val.type, args |-> <<>>]

(* col_idx counts from 0 *)
ColumnValueExpression(tuple_idx, col_idx, type) ==
  [op |-> "Column", x |-> <<tuple_idx, col_idx>>, type |-> type, args |-> <<>>]

ComparisonExpression(left, right, comp_type) ==
  Built(<<left, right>>,
        [op |-> "Comparison", x |-> comp_type, type |-> "BOOLEAN", args |-> <<left, right>>])

ArithmeticExpression(left, right, compute_type) ==
  Built(<<left, right>>,
        IF left.type # "INTEGER" \/ right.type # "INTEGER" THEN Exception
        ELSE [op |-> "Arithmetic", x |-> compute_type, type |-> "INTEGER",
              args |-> <<left, right>>])

LogicExpression(left, right, logic_type) ==
  Built(<<left, right>>,
        IF left.type # "BOOLEAN" \/ right.type # "BOOLEAN" THEN Exception
        ELSE [op |-> "Logic", x |-> logic_type, type |-> "BOOLEAN", args |-> <<left, right>>])

IsColumn(e) == e.op = "Column"
GetTupleIdx(e) == e.x[1]
GetColIdx(e) == e.x[2]

CloneWithChildren(e, children) == [e EXCEPT !.args = children]

-----------------------------------------------------------------------------
CmpBoolOf(b) == IF b THEN "CmpTrue" ELSE "CmpFalse"

(* Values of one type are compared *)
PerformComparison(comp_type, lhs, rhs) ==
  IF lhs.null \/ rhs.null THEN "CmpNull"
  ELSE CmpBoolOf(CASE comp_type = "Equal" -> lhs.v = rhs.v
                   [] comp_type = "NotEqual" -> lhs.v # rhs.v
                   [] comp_type = "LessThan" -> lhs.v < rhs.v
                   [] comp_type = "LessThanOrEqual" -> lhs.v <= rhs.v
                   [] comp_type = "GreaterThan" -> lhs.v > rhs.v
                   [] comp_type = "GreaterThanOrEqual" -> lhs.v >= rhs.v)

(* The Value of an int32_t that may have wrapped: its smallest is the NULL *)
Int32Value(n) ==
  LET wrapped == ((n + IntHalf) % (2 * IntHalf)) - IntHalf
  IN IF wrapped = -IntHalf THEN NullOf("INTEGER") ELSE GetIntegerValue(wrapped)

PerformArithmetic(compute_type, lhs, rhs) ==
  IF lhs.null \/ rhs.null THEN NullOf("INTEGER")
  ELSE Int32Value(IF compute_type = "Plus" THEN lhs.v + rhs.v ELSE lhs.v - rhs.v)

GetBoolAsCmpBool(val) == IF val.null THEN "CmpNull" ELSE CmpBoolOf(val.v # 0)

PerformLogic(logic_type, lhs, rhs) ==
  LET both == {GetBoolAsCmpBool(lhs), GetBoolAsCmpBool(rhs)}
      weak == IF logic_type = "And" THEN "CmpTrue" ELSE "CmpFalse"
      strong == IF logic_type = "And" THEN "CmpFalse" ELSE "CmpTrue"
  IN IF strong \in both THEN strong ELSE IF both = {weak} THEN weak ELSE "CmpNull"

(* What an operator node makes of the values of its arguments *)
Apply(e, vals) ==
  CASE e.op = "Comparison" -> GetBooleanValue(PerformComparison(e.x, vals[1], vals[2]))
    [] e.op = "Arithmetic" -> PerformArithmetic(e.x, vals[1], vals[2])
    [] e.op = "Logic" -> GetBooleanValue(PerformLogic(e.x, vals[1], vals[2]))

(* Over one row: the tuple index of a column is not looked at *)
RECURSIVE Evaluate(_, _)
Evaluate(e, row) ==
  CASE e.op = "Constant" -> e.x
    [] e.op = "Column" -> row[GetColIdx(e) + 1]
    [] OTHER -> Apply(e, Eager([i \in DOMAIN e.args |-> Evaluate(e.args[i], row)]))

RECURSIVE EvaluateJoin(_, _, _)
EvaluateJoin(e, left, right) ==
  CASE e.op = "Constant" -> e.x
    [] e.op = "Column" -> (IF GetTupleIdx(e) = 0 THEN left ELSE right)[GetColIdx(e) + 1]
    [] OTHER -> Apply(e, Eager([i \in DOMAIN e.args |-> EvaluateJoin(e.args[i], left, right)]))

(* What a filter and a join condition ask of a value *)
IsTrue(val) == ~val.null /\ val.v # 0
=============================================================================
