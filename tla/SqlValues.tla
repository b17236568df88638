----------------------------- MODULE SqlValues ------------------------------
(***************************************************************************)
(* Values of the other SQL types (type/): BOOLEAN, DECIMAL and VARCHAR,    *)
(* beside the integers of IntegerTypes, and the two ways to cast a Value,  *)
(* Value::CastAs and the functions of ValueFactory.                        *)
(*                                                                         *)
(* A DECIMAL is a double.  Here a double is scaled down as the integers    *)
(* are: a number of quarters with a significand of Mantissa bits, so that  *)
(* every INTEGER is a double and not every BIGINT is.  A text is its place *)
(* in TextTable, which lists the texts in byte order with what stoi, stod  *)
(* and the cast to BOOLEAN read from them.  TIMESTAMP has no place in      *)
(* Type::k_types, so that no operation on one is defined.                  *)
(*                                                                         *)
(* One double is no number: the text 'nan' casts to it, since no test of a *)
(* range holds of it.  Infinities are refused by these tests.              *)
(***************************************************************************)
EXTENDS IntegerTypes, Sequences

CONSTANTS TextTable,    \* the texts: what they show, what they read as, their length
          Mantissa,     \* bits of a significand
          DecimalNull,  \* BUSTUB_DECIMAL_NULL: below all other doubles
          DecimalMin,   \* BUSTUB_DECIMAL_MIN: the lowest float, not the lowest double
          NaN,          \* the double that is no number
          Decimals, Wholes, Words  \* the doubles, integers and texts callers use

ASSUME DecimalAssumption ==
  /\ Mantissa \in Nat \ {0} /\ Wholes \subseteq Int
  /\ Decimals \subseteq Int /\ DecimalMin \in Int /\ DecimalNull \in Int
  /\ \A d \in Decimals \cup {DecimalMin} : d > DecimalNull
  /\ NaN \notin Int

VARIABLE last           \* the last call on Values of any type

valueVars == <<vars, last>>

-----------------------------------------------------------------------------
(* Doubles: n / d quarters rounded to the nearest, to even if there are two *)
Nearest(n, d) == LET q == n \div d
                     r == 2 * (n % d)
                 IN IF r < d \/ (r = d /\ q % 2 = 0) THEN q ELSE q + 1
Gap(n, d) == CHOOSE g \in {2^k : k \in 0 .. 16} :
               Abs(n) < 2^Mantissa * g * d /\ (g = 1 \/ Abs(n) >= 2^Mantissa * (g \div 2) * d)
Double(n, d) == Gap(n, d) * Nearest(n, Gap(n, d) * d)

DoubleOf(n) == Double(4 * n, 1)

(* Every number up to the ends of INTEGER is a double; the ends of BIGINT    *)
(* are rounded to the powers of two behind them.                             *)
ASSUME RoundingAssumption ==
  /\ \A n \in Wholes \cup {Max("BIGINT")} : DoubleOf(n) \in Int
  /\ \A t \in IntTypes \ {"BIGINT"} : DoubleOf(Max(t)) = 4 * Max(t) /\ DoubleOf(Min(t)) = 4 * Min(t)
  /\ DoubleOf(Max("BIGINT")) = 4 * Half["BIGINT"] /\ DoubleOf(Min("BIGINT")) = -DoubleOf(Max("BIGINT"))

(* The integers and truth values that callers use have a text, which reads   *)
(* as the same.                                                              *)
ASSUME TextAssumption ==
  /\ TextTable \in Seq([shows : STRING \X (Int \cup {NaN}), whole : Int \cup {NoNumber},
                        quarters : Int \cup {NoNumber, NaN}, truth : {0, 1, NoNumber}, len : Nat])
  /\ Words \subseteq DOMAIN TextTable /\ NullText \notin Int /\ NoNumber \notin Int
  /\ \A n \in Wholes : \E s \in DOMAIN TextTable : TextTable[s].shows = <<"INTEGER", n>>
  /\ \A b \in {0, 1} : \E s \in DOMAIN TextTable : TextTable[s].shows = <<"BOOLEAN", b>>
  /\ \A s \in DOMAIN TextTable :
       /\ TextTable[s].shows[1] = "INTEGER" => TextTable[s].whole = TextTable[s].shows[2]
       /\ TextTable[s].shows[1] = "BOOLEAN" => TextTable[s].truth = TextTable[s].shows[2]

Boolean(b) == Value("BOOLEAN", b)
Decimal(d) == Value("DECIMAL", d)
Varchar(s) == Value("VARCHAR", s)

BooleanNull == -128

GetNullValueByType(t) ==
  CASE t \in IntTypes -> Value(t, Null(t))
    [] t = "BOOLEAN" -> Boolean(BooleanNull)
    [] t = "DECIMAL" -> Decimal(DecimalNull)
    [] t = "VARCHAR" -> Varchar(NullText)

HasNull(l, r) == \E val \in {l, r} : val = GetNullValueByType(val.type)
IsNullValue(val) == HasNull(val, val)
IsException(out) == out.type = "exception"

(* The text that to_string, or BooleanType::ToString, gives *)
ToString(val) ==
  CHOOSE s \in DOMAIN TextTable :
    TextTable[s].shows = <<IF IsInt(val) THEN "INTEGER" ELSE val.type, val.v>>

(* A text as IntegerTypes knows it *)
AsRead(val) ==
  IF val.type = "VARCHAR" /\ val.v # NullText THEN Value("VARCHAR", TextTable[val.v].whole) ELSE val

-----------------------------------------------------------------------------
(* CastAs of each type *)
CastIntegerAs(val, t) ==
  CASE t \in IntTypes -> CastInt(val, t)
    [] t = "BOOLEAN" -> Throw("not coercable")
    [] OTHER -> IF IsNull(val) THEN GetNullValueByType(t)
                ELSE IF t = "DECIMAL" THEN Decimal(DoubleOf(val.v)) ELSE Varchar(ToString(val))

CastBooleanAs(val, t) ==
  CASE t = "BOOLEAN" -> val
    [] t = "VARCHAR" -> IF IsNullValue(val) THEN Varchar(NullText) ELSE Varchar(ToString(val))
    [] OTHER -> Throw("not coercable")

(* Mutant: the nearest number *)
WholeNearest(d) == (d + 2) \div 4

(* static_cast of a double to an integer *)
Whole(d) == Quot(d, 4)

(* The bounds become doubles.  Those of BIGINT are rounded away from zero, *)
(* so that for it the upper one is left out; the lower one is let in.      *)
CastDecimalAs(val, t) ==
  CASE t \in IntTypes ->
         IF IsNullValue(val) THEN GetNullValueByType(t)
         ELSE IF \/ val.v > DoubleOf(Max(t)) \/ (t = "BIGINT" /\ val.v = DoubleOf(Max(t)))
                 \/ val.v < DoubleOf(Min(t))
         THEN Throw("OUT_OF_RANGE")
         ELSE Value(t, Whole(val.v))
    [] t = "DECIMAL" -> val
    [] t = "VARCHAR" -> IF IsNullValue(val) THEN Varchar(NullText) ELSE Varchar(ToString(val))
    [] t = "BOOLEAN" -> Throw("not coercable")

(* The text of the NULL is no number and no truth value *)
CastVarcharAs(val, t) ==
  LET read == IF IsNullValue(val) THEN [quarters |-> NoNumber, truth |-> NoNumber] ELSE TextTable[val.v]
  IN CASE t \in IntTypes -> CastText(AsRead(val), t)
       [] t = "BOOLEAN" -> IF read.truth = NoNumber THEN Throw("format error") ELSE Boolean(read.truth)
       [] t = "DECIMAL" ->
            IF read.quarters = NoNumber THEN Throw("invalid_argument")
            ELSE IF read.quarters # NaN /\ read.quarters < DecimalMin THEN Throw("OUT_OF_RANGE") ELSE Decimal(read.quarters)
       [] t = "VARCHAR" -> val

ValueCastAs(val, t) ==
  CASE IsInt(val) -> CastIntegerAs(val, t)
    [] val.type = "BOOLEAN" -> CastBooleanAs(val, t)
    [] val.type = "DECIMAL" -> CastDecimalAs(val, t)
    [] val.type = "VARCHAR" -> CastVarcharAs(val, t)

(* static_cast of a NaN to an integer is undefined: the instruction gives    *)
(* the smallest number of a register, which a TINYINT or SMALLINT cuts to 0, *)
(* and the compiler may take 0 for it.                                       *)
UndefinedCast(val, t) == val = Decimal(NaN) /\ t \in IntTypes
NaNAs(t) == {Value(t, Cast(t, Null(Wider(t, "INTEGER")))), Value(t, 0)}

CastOutcomes(val, t) == IF UndefinedCast(val, t) THEN NaNAs(t) ELSE {ValueCastAs(val, t)}

-----------------------------------------------------------------------------
Numeric == IntTypes \cup {"DECIMAL"}

IsCoercableFrom(t, from) ==
  CASE t = "BOOLEAN" -> TRUE
    [] t \in Numeric -> from \in Numeric \cup {"VARCHAR"}
    [] t = "VARCHAR" -> TRUE

(* Mutant: the largest number is left out as CastAs does for BIGINT *)
FactoryOfDecimalBelow(val, t) ==
  IF UndefinedCast(val, t) THEN NaNAs(t)
  ELSE IF val.v >= DoubleOf(Max(t)) \/ val.v < DoubleOf(Min(t)) THEN {Throw("OUT_OF_RANGE")}
  ELSE {Value(t, Whole(val.v))}

(* static_cast of a double that the type cannot hold is undefined: the     *)
(* instruction gives the smallest number, a constant may be cut off at the *)
(* largest.                                                                *)
FactoryOfDecimal(val, t) ==
  LET n == Whole(val.v)
  IN IF UndefinedCast(val, t) THEN NaNAs(t)
     ELSE IF val.v > DoubleOf(Max(t)) \/ val.v < DoubleOf(Min(t)) THEN {Throw("OUT_OF_RANGE")}
     ELSE IF n > Max(t) THEN {Value(t, Null(t)), Value(t, Max(t))} ELSE {Value(t, n)}

(* ValueFactory: CastAsTinyInt to CastAsBigInt; CastAsDecimal,             *)
(* CastAsVarchar and CastAsBoolean.  Text that is no number is an          *)
(* Exception here.                                                         *)
FactoryToInteger(val, t) ==
  CASE IsInt(val) -> {CastInt(val, t)}
    [] val.type = "DECIMAL" -> FactoryOfDecimal(val, t)
    [] val.type = "VARCHAR" -> {CastText(AsRead(val), t)}

FactoryToOther(val, t) ==
  CASE t = "DECIMAL" ->
         IF IsInt(val) THEN {Decimal(DoubleOf(val.v))}
         ELSE IF val.type = "DECIMAL" THEN {val} ELSE {CastVarcharAs(val, t)}
    [] t = "VARCHAR" -> {IF val.type = "VARCHAR" THEN val ELSE Varchar(ToString(val))}
    [] t = "BOOLEAN" ->
         IF val.type = "BOOLEAN" THEN {val}
         ELSE IF val.type = "VARCHAR" THEN {CastVarcharAs(val, t)} ELSE {Throw("not coercable")}

FactoryCastAs(val, t) ==
  IF ~IsCoercableFrom(t, val.type) THEN {Throw("not coercable")}
  ELSE IF IsNullValue(val) THEN {GetNullValueByType(t)}
  ELSE IF t \in IntTypes THEN FactoryToInteger(val, t) ELSE FactoryToOther(val, t)

-----------------------------------------------------------------------------
(* Asserted by every comparison, Min and Max *)
CheckComparable(l, r) ==
  \/ l.type = "VARCHAR"
  \/ l.type = "BOOLEAN" /\ r.type \in {"BOOLEAN", "VARCHAR"}
  \/ l.type \in Numeric /\ r.type \in Numeric \cup {"VARCHAR"}

(* A NaN is unequal to every double, itself included, and in no order *)
HoldsOf(op, x, y) == IF NaN \in {x, y} THEN op = "CompareNotEquals" ELSE Holds(op, x, y)

(* Mutant: an integer is compared with the whole part of a DECIMAL *)
CompareIntegerWhole(op, l, r) ==
  IF r.type = "DECIMAL" THEN CmpBool(r.v # NaN /\ Holds(op, l.v, Quot(r.v, 4))) ELSE Compare(op, l, AsRead(r))

(* The four integer types: C++ makes a double of an integer beside one *)
CompareInteger(op, l, r) ==
  IF r.type = "DECIMAL" THEN CmpBool(HoldsOf(op, DoubleOf(l.v), r.v)) ELSE Compare(op, l, AsRead(r))

(* The others: what is on the right is first made a Value of the left type *)
CompareCast(op, l, r) ==
  LET c == ValueCastAs(r, l.type)
  IN IF IsException(c) THEN c ELSE CmpBool(HoldsOf(op, l.v, c.v))

CompareDecimal(op, l, r) ==
  IF IsInt(r) THEN CmpBool(HoldsOf(op, l.v, DoubleOf(r.v))) ELSE CompareCast(op, l, r)
CompareVarchar(op, l, r) == CompareCast(op, l, r)
CompareBoolean(op, l, r) == CompareCast(op, l, r)

ValueCompare(op, l, r) ==
  IF HasNull(l, r) THEN CmpNull
  ELSE CASE IsInt(l) -> CompareInteger(op, l, r)
         [] l.type = "DECIMAL" -> CompareDecimal(op, l, r)
         [] l.type = "VARCHAR" -> CompareVarchar(op, l, r)
         [] l.type = "BOOLEAN" -> CompareBoolean(op, l, r)

(* The comparison that decides for the left operand of Min and Max *)
Decides(op, t) ==
  CASE t \in IntTypes -> Keeps[op]
    [] t = "DECIMAL" -> IF op = "Min" THEN "CompareLessThanEquals" ELSE "CompareGreaterThanEquals"
    [] t = "VARCHAR" -> IF op = "Min" THEN "CompareLessThan" ELSE "CompareGreaterThan"

ValueOperateNull(l, r) ==
  CASE l.type = "DECIMAL" \/ (IsInt(l) /\ r.type = "DECIMAL") -> Decimal(DecimalNull)
    [] IsInt(l) /\ r.type # "DECIMAL" -> OperateNull(l, r)
    [] l.type = "VARCHAR" -> Throw("not implemented")

ValueExtremum(op, l, r) ==
  IF l.type = "BOOLEAN" THEN Throw("not implemented")
  ELSE IF HasNull(l, r) THEN ValueOperateNull(l, r)
  ELSE LET c == ValueCompare(Decides(op, l.type), l, r)
       IN IF IsException(c) THEN c ELSE IF c = CmpBool(TRUE) THEN l ELSE r

-----------------------------------------------------------------------------
AllTypes == IntTypes \cup {"BOOLEAN", "DECIMAL", "VARCHAR"}

AllValues ==
  (UNION {{Value(t, n) : n \in {m \in Wholes : Fits(t, m)}} : t \in IntTypes})
    \cup {Boolean(b) : b \in {0, 1, BooleanNull}}
    \cup {Decimal(d) : d \in Decimals \cup {DecimalNull, NaN}}
    \cup {Varchar(s) : s \in Words \cup {NullText}}

ValueInit == Init /\ last = NoCall

(* A call on any two Values.  The integers among themselves are called in   *)
(* IntegerTypes, beside which these calls are made.                          *)
CallValue(op, l, r, out) ==
  /\ last' = [op |-> op, left |-> l, right |-> r, out |-> out]
  /\ UNCHANGED vars

CompareValues(op, l, r) == CheckComparable(l, r) /\ CallValue(op, l, r, ValueCompare(op, l, r))
ExtremumOfValues(op, l, r) == CheckComparable(l, r) /\ CallValue(op, l, r, ValueExtremum(op, l, r))
CastValue(val, t) ==
  \E out \in CastOutcomes(val, t) : CallValue("CastAs", val, GetNullValueByType(t), out)
MakeValue(val, t) ==
  \E out \in FactoryCastAs(val, t) : CallValue("ValueFactory", val, GetNullValueByType(t), out)

ReturnValue == last # NoCall /\ last' = NoCall /\ UNCHANGED vars

ValueNext ==
  \/ /\ last = NoCall
     /\ \/ \E l \in AllValues, r \in AllValues :
             /\ ~(IsInt(l) /\ IsInt(r))
             /\ \/ \E op \in Compares : CompareValues(op, l, r)
                \/ \E op \in {"Min", "Max"} : ExtremumOfValues(op, l, r)
        \/ \E val \in AllValues, t \in AllTypes : CastValue(val, t) \/ MakeValue(val, t)
  \/ ReturnValue

ValueSpec == ValueInit /\ [][ValueNext]_last

-----------------------------------------------------------------------------
(* The two doubles that the rounded bounds of BIGINT let in *)
TwoToThe63(val) == val.type = "DECIMAL" /\ val.v # NaN /\ Abs(val.v) = DoubleOf(Max("BIGINT"))

(* A cast between kinds of types keeps what the new type can hold.  A        *)
(* DECIMAL becomes, either way, its whole part or is refused: never another  *)
(* number, and never the NULL, although the smallest number of each type     *)
(* stands for NULL.  Two exceptions: as a BIGINT -2^63 is the NULL, by       *)
(* either way, and 2^63, which CastAs refuses, is by ValueFactory the NULL   *)
(* or the largest number; and of a NaN, whose cast is undefined, nothing is  *)
(* promised.  An integer or a BOOLEAN shown as text and read again is *)
(* the same Value, although CastAs reads a TINYINT or SMALLINT through stoi  *)
(* and cuts it.  (The NULL becomes a text that no cast reads.)               *)
CastsKeepValue ==
  /\ /\ last.left.type = "DECIMAL" /\ ~IsNullValue(last.left) /\ IsInt(last.out)
     /\ ~UndefinedCast(last.left, last.right.type)
     /\ last.op \in {"CastAs", "ValueFactory"}
     => IF last.out.type = "BIGINT" /\ TwoToThe63(last.left)
        THEN \/ IsNull(last.out)
             \/ last.op = "ValueFactory" /\ last.left.v > 0 /\ last.out.v = Max("BIGINT")
        ELSE last.out.v = Quot(last.left.v, 4) /\ ~IsNull(last.out)
  /\ last.op = "CastAs" /\ last.right.type = "VARCHAR" /\ (IsInt(last.left) \/ last.left.type = "BOOLEAN") =>
       LET back == ValueCastAs(last.out, last.left.type)
       IN IF IsNullValue(last.left) THEN IsException(back) ELSE back = last.left

(* ValueFactory repeats the casts of the types.  It agrees with them on what *)
(* it refuses and on what it makes of every other Value, save for a NULL     *)
(* that CastAs refuses and it keeps (a VARCHAR, or a number as a BOOLEAN),   *)
(* for 2^63, which it lets in, and for a NaN made an integer, which is       *)
(* undefined both ways.                                                      *)
FactoryAgrees ==
  last.op = "ValueFactory" /\ ~UndefinedCast(last.left, last.right.type) =>
    LET c == ValueCastAs(last.left, last.right.type)
    IN \/ c = last.out
       \/ IsException(c) /\ IsException(last.out)
       \/ IsNullValue(last.left) /\ IsException(c) /\ last.out = last.right
       \/ last.right.type = "BIGINT" /\ TwoToThe63(last.left)

(* The comparisons of which one holds, with the mirrored ones *)
Orders == [CompareEquals |-> "CompareEquals", CompareLessThan |-> "CompareGreaterThan",
           CompareGreaterThan |-> "CompareLessThan"]

Holding(l, r) == {op \in DOMAIN Orders : ValueCompare(op, l, r) = CmpBool(TRUE)}

Exactly(val) == IF IsInt(val) THEN 4 * val.v ELSE val.v

(* The order of two numbers (or truth values, or texts) l and r, and the     *)
(* outcome of a call on them *)
Ordered(op, l, r, out) ==
  /\ \E o \in DOMAIN Orders :
       /\ Holding(l, r) = {o} /\ Holding(r, l) = {Orders[o]}
       /\ (\A val \in {l, r} : IsInt(val) => DoubleOf(val.v) = 4 * val.v) => Holds(o, Exactly(l), Exactly(r))
  /\ op \in {"Min", "Max"} /\ l.type # "BOOLEAN" =>
       /\ out \in {l, r}
       /\ \A val \in {l, r} : Holding(out, val) \subseteq
            {"CompareEquals", IF op = "Min" THEN "CompareLessThan" ELSE "CompareGreaterThan"}

(* The same beside a NaN *)
Unordered(op, l, r, out) ==
  /\ Holding(l, r) = {} /\ Holding(r, l) = {}
  /\ op = "CompareNotEquals" => out = CmpBool(TRUE)
  /\ op \in {"Min", "Max"} => out = r

(* Comparisons of a DECIMAL with integers of any width, and of two Values of *)
(* one type, are one order: exactly one of <, =, > holds, and the mirrored   *)
(* one the other way round; it is the order of the numbers unless a BIGINT   *)
(* has more digits than a double; Min and Max answer with an operand that    *)
(* this order puts first or last.  NULL is in no order, and neither is a     *)
(* NaN: it is unequal to every number and to itself, and beside one Min and  *)
(* Max answer the right operand.                                             *)
OrderAcrossTypes ==
  LET l == last.left
      r == last.right
  IN /\ last.op \in Compares \cup {"Min", "Max"}
     /\ l.type = r.type \/ {l.type, r.type} \subseteq Numeric
     => IF HasNull(l, r) THEN Holding(l, r) = {} /\ (last.op \in Compares => last.out = CmpNull)
        ELSE IF NaN \in {l.v, r.v} THEN Unordered(last.op, l, r, last.out)
        ELSE Ordered(last.op, l, r, last.out)
=============================================================================
