----------------------------- MODULE MCSqlValues ----------------------------
(* The values of IntegerTypes and SqlValues at small widths, and the tuples *)
(* made of them.                                                             *)
(* A double has 5 bits here: every INTEGER (6 bits) is one, 33 and 63 are    *)
(* not.  Texts are listed in byte order.                                     *)
EXTENDS Tuples

Widths == [TINYINT |-> 2, SMALLINT |-> 4, INTEGER |-> 32, BIGINT |-> 64]

Boundaries == (-5 .. 5) \cup {-64, -63, -62, -33, -32, -31, -30, -16, -8, 8, 16, 30, 31, 32, 62, 63}

Readings == {-65, -64, -33, -32, -4, -2, 0, 1, 3, 5, 31, 32, 64, NullText, NoNumber}

(* What the text shows, what stoi, stod and the cast to BOOLEAN read, and    *)
(* its length with the final zero                                            *)
Text(shows, whole, quarters, truth, len) ==
  [shows |-> shows, whole |-> whole, quarters |-> quarters, truth |-> truth, len |-> len]

AllTexts == <<
  Text(<<"none", 0>>, NoNumber, NoNumber, NoNumber, 1),  \* ""
  Text(<<"INTEGER", -1>>, -1, -4, NoNumber, 3),       \* "-1"
  Text(<<"DECIMAL", -5>>, -1, -5, NoNumber, 10),      \* "-1.250000"
  Text(<<"DECIMAL", -7>>, -1, -7, NoNumber, 10),      \* "-1.750000"
  Text(<<"DECIMAL", -640>>, -160, -640, NoNumber, 12),  \* "-160.000000"
  Text(<<"INTEGER", -2>>, -2, -8, NoNumber, 3),       \* "-2"
  Text(<<"INTEGER", -3>>, -3, -12, NoNumber, 3),      \* "-3"
  Text(<<"DECIMAL", -12>>, -3, -12, NoNumber, 10),    \* "-3.000000"
  Text(<<"DECIMAL", -14>>, -3, -14, NoNumber, 10),    \* "-3.500000"
  Text(<<"INTEGER", -31>>, -31, -124, NoNumber, 4),   \* "-31"
  Text(<<"INTEGER", -32>>, -32, -128, NoNumber, 4),   \* "-32"
  Text(<<"DECIMAL", -128>>, -32, -128, NoNumber, 11),  \* "-32.000000"
  Text(<<"INTEGER", -33>>, -33, -128, NoNumber, 4),   \* "-33"
  Text(<<"INTEGER", -4>>, -4, -16, NoNumber, 3),      \* "-4"
  Text(<<"DECIMAL", -16>>, -4, -16, NoNumber, 10),    \* "-4.000000"
  Text(<<"none", 0>>, -6, -24, NoNumber, 3),          \* "-6"
  Text(<<"DECIMAL", -248>>, -62, -248, NoNumber, 11),  \* "-62.000000"
  Text(<<"INTEGER", -63>>, -63, -256, NoNumber, 4),   \* "-63"
  Text(<<"INTEGER", -64>>, -64, -256, NoNumber, 4),   \* "-64"
  Text(<<"DECIMAL", -256>>, -64, -256, NoNumber, 11),  \* "-64.000000"
  Text(<<"INTEGER", 0>>, 0, 0, 0, 2),                 \* "0"
  Text(<<"DECIMAL", 0>>, 0, 0, NoNumber, 9),          \* "0.000000"
  Text(<<"DECIMAL", 2>>, 0, 2, NoNumber, 9),          \* "0.500000"
  Text(<<"INTEGER", 1>>, 1, 4, 1, 2),                 \* "1"
  Text(<<"DECIMAL", 4>>, 1, 4, NoNumber, 9),          \* "1.000000"
  Text(<<"DECIMAL", 7>>, 1, 7, NoNumber, 9),          \* "1.750000"
  Text(<<"INTEGER", 3>>, 3, 12, NoNumber, 2),         \* "3"
  Text(<<"DECIMAL", 12>>, 3, 12, NoNumber, 9),        \* "3.000000"
  Text(<<"DECIMAL", 14>>, 3, 14, NoNumber, 9),        \* "3.500000"
  Text(<<"INTEGER", 31>>, 31, 124, NoNumber, 3),      \* "31"
  Text(<<"DECIMAL", 124>>, 31, 124, NoNumber, 10),    \* "31.000000"
  Text(<<"INTEGER", 32>>, 32, 128, NoNumber, 3),      \* "32"
  Text(<<"DECIMAL", 128>>, 32, 128, NoNumber, 10),    \* "32.000000"
  Text(<<"INTEGER", 33>>, 33, 128, NoNumber, 3),      \* "33"
  Text(<<"DECIMAL", 16>>, 4, 16, NoNumber, 9),        \* "4.000000"
  Text(<<"none", 0>>, 6, 24, NoNumber, 2),            \* "6"
  Text(<<"INTEGER", 62>>, 62, 248, NoNumber, 3),      \* "62"
  Text(<<"DECIMAL", 248>>, 62, 248, NoNumber, 10),    \* "62.000000"
  Text(<<"INTEGER", 63>>, 63, 256, NoNumber, 3),      \* "63"
  Text(<<"none", 0>>, 64, 256, NoNumber, 3),          \* "64"
  Text(<<"DECIMAL", 256>>, 64, 256, NoNumber, 10),    \* "64.000000"
  Text(<<"none", 0>>, NoNumber, NoNumber, 0, 2),      \* "F"
  Text(<<"BOOLEAN", 0>>, NoNumber, NoNumber, 0, 6),   \* "false"
  Text(<<"DECIMAL", NaN>>, NoNumber, NaN, NoNumber, 4),  \* "nan"
  Text(<<"none", 0>>, NoNumber, NoNumber, 1, 2),      \* "t"
  Text(<<"BOOLEAN", 1>>, NoNumber, NoNumber, 1, 5),   \* "true"
  Text(<<"none", 0>>, NoNumber, NoNumber, NoNumber, 2)  \* "x"
  >>

IntegersUsed == {-64, -63, -33, -32, -31, -4, -3, -2, -1, 0, 1, 3, 31, 32, 33, 62, 63}

DecimalsUsed == {-640, -256, -248, -128, -16, -14, -12, -7, -5, 0, 2, 4, 7, 12, 14, 16, 124, 128, 248, 256}

LowestDouble == -100000
LowestFloat == -512

(* Rows of up to three columns over these Values *)
Fields == {Boolean(1), Value("TINYINT", -2), Value("SMALLINT", 3), Value("INTEGER", 31), Value("BIGINT", 62),
           Decimal(7), Varchar(1), Varchar(24), Varchar(46), Varchar(NullText)}
RowsUsed == UNION {[1 .. n -> Fields] : n \in 1 .. 3}
KeysUsed == {<<1>>, <<2>>, <<3>>, <<2, 1>>, <<3, 1>>, <<2, 3>>}

(* Three callers that share nothing, so that no two of them need to be under *)
(* way at once: one keeps an integer, one compares and casts Values (in one  *)
(* of the builds), one makes tuples.                                         *)
ValuesIdle == last = NoCall
IntegersIdle == call = NoCall /\ acc = Zero /\ ~optimised
TuplesIdle == row = <<>>

AllInit == ValueInit /\ TupleInit

AllSpec ==
  /\ AllInit
  /\ [][\/ ValuesIdle /\ TuplesIdle /\ Next /\ UNCHANGED <<last, tupleVars>>
        \/ IntegersIdle /\ TuplesIdle /\ ValueNext /\ UNCHANGED tupleVars
        \/ IntegersIdle /\ ValuesIdle /\ TupleNext /\ UNCHANGED valueVars]_<<valueVars, tupleVars>>
=============================================================================
