---------------------------- MODULE MCTablePage ----------------------------
(* Three tuples, two of them of the same size, on a page with room for few. *)
EXTENDS TablePage

ThreeTuples == {<<"a", 1>>, <<"b", 2>>, <<"c", 2>>}
TupleSizes == [t \in ThreeTuples |-> t[2]]
=============================================================================
