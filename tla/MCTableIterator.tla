-------------------------- MODULE MCTableIterator --------------------------
(* Two transactions on a table with two rows to a page, and a scan.  One    *)
(* tuple is too large for any page.                                         *)
EXTENDS TableIterator

CONSTANTS t1, t2

TwoTxns == {t1, t2}
RowOrHuge == {<<"a", 4>>, <<"huge", 17>>}
SizeOf == [t \in Tuples |-> t[2]]
=============================================================================
