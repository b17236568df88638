------------------------ MODULE MCTransactionManager ------------------------
(* Two tuples of one size, two to a page, and one too large for any page. *)
EXTENDS TransactionManager

CONSTANTS t1, t2, t3

TwoTxns == {t1, t2}
ThreeTxns == {t1, t2, t3}
TxnSymmetry == Permutations(Txns)

EqualTuples == {<<"a", 4>>, <<"b", 4>>, <<"huge", 17>>}
TwoTuples == {<<"a", 4>>, <<"b", 4>>}
ResizedTuples == {<<"a", 4>>, <<"b", 10>>}
SizeOf == [t \in Tuples |-> t[2]]
=============================================================================
