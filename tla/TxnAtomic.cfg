CONSTANTS
  t1 = t1
  t2 = t2
  t3 = t3
  Txns <- ThreeTxns
  NoTxn = NoTxn
  Tuples <- TwoTuples
  Size <- SizeOf
  NoTuple = NoTuple
  PageSize = 48
  MaxPages = 2
  MaxWrites = 2
SYMMETRY TxnSymmetry
SPECIFICATION Spec
INVARIANTS AssertionsHold RowsCommitted BlockedIsQuiescent HeapLinked
