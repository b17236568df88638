CONSTANTS
  t1 = t1
  t2 = t2
  t3 = t3
  Txns <- ThreeTxns
  NoTxn = NoTxn
  Tuples <- ResizedTuples
  Size <- SizeOf
  NoTuple = NoTuple
  PageSize = 60
  MaxPages = 2
  MaxWrites = 2
SYMMETRY TxnSymmetry
SPECIFICATION Spec
INVARIANTS RowsCommitted
