CONSTANTS
  t1 = t1
  t2 = t2
  Txns <- TwoTxns
  NoTxn = NoTxn
  Tuples <- RowOrHuge
  Size <- SizeOf
  NoTuple = NoTuple
  PageSize = 48
  MaxPages = 2
  MaxWrites = 2
  FrameReuse = FALSE
SPECIFICATION ScanSpec
INVARIANTS ScanComplete NewPageAccepts
PROPERTIES ScanEnds WritersReturn
