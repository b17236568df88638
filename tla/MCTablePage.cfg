CONSTANTS
  Tuples <- ThreeTuples
  Size <- TupleSizes
  NoTuple = NoTuple
  PageSize = 53
  MaxSlots = 3
  Word = 65536
SPECIFICATION Spec
INVARIANT LayoutSound
PROPERTIES OthersIntact ImplementsPage
CHECK_DEADLOCK FALSE
