CONSTANTS
  Frames = {f1, f2, f3}
  NoFrame = NoFrame
  replacer_size_ = 2
  k_ = 2
  Builds = {TRUE, FALSE}
  SizeMax = 15
  MaxTime = 7
SPECIFICATION Spec
SYMMETRY FrameSymmetry
INVARIANT SizeIsEvictable
PROPERTY EvictTakesInfiniteFirst
CHECK_DEADLOCK FALSE
