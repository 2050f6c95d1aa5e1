CONSTANTS
  o1 = o1
  o2 = o2
  f1 = f1
  Files = {f1}
  Size <- SmallFile
  Offers = {o1, o2}
  FileOf <- SameFile
  Chunk = 2
  Careful = FALSE
  MaxReq = 3
  MaxFaults = 2
SPECIFICATION Spec
INVARIANT OffsetIsPosition
CHECK_DEADLOCK FALSE
