CONSTANTS
  o1 = o1
  o2 = o2
  f1 = f1
  Files = {f1}
  Size <- SmallFile
  Offers = {o1, o2}
  FileOf <- SameFile
  Chunk = 2
  Careful = TRUE
  MaxReq = 3
  MaxFaults = 3
SPECIFICATION FairSpec
INVARIANTS TypeOK AppendsInOrder
PROPERTIES CopiesExact FinishedMeansReceived DownloadCompletes
CHECK_DEADLOCK FALSE
