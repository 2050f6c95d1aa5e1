CONSTANTS
  MaxClients = 2
  Sockets = 3
  FdSetSize = 3
  MsgTimeout = 0
  ConnTimeout = 0
  SelectTimeout = 0
  AgeMax = 1
  QueueMax = 1
SPECIFICATION FairSpec
INVARIANTS TypeOK MasterSetsExact WriteHasHead MaxfdCovers ReadyAccounted
PROPERTIES UpkeepKeepsLive EofSeen BacklogServed IdleEvicted
