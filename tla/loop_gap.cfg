CONSTANTS
  MaxClients = 1
  Sockets = 1
  FdSetSize = 2
  MsgTimeout = 1
  ConnTimeout = 5
  SelectTimeout = 1
  AgeMax = 2
  QueueMax = 1
SPECIFICATION SpecQuiet
INVARIANT GapSeen
