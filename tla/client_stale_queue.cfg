CONSTANTS
  c1 = c1
  c2 = c2
  alice = alice
  k1 = k1
  md5 = md5
  Conn = {c1, c2}
  Names = {alice}
  ValidNames = {alice}
  Fold <- SameCase
  Keys = {k1, md5}
  PlainKeys = {k1}
  TornKey = md5
  SaveFaults = {}
  UserFiles <- AnyAlice
  Traffic = {"LOGIN", "AUTH", "LOGOUT", "REGISTER", "DROP"}
  MaxId = 3
  Destinations = {0}
  QueueMax = 2
  BusyMax = 2
  MaxReq = 2
SPECIFICATION CltSpec
INVARIANTS AuthAnswersChallenge

