CONSTANTS
  c1 = c1
  c2 = c2
  alice = alice
  Alice = Alice
  bob = bob
  odd = odd
  k1 = k1
  md5 = md5
  Conn = {c1, c2}
  Names = {alice, Alice, bob}
  ValidNames = {alice, bob}
  Fold <- FoldCase
  Keys = {k1, md5}
  PlainKeys = {k1}
  TornKey = md5
  SaveFaults = {}
  UserFiles <- AliceOrNone
  Traffic = {"LOGIN", "AUTH", "REGISTER", "DROP", "LOGOUT"}
  MaxId = 3
  Destinations = {0}
  QueueMax = 1
  BusyMax = 1
SPECIFICATION Spec
INVARIANT FreeNameUsable

