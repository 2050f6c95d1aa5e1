CONSTANTS
  alice = alice
  bob = bob
  odd = odd
  k1 = k1
  k2 = k2
  cut = cut
  Names = {alice, bob}
  ValidNames = {alice, bob}
  Keys = {k1, cut}
  TornKey = cut
  MaxId = 3
  CrashSteps = {"idle", "open1", "write1", "add", "open2", "write2", "answer"}
  SaveFaults = {"open"}
SPECIFICATION Spec
INVARIANTS TypeOK AckedDurable SessionsAgree DistinctAccounts 
PROPERTY IdsStable
