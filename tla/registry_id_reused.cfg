CONSTANTS
  alice = alice
  bob = bob
  odd = odd
  k1 = k1
  k2 = k2
  cut = cut
  Names = {alice, bob}
  ValidNames = {alice, bob}
  Keys = {k1, cut}
  TornKey = cut
  MaxId = 3
  CrashSteps = {"idle"}
  SaveFaults = {}
SPECIFICATION Spec
INVARIANT IdNeverReused
