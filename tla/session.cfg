CONSTANTS
  c1 = c1
  c2 = c2
  alice = alice
  Alice = Alice
  bob = bob
  odd = odd
  k1 = k1
  md5 = md5
  Conn = {c1, c2}
  Names = {alice, odd}
  ValidNames = {alice}
  Fold <- FoldCase
  Keys = {k1, md5}
  PlainKeys = {k1}
  TornKey = md5
  SaveFaults = {}
  UserFiles <- AliceOrUnsupported
  Traffic = {"LOGIN", "AUTH", "LOGOUT", "REGISTER", "DROP", "PEERLIST", "PING", "GETFILE"}
  MaxId = 3
  Destinations = {1, 4}
  QueueMax = 2
  BusyMax = 1
SPECIFICATION Spec
SYMMETRY Symmetry
INVARIANTS TypeOK UniqueLogin NameIdAgree UniqueName PeerlistUnambiguous MailFollowsIdentity
PROPERTIES ImplementsPresence OwnerOnly 
