CONSTANTS
  p1 = p1
  o1 = o1
  none = none
  Peers = {p1}
  Offers = {o1}
  NoOne = none
  Typed <- MCTyped
  Piped <- MCPiped
  LineMax = 0
  CommandMax = 0
SPECIFICATION FairSpec
INVARIANTS TypeOK  
PROPERTIES  RefreshGoesOn
CHECK_DEADLOCK FALSE
