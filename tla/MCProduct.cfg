SPECIFICATION Spec
SYMMETRY MCSymmetry
CONSTANTS
  ProductRooms = {t1, t2}
  MaxAsks = 2
  MaxPageFaults = 2
  IndexTabs = {t1, t2}
  IndexRooms = {x1}
  Peers = {i1, i2}
  MaxIndexOps = 3
  TrustTabs = {t1, t2}
  Identities = {i1, i2}
  MaxClock = 2
  MaxOperations = 4
  Users = {t1, t2}
  WindowSize = 2
  MaxChats = 3
  MaxJoins = 2
INVARIANTS
  ChatCorrect
PROPERTIES
  SelectionCorrect
  IndexCorrect
  TrustCorrect
CHECK_DEADLOCK FALSE
