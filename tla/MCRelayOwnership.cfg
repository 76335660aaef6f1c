\* Two devices, one of which reconnects, contend for one pair.
SPECIFICATION Spec
CONSTANTS
  d1 = d1
  d2 = d2
  d3 = d3
  a1 = a1
  a2 = a2
  a3 = a3
  Devices = {d1, d2}
  Connections <- OneReconnects
  Rooms = {r1}
  Addresses = {a1}
  Ops = {o1, o2}
  Capacity = 2
  Entitled <- Everyone
  Revocable = {d1}
  Senders = {}
  Faults = TRUE
  None = None
SYMMETRY OpSymmetry
INVARIANTS
  ExclusiveOwner
  Registered
  LockFollowsHandlers
  RevokedOwnsNothing
PROPERTIES
  OnlyOwnDeviceTakesOver
CHECK_DEADLOCK FALSE
