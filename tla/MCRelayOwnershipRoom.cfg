\* Three devices, each with an address of its own, fill one room.
SPECIFICATION Spec
CONSTANTS
  d1 = d1
  d2 = d2
  d3 = d3
  a1 = a1
  a2 = a2
  a3 = a3
  Devices = {d1, d2, d3}
  Connections <- OneEach
  Rooms = {r1}
  Addresses = {a1, a2, a3}
  Ops = {o1, o2}
  Capacity = 2
  Entitled <- EachItsOwn
  Revocable = {}
  Senders = {d1}
  Faults = FALSE
  None = None
SYMMETRY OpSymmetry
PROPERTIES
  RoomHolds
CHECK_DEADLOCK FALSE
