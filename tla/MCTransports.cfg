SPECIFICATION Spec
CONSTANTS
  MaxDrops = 2
  MaxInbound = 1
  ra = ra
  a1 = a1
  Rooms = {ra}
  Handles = {a1}
  RoomOf <- MCRoomOf
  Plans <- MCPlans
  MaxRooms = 1
  MaxFaults = 2
  MaxNonce = 5
  MaxLoops = 2
PROPERTIES
  TransportsCorrect
CHECK_DEADLOCK FALSE
