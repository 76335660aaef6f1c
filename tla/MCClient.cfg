SPECIFICATION Spec
CONSTANTS
  ra = ra
  rb = rb
  a1 = a1
  a2 = a2
  b1 = b1
  Rooms = {ra, rb}
  Handles = {a1, a2, b1}
  RoomOf <- MCRoomOf
  Plans <- MCPlans
  MaxRooms = 2
  MaxFaults = 1
  MaxNonce = 5
  MaxLoops = 2
  d1 = d1
  d2 = d2
  Devices = {d1, d2}
  Enrolls <- MCEnrolls
  NoAccount = NoAccount
  MaxRegistryFaults = 2
  MaxOpens = 2
  First = d1
  Second = d2
  MaxLedgerFaults = 2
  MaxEpoch = 5
  Senders = {s1}
  Receiver = r1
  MaxTransfers = 2
  ChunkCount = 1
  Quota = 1
  MaxRuns = 2
  MaxDownloads = 1
  MaxFileFaults = 1
PROPERTIES
  MuxCorrect
  RegistryCorrect
  LedgerCorrect
  FileCorrect
CHECK_DEADLOCK FALSE
