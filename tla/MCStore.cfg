SPECIFICATION Spec
SYMMETRY MCSymmetry
CONSTANTS
  Chats = {c1, c2}
  MaxKeys = 2
  MaxPageLosses = 1
  RoomDevices = {d1, d2}
  RoomRequests = {t1, t2}
  MaxChanges = 1
  VaultPages = {p1, p2}
  SetupPages = {p1}
  Secrets = {s1, s2}
  MaxStamps = 2
  Controllers = {k1}
  ChunkKinds <- MCChunks
  MaxTransfers = 2
  MaxListEpoch = 1
  MaxSyncFaults = 1
  Runtimes = {t1, t2}
  GroupDevices = {g1, g2, g3}
  Administrators = {g1, g2}
  MaxGroupEpoch = 5
  LogTabs = {t1, t2}
  m1 = m1
  m2 = m2
  m3 = m3
  Digests = {m1, m2, m3, m4}
  SegmentSize = 2
  OldLists <- MCOldLists
INVARIANTS
  RuntimeCorrect
  VaultCorrect
  LogCorrect
PROPERTIES
  RoomCorrect
  SyncCorrect
  GroupCorrect
CHECK_DEADLOCK FALSE
