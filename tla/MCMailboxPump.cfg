\* Two sockets of the device, two submissions, and every kind of disturbance once.
SPECIFICATION FairSpec
CONSTANTS
  Sockets = {s1, s2}
  Pumps = {p1, p2}
  None = None
  MaxSends = 2
  BatchLimit = 1
  MaxRenewals = 2
  MaxFaults = 1
  MaxOthers = 1
INVARIANTS
  OnePump
  NeverForgotten
PROPERTIES
  Drains
CHECK_DEADLOCK FALSE
