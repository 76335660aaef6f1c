SPECIFICATION Spec
CONSTANTS
  e1 = e1
  e2 = e2
  l1 = l1
  n1 = n1
  Engines = {e1, e2}
  Inbound = {l1, n1}
  Legacy = {l1}
  Sends = 2
  MaxPending = 2
  Attempts = 2
  Opens = 2
  Starved = FALSE
  Lingering = TRUE
  Unreadable = FALSE
  None = None
INVARIANT
  NothingLost
CHECK_DEADLOCK FALSE
