SPECIFICATION Spec
CONSTANTS
  alice = alice
  bob = bob
  Peers = {alice, bob}
  Calls = {1, 2}
  CallerOf <- MCCallerOf
  RestartOwner = alice
  NoCall = 0
  CallPlans <- MCCallPlans
  IntroIds = {1, 2, 3}
  MaxInviteKeys = 2
  MaxIntroLosses = 2
  MaxMail = 3
  MaxReplayFaults = 3
PROPERTIES
  CallsCorrect
  ContactCorrect
  ReplayCorrect
CHECK_DEADLOCK FALSE
