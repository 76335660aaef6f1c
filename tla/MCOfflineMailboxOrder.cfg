\* Two envelopes, overlapping or ordered sends, one worker, two leases.
SPECIFICATION Spec
CONSTANTS
  Envelopes = {e1, e2}
  MaxAttempts = 2
  LegacyWorkers = {l1}
  MuxWorkers = {}
  MaxClaims = 2
  Slots = 2
  Vias = {"mailbox"}
SYMMETRY EnvelopeSymmetry
INVARIANTS
  StoredIsKept
  OneVerdict
  CausalFifo
CHECK_DEADLOCK FALSE
