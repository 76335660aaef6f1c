\* Two submissions, of one envelope or of two that compete for one slot.
SPECIFICATION Spec
CONSTANTS
  Envelopes = {e1, e2}
  MaxAttempts = 2
  LegacyWorkers = {}
  MuxWorkers = {m1}
  MaxClaims = 2
  Slots = 1
  Vias = {"live", "mux"}
SYMMETRY EnvelopeSymmetry
INVARIANTS
  AcceptedIsApplied
  TerminalIsRemembered
  WithinQuota
PROPERTIES
  MailboxPromised
CHECK_DEADLOCK FALSE
