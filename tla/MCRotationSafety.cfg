CONSTANTS
  Tokens = {t0, t1, n1, n2}
  InitialToken = t0
  SpareTokens = {t1}
  None = None
  MaxFaults = 3
  Overlap = FALSE
  AmbiguousConfigPut = TRUE
SPECIFICATION Spec
INVARIANTS ConfiguredTokenLive NoTokenLost RotationInv
PROPERTIES ActiveTokenKept
