CONSTANTS
  Tokens = {t0, t1, n1, n2}
  InitialToken = t0
  SpareTokens = {t1}
  None = None
  MaxFaults = 1
  Overlap = TRUE
  AmbiguousConfigPut = FALSE
SPECIFICATION Spec
PROPERTIES RecoveryKeepsActive
