CONSTANTS
  Tokens = {t0, t1, n1, n2}
  InitialToken = t0
  SpareTokens = {t1}
  None = None
  MaxFaults = 3
  Overlap = TRUE
  AmbiguousConfigPut = FALSE
SPECIFICATION OperatorSpec
INVARIANTS TypeOK CacheCoherent
PROPERTIES RotationResolves RotationWalDrains
