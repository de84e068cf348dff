CONSTANTS
  Requests = {r1, r2}
  UserIds = {u1, u2, f}
  Foreign = {f}
  MaxCollisionRetries = 2
  MaxCrashes = 1
  UseridReuse = FALSE
  Nobody = Nobody
  NoComment = NoComment
  LegacyId = LegacyId
  Faults <- MCFaults
SPECIFICATION Spec
SYMMETRY EngineSymmetry
INVARIANTS TypeOK NeverOrphaned IssuedCredentialIntact ForeignUntouched RevokedIsGone CredentialInv IssuanceInv
