CONSTANTS
  Requests = {r1}
  UserIds = {u1, f}
  Foreign = {f}
  MaxCollisionRetries = 2
  MaxCrashes = 0
  UseridReuse = FALSE
  Nobody = Nobody
  NoComment = NoComment
  LegacyId = LegacyId
  Faults <- MCFaults
SPECIFICATION Spec
INVARIANT NoOrphanWithoutWAL
