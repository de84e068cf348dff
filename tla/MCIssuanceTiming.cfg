CONSTANTS
  Requests = {r1}
  UserIds = {u1, f}
  Foreign = {f}
  MaxCollisionRetries = 2
  MaxCrashes = 1
  UseridReuse = FALSE
  Nobody = Nobody
  NoComment = NoComment
  LegacyId = LegacyId
  Faults <- MCFaults
  StepLimit = 1
  PVELimit = 5
  MinAge = 6
SPECIFICATION FairTimedSpec
INVARIANT EntriesYoung
PROPERTIES Untimed Accountable OrphanSwept WalDrains RevocationCompletes
