CONSTANTS
  g1 = g1
  g2 = g2
  Renewals = {n1, n2}
  Groups <- MCGroups
  Roles <- MCRoles
  Configs <- MCConfigs
  Systems <- MCSystems
  Increments = {0, 1, 9}
  NoRole = NoRole
  Grace = 3
  CallTimeout = 1
  IssueDelay = 3
  MaxTime = 6
  MaxLate = 1
SPECIFICATION Spec
SYMMETRY RenewalSymmetry
INVARIANTS LeaseInv BackstopWithinCeiling BackstopFollowsLease PrivilegesFrozen
PROPERTIES ContainmentHolds
CHECK_DEADLOCK FALSE
