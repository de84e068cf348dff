CONSTANTS
  g1 = g1
  g2 = g2
  Renewals = {n1, n2}
  Groups <- MCGroups
  Roles <- MCRoles
  Configs <- MCConfigs
  Systems <- MCLongSystems
  Increments = {0, 1, 9}
  NoRole = NoRole
  Grace = 2
  CallTimeout = 1
  IssueDelay = 2
  MaxTime = 6
  MaxLate = 1
SPECIFICATION Spec
INVARIANT BackstopOutlivesLease
CHECK_DEADLOCK FALSE
