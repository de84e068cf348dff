SPECIFICATION FairSpec
CONSTANTS
  Callers = {t1, t2}
  Users = {}
  Threads = {t1, t2}
  Operators = {c}
  MaxConfig = 1
  Nobody = Nobody
  NoRole = NoRole
  Omitted = Omitted
  Trees <- MCTrees
  Names <- MCNames
  Strings <- MCStrings
  UserSafe <- MCUserSafe
  RealmSafe <- MCRealmSafe
  Length <- MCLength
  Suffix = "suffix"
  TTLs <- MCTTLs
  Requests <- MCRequests
  InitialRoles <- MCInitialRoles
INVARIANTS RoleInv StoredRoleUsable PasswordOptInGated PrivilegesGranted
PROPERTIES Linearizable CallsReturn
