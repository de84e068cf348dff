---------------------------- MODULE MCRoleStore ----------------------------
EXTENDS RoleStore

\* A role name of 45 characters: with "vault" and "pve" the userid has exactly
\* 64, and with "ldap" 65.
MCNames == {"name45"}
MCStrings == {"", "-", "@", "p", "g", "pve", "ldap", "vault", "suffix"} \cup MCNames
MCUserSafe == MCStrings \ {"", "@"}
MCRealmSafe == {"pve", "ldap", "vault", "suffix"}
MCLength == [s \in MCStrings |->
  CASE s = "" -> 0 [] s \in {"-", "@", "p", "g"} -> 1 [] s = "pve" -> 3
    [] s = "ldap" -> 4 [] s = "vault" -> 5 [] s = "suffix" -> 8 [] OTHER -> 45]
MCTTLs == 0..2

Body(g, p, r, t, m, mode) ==
  [group |-> g, user_prefix |-> p, realm |-> r, ttl |-> t, max_ttl |-> m, mode |-> mode]

\* A create, and partial updates each of which suits some stored roles and not
\* others: a password outside "pve", 65 characters, a ttl above the maximum.
MCRequests ==
  LET O == Omitted IN
  { Body("g", O, O, O, O, O),
    Body(O, O, O, O, O, "password"),
    Body(O, "p", "ldap", O, O, O),
    Body(O, "", O, 2, O, O),
    Body(O, O, "", O, 1, "") }

MCInitialRoles ==
  { NoRole,
    Body("g", "vault", "pve", 0, 0, ""),
    Body("g", "vault", "pve", 2, 2, "password") }

\* One privilege each of the ways it may be granted: at the path, above it
\* with and without propagation, and above a grant that does not propagate.
MCTrees ==
  LET Modify == { {Grant(<<>>, "User.Modify", TRUE), Grant(<<"access">>, "User.Modify", FALSE)},
                  {Grant(<<"access", "groups">>, "User.Modify", FALSE)},
                  {Grant(<<"access", "groups", "g">>, "User.Modify", FALSE)} }
      Allocate == { {Grant(<<"access", "realm">>, "Realm.AllocateUser", TRUE)},
                    {Grant(<<"access", "realm">>, "Realm.AllocateUser", FALSE)} }
      Audit == {Grant(<<"access">>, "Sys.Audit", TRUE)}
  IN  {m \cup a \cup Audit : m \in Modify, a \in Allocate} \cup {{}}
=============================================================================
