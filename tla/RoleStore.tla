----------------------------- MODULE RoleStore -----------------------------
(***************************************************************************)
(* The role store (src/path_roles.go) together with the config and the     *)
(* client cache it goes through.  roles is the storage below "roles/",     *)
(* roleLock the holder of b.roleLock, and w[t] the roleWrite or roleDelete *)
(* that thread t serves.  Its pc names the next call of the handler; the   *)
(* answers of PVE and of storage are arbitrary.                            *)
(*                                                                         *)
(* roleRead, roleList, the existence check and issuance read one entry of  *)
(* storage without the lock: they see some value of roles[name].           *)
(*                                                                         *)
(* verified is a history variable: the password mode of the role was       *)
(* entered on the build that password mode was verified on.                *)
(***************************************************************************)
EXTENDS ClientCache, RoleRules

CONSTANTS Threads,        \* threads that serve writes and deletes of roles
          InitialRoles    \* what may be stored at first

VARIABLES roles, verified, roleLock, w

storeVars == <<roles, verified, roleLock, w>>
vars == <<roles, verified, roleLock, w, config, acked, client, mu, call, cw>>

ASSUME StoreAssumption ==
  /\ Threads \cup Users = Callers
  /\ Threads \cap Users = {}
  /\ InitialRoles \subseteq Roles \cup {NoRole}
  /\ \A r \in InitialRoles, n \in Names : r # NoRole => Usable(n, r)

Held == {"load", "delete", "config", "client", "group", "perms", "version", "put",
         "done", "lost", "failed"}
Merged == {"config", "client", "group", "perms", "version", "put"}

Ops == [pc : {"idle", "lock"} \cup Held, name : Names \cup {"none"},
        kind : {"none", "write", "delete"}, req : Requests \cup {EmptyRequest},
        existing : Roles \cup {NoRole}, granted : BOOLEAN, checked : BOOLEAN]

RoleTypeOK ==
  /\ roles \in [Names -> Roles \cup {NoRole}]
  /\ verified \in [Names -> BOOLEAN]
  /\ roleLock \in Threads \cup {Nobody}
  /\ w \in [Threads -> Ops]

NoOp == [pc |-> "idle", name |-> "none", kind |-> "none", req |-> EmptyRequest,
         existing |-> NoRole, granted |-> FALSE, checked |-> FALSE]

\* The role that thread t is about to store.
New(t) == Merge(w[t].req, w[t].existing)

Init ==
  /\ CacheInit
  /\ roles \in [Names -> InitialRoles]
  /\ verified = [n \in Names |-> TRUE]
  /\ roleLock = Nobody
  /\ w = [t \in Threads |-> NoOp]

Goto(t, pc) == w' = [w EXCEPT ![t].pc = pc]

\* The operation as the handler leaves it, with the answer it will give.
Over(o, answer) ==
  [o EXCEPT !.pc = answer, !.existing = NoRole, !.granted = FALSE, !.checked = FALSE]

End(t, answer) == w' = [w EXCEPT ![t] = Over(@, answer)]

-----------------------------------------------------------------------------
(* Mutations *)

\* roleDelete does without the lock.
RoleDelete_Unlocked(t, name) ==
  /\ w[t].pc = "idle"
  /\ w' = [w EXCEPT ![t] = [NoOp EXCEPT !.pc = "delete", !.kind = "delete", !.name = name]]
  /\ UNCHANGED <<roles, verified, roleLock, cacheVars>>

\* An early return without the deferred unlock.
Fail_KeepsLock(t) ==
  /\ w[t].pc \in {"load", "config", "group", "perms", "version"}
  /\ w' = [w EXCEPT ![t] = NoOp]
  /\ UNCHANGED <<roles, verified, roleLock, cacheVars>>

\* The validation sees only what the request says.
Load_ValidatesRequest(t) ==
  LET existing == Decoded(roles[w[t].name])
      r == Merge(w[t].req, NoRole)
  IN  /\ w[t].pc = "load"
      /\ w' = [w EXCEPT ![t] =
                 IF Valid(w[t].name, [r EXCEPT !.group = "g"])
                   THEN [@ EXCEPT !.existing = existing, !.pc = "config"]
                   ELSE Over(@, "failed")]
      /\ UNCHANGED <<roles, verified, roleLock, cacheVars>>

-----------------------------------------------------------------------------
(* roleWrite and roleDelete *)

RoleWrite(t, name, req) ==
  /\ w[t].pc = "idle"
  /\ w' = [w EXCEPT ![t] =
             [NoOp EXCEPT !.pc = "lock", !.kind = "write", !.name = name, !.req = req]]
  /\ UNCHANGED <<roles, verified, roleLock, cacheVars>>

RoleDelete(t, name) ==
  /\ w[t].pc = "idle"
  /\ w' = [w EXCEPT ![t] = [NoOp EXCEPT !.pc = "lock", !.kind = "delete", !.name = name]]
  /\ UNCHANGED <<roles, verified, roleLock, cacheVars>>

Lock(t) ==
  /\ w[t].pc = "lock"
  /\ roleLock = Nobody
  /\ roleLock' = t
  /\ Goto(t, IF w[t].kind = "write" THEN "load" ELSE "delete")
  /\ UNCHANGED <<roles, verified, cacheVars>>

\* getRole, the merge and the validation of its result.
Load(t) ==
  LET existing == Decoded(roles[w[t].name])
      r == Merge(w[t].req, existing)
  IN  /\ w[t].pc = "load"
      /\ w' = [w EXCEPT ![t] =
                 IF Valid(w[t].name, r) THEN [@ EXCEPT !.existing = existing, !.pc = "config"]
                                        ELSE Over(@, "failed")]
      /\ UNCHANGED <<roles, verified, roleLock, cacheVars>>

\* A read of storage or an answer of PVE is an error that ends the handler: the
\* config is not there, the group does not exist, the build is another one.
Fail(t) ==
  /\ w[t].pc \in {"load", "config", "group", "perms", "version"}
  /\ End(t, "failed")
  /\ UNCHANGED <<roles, verified, roleLock, cacheVars>>

\* getConfig finds the config, and getClient begins.
LoadConfig(t) ==
  /\ w[t].pc = "config"
  /\ config.there
  /\ Goto(t, "client")
  /\ GetClientBegin(t)
  /\ UNCHANGED <<roles, verified, roleLock, config, acked, client, mu, cw>>

\* getClient has returned.
HaveClient(t) ==
  /\ w[t].pc = "client"
  /\ call[t].pc \in {"done", "failed"}
  /\ IF call[t].pc = "done" THEN Goto(t, "group") ELSE End(t, "failed")
  /\ call' = [call EXCEPT ![t] = NoCall]
  /\ UNCHANGED <<roles, verified, roleLock, config, acked, client, mu, cw>>

GetGroup(t) ==
  /\ w[t].pc = "group"
  /\ Goto(t, "perms")
  /\ UNCHANGED <<roles, verified, roleLock, cacheVars>>

RealmPath(t) == <<"access", "realm", New(t).realm>>
PerGroupPath(t) == <<"access", "groups", New(t).group>>

\* GetPermissions, and the two privileges that creating a user will need.
GetPermissions(t, tree) ==
  /\ w[t].pc = "perms"
  /\ IF /\ HasPrivilege(tree, RealmPath(t), "Realm.AllocateUser")
        /\ HasPrivilege(tree, PerGroupPath(t), "User.Modify")
       THEN w' = [w EXCEPT ![t] =
              [@ EXCEPT !.pc = IF OptingIn(w[t].existing, New(t)) THEN "version" ELSE "put",
                        !.granted = /\ Effective(tree, RealmPath(t), "Realm.AllocateUser")
                                    /\ Effective(tree, PerGroupPath(t), "User.Modify")]]
       ELSE End(t, "failed")
  /\ UNCHANGED <<roles, verified, roleLock, cacheVars>>

\* GetVersionInfo reports the verified build.
GetVersionInfo(t) ==
  /\ w[t].pc = "version"
  /\ w' = [w EXCEPT ![t] = [@ EXCEPT !.pc = "put", !.checked = TRUE]]
  /\ UNCHANGED <<roles, verified, roleLock, cacheVars>>

IsPassword(r) == r # NoRole /\ r.mode = "password"

\* The role as the handler leaves it, and the history that goes with it.
Write(t, stored) ==
  LET name == w[t].name IN
  /\ roles' = [roles EXCEPT ![name] = stored]
  /\ verified' = [verified EXCEPT ![name] =
        IsPassword(stored) => w[t].checked \/ (IsPassword(roles[name]) /\ @)]

\* Put and Delete: what they wrote is there, whether they answer so ("done") or
\* with an error ("lost"); or they fail without effect.
Put(t, answer) ==
  /\ w[t].pc = "put"
  /\ Write(t, New(t))
  /\ End(t, answer)
  /\ UNCHANGED <<roleLock, cacheVars>>

Delete(t, answer) ==
  /\ w[t].pc = "delete"
  /\ Write(t, NoRole)
  /\ End(t, answer)
  /\ UNCHANGED <<roleLock, cacheVars>>

StoreErr(t) ==
  /\ w[t].pc \in {"put", "delete"}
  /\ End(t, "failed")
  /\ UNCHANGED <<roles, verified, roleLock, cacheVars>>

\* The deferred unlock, and the answer.
Return(t) ==
  /\ w[t].pc \in {"done", "lost", "failed"}
  /\ roleLock' = Nobody
  /\ w' = [w EXCEPT ![t] = NoOp]
  /\ UNCHANGED <<roles, verified, cacheVars>>

-----------------------------------------------------------------------------
RoleStep(t) ==
  \/ Load(t) \/ Fail(t) \/ LoadConfig(t) \/ HaveClient(t) \/ GetGroup(t)
  \/ \E tree \in Trees : GetPermissions(t, tree)
  \/ GetVersionInfo(t)
  \/ \E answer \in {"done", "lost"} : Put(t, answer) \/ Delete(t, answer)
  \/ StoreErr(t) \/ Return(t)

Next ==
  \/ \E t \in Threads :
       \/ \E name \in Names, req \in Requests : RoleWrite(t, name, req)
       \/ \E name \in Names : RoleDelete(t, name)
       \/ Lock(t)
       \/ RoleStep(t)
  \/ CacheNext /\ UNCHANGED storeVars

Spec == Init /\ [][Next]_vars

\* As for the client cache.  sync.Mutex hands roleLock to a waiter that has
\* starved for a millisecond, so a lock that is freed again and again is had.
Fairness ==
  /\ \A t \in Threads : SF_vars(Lock(t)) /\ WF_vars(RoleStep(t))
  /\ \A t \in Callers : SF_vars(GetClient(t) /\ UNCHANGED storeVars)
  /\ \A c \in Operators : SF_vars(ConfigStep(c) /\ UNCHANGED storeVars)

FairSpec == Spec /\ Fairness

-----------------------------------------------------------------------------
(* Properties *)

(***************************************************************************)
(* Every stored role can issue credentials: no merge of an old role with a *)
(* partial request, each acceptable alone, leaves a userid PVE refuses, a  *)
(* password outside its realm or a TTL above the role's maximum.           *)
(***************************************************************************)
StoredRoleUsable == \A n \in Names : roles[n] # NoRole => Usable(n, roles[n])

(***************************************************************************)
(* A password role got its mode on the verified build, or had it before:   *)
(* no sequence of writes and deletes turns a role into a password role     *)
(* past the gate of path_roles.go.                                         *)
(***************************************************************************)
PasswordOptInGated == \A n \in Names : IsPassword(roles[n]) => verified[n]

(***************************************************************************)
(* The walk up the permission tree accepts a write only if the tree grants *)
(* the privileges that creating a user of the role will need, and a config *)
(* only if it grants those of the engine.                                  *)
(***************************************************************************)
PrivilegesGranted ==
  /\ \A t \in Threads : w[t].pc \in {"version", "put"} => w[t].granted
  /\ \A c \in Operators : cw[c].pc = "put" => cw[c].granted

(***************************************************************************)
(* Every role write and delete is answered: no early return keeps          *)
(* roleLock, nobody waits forever for it, and holding it while waiting for *)
(* clientMu and for PVE blocks nobody for good.                            *)
(***************************************************************************)
CallsReturn == \A t \in Threads : w[t].pc # "idle" ~> w[t].pc = "idle"

(***************************************************************************)
(* The contract of the role store, with the instant of Put and Delete as   *)
(* the instant at which an operation takes effect.                         *)
(***************************************************************************)
OpOf(t) ==
  LET st == IF w[t].pc = "idle" THEN "idle"
            ELSE IF w[t].pc \in {"done", "lost", "failed"} THEN "answer" ELSE "asked"
  IN  [st |-> st, kind |-> w[t].kind, name |-> w[t].name, req |-> w[t].req,
       ok |-> w[t].pc = "done"]

Contract == INSTANCE RoleContract WITH op <- [t \in Threads |-> OpOf(t)]

(***************************************************************************)
(* Writes and deletes of a role are linearizable: no update is lost, no    *)
(* deleted role comes back with its old fields, a success is never empty   *)
(* and an error is never half done.                                        *)
(***************************************************************************)
Linearizable == Contract!ContractSpec

\* An operation in flight: roleLock is held where the code holds it, the loaded
\* role is the stored one, and a password opted into has passed the gate.
OpInv(t) ==
  /\ w[t].pc = "idle" => w[t] = NoOp
  /\ w[t].pc # "idle" => w[t].name \in Names
  /\ w[t].pc = "lock" => w[t].kind \in {"write", "delete"}
  /\ w[t].pc \in {"load"} \cup Merged => w[t].kind = "write"
  /\ w[t].pc = "delete" => w[t].kind = "delete"
  /\ w[t].pc \in Held <=> roleLock = t
  /\ w[t].pc # "client" => call[t].pc = "idle"
  /\ w[t].pc \in Merged => /\ w[t].existing = Decoded(roles[w[t].name])
                           /\ Valid(w[t].name, New(t))
  /\ w[t].pc = "put" /\ OptingIn(w[t].existing, New(t)) => w[t].checked

\* The inductive invariant.
RoleInv ==
  /\ CacheInv
  /\ RoleTypeOK
  /\ \A t \in Threads : OpInv(t)
  /\ StoredRoleUsable
  /\ PasswordOptInGated
=============================================================================
