---------------------------- MODULE LeaseRenewal ----------------------------
(***************************************************************************)
(* One lease, its user in PVE and the renewals of it: secretTokenRenew     *)
(* (secret_token.go), one action per call to PVE, with the durations of    *)
(* path_creds.go and LeaseTTL, and the clock they are measured on.         *)
(*                                                                         *)
(* The user carries an expiry of its own, the backstop: it neutralises the *)
(* credential when revocation does not come.  Vault keeps the end of the   *)
(* lease and, as the engine's internal data, the expiry it believes the    *)
(* user to have.  The two are written by different calls, which take time, *)
(* may fail in between, and may overlap with those of another renewal.     *)
(***************************************************************************)
EXTENDS LeaseTTL, FiniteSets

CONSTANTS
  Renewals,     \* renewals that may be in flight at the same time
  Groups,       \* PVE groups
  Roles,        \* what the role may be when it is read: [ttl, max, group]
  Configs,      \* what the config may be when it is read: [ttl, max]
  Systems,      \* the mount's lease settings: [default, max]
  Increments,   \* increments a renewal may ask for, 0 for none
  NoRole,       \* the role was deleted, or the lease is too old to name it
  Grace,        \* expireGraceSecs
  CallTimeout,  \* the longest a call to PVE may take
  IssueDelay,   \* the longest handleCredsRead may take after computing expire
  MaxTime,      \* bound: the last instant of a behaviour
  MaxLate       \* bound: UpdateUser calls that PVE has still to execute

ASSUME DurationAssumption ==
  /\ Grace \in Nat /\ CallTimeout \in Nat /\ IssueDelay \in Nat
  /\ MaxTime \in Nat /\ MaxLate \in Nat
  /\ Increments \subseteq Nat
ASSUME SettingAssumption ==
  /\ Roles \subseteq [ttl : Nat, max : Nat, group : Groups]
  /\ Configs \subseteq [ttl : Nat, max : Nat]
  /\ Systems \subseteq [default : Nat \ {0}, max : Nat \ {0}]
  /\ NoRole \notin Roles
  /\ Groups # {}

VARIABLES
  now,    \* the time
  sys,    \* Vault: the settings of the mount
  lease,  \* Vault: the lease, with its internal data
  user,   \* PVE: the user of the lease
  ren,    \* the renewals in flight
  late,   \* PVE: expiries of UpdateUser calls still to be executed or dropped
  torn    \* ghost: has a renewal failed half-way, or overlapped, since the
          \* last one that ran alone and completed?

vars == <<now, sys, lease, user, ren, late, torn>>

-----------------------------------------------------------------------------
(* State *)

Leases == [st : {"none", "active", "revoked"},
           group : Groups,     \* InternalData["group"]
           max : Nat,          \* InternalData["effective_max_ttl"]
           expire : Nat,       \* InternalData["expire"]
           ttl : Nat,          \* Secret.TTL
           issue : Nat,        \* Secret.IssueTime
           end : Nat,          \* Vault's ExpireTime of the lease
           ceiling : Nat]      \* ghost: the least limit set at issuance

UserRecs == [st : {"none", "present", "gone"},
             enabled : BOOLEAN,
             groups : SUBSET Groups,
             expire : Nat]

\* "get": before the pre-update GetUser; "put": before UpdateUser; "check":
\* before the read-back.
RenewalRecs == [pc : {"idle", "get", "put", "check"},
                ttl : Nat, expire : Nat,
                spent : Nat,       \* time the current call has taken
                alone : BOOLEAN]   \* ghost: has no other been in flight with it?

NoRenewal == [pc |-> "idle", ttl |-> 0, expire |-> 0, spent |-> 0, alone |-> TRUE]

TypeOK ==
  /\ now \in 0 .. MaxTime
  /\ sys \in Systems
  /\ lease \in Leases
  /\ user \in UserRecs
  /\ ren \in [Renewals -> RenewalRecs]
  /\ \A r \in Renewals : ren[r].spent <= CallTimeout
  /\ late \subseteq Nat
  /\ torn \in BOOLEAN

InFlight(r) == ren[r].pc # "idle"
Quiet == late = {} /\ \A r \in Renewals : ~InFlight(r)

Init ==
  /\ now = 0
  /\ sys \in Systems
  /\ lease = [st |-> "none", group |-> CHOOSE g \in Groups : TRUE, max |-> 0,
              expire |-> 0, ttl |-> 0, issue |-> 0, end |-> 0, ceiling |-> 0]
  /\ user = [st |-> "none", enabled |-> FALSE, groups |-> {}, expire |-> 0]
  /\ ren = [r \in Renewals |-> NoRenewal]
  /\ late = {}
  /\ torn = FALSE

-----------------------------------------------------------------------------
\* PUT /access/users/{userid} with enable=1 and append=1: the group joins those
\* the user has.  UpdateUserRequest.Validate has let it pass.
UpdateUser(expire, group) ==
  user' = [user EXCEPT !.expire = expire,
                       !.enabled = TRUE,
                       !.groups = @ \cup {group}]

\* UpdateUserRequest.Validate: a request that would lift the backstop or wipe
\* the groups never leaves the process; enable and append are always sent.
Validate(expire) == expire > 0

End(r) == ren' = [ren EXCEPT ![r] = NoRenewal]
Goto(r, step) == ren' = [ren EXCEPT ![r] = [@ EXCEPT !.pc = step, !.spent = 0]]

-----------------------------------------------------------------------------
(* Mutations *)

\* The time a renewal grants is counted from the renewal, not from the issue.
Granted_FromNow(increment, backendTTL) ==
  CalculateTTL(sys, increment, backendTTL, lease.max, now, now)

\* A disabled user is renewed all the same.
RenewGetUserOk_IgnoresEnable(r) ==
  /\ ren[r].pc = "get"
  /\ user.st = "present"
  /\ Goto(r, "put")
  /\ UNCHANGED <<now, sys, lease, user, late, torn>>

\* The group of the role as it is now, not as it was at issuance.
RenewUpdateUserOk_RoleGroup(r) ==
  /\ ren[r].pc = "put"
  /\ user.st = "present"
  /\ \E role \in Roles : UpdateUser(ren[r].expire, role.group)
  /\ Goto(r, "check")
  /\ UNCHANGED <<now, sys, lease, late, torn>>

\* The recorded expiry is not rewritten (step 8 is missing).
RenewReadBackOk_NoRewrite(r) ==
  LET ttl == CalculateTTL(sys, 0, ren[r].ttl, lease.max, lease.issue, now) IN
  /\ ren[r].pc = "check"
  /\ user.st = "present" /\ lease.group \in user.groups
  /\ lease.st = "active" /\ ttl > 0
  /\ lease' = [lease EXCEPT !.ttl = ttl, !.end = now + ttl]
  /\ torn' = ~ren[r].alone
  /\ End(r)
  /\ UNCHANGED <<now, sys, user, late>>

-----------------------------------------------------------------------------
(* Issuance, seen from the lease: CredentialLifecycle has its calls. *)

\* handleCredsRead computes the expiry, then makes its calls, and Vault starts
\* the lease when the answer is there.
Issue(role, cfg, delay) ==
  LET t == ttls(role, cfg)
      ttl == CalculateTTL(sys, 0, t.ttl, t.max, now, now)
  IN
  /\ lease.st = "none"
  /\ ttl > 0
  /\ delay <= IssueDelay /\ now + delay <= MaxTime
  /\ now' = now + delay
  /\ user' = [st |-> "present", enabled |-> TRUE, groups |-> {role.group},
              expire |-> now + ttl + Grace]
  /\ lease' = [st |-> "active", group |-> role.group,
               max |-> cappedMaxTTL(t.max, sys.max),
               expire |-> now + ttl + Grace, ttl |-> ttl,
               issue |-> now + delay, end |-> now + delay + ttl,
               ceiling |-> Ceiling(role, cfg, sys)]
  /\ UNCHANGED <<sys, ren, late, torn>>

-----------------------------------------------------------------------------
(* secretTokenRenew *)

\* What CalculateTTL grants: never past IssueTime + effective_max_ttl.
Granted(increment, backendTTL) ==
  CalculateTTL(sys, increment, backendTTL, lease.max, lease.issue, now)

NewExpire(ttl) == now + ttl + Grace

\* Up to the first call: the internal data, the role's TTL or else the lease's
\* own, and the new expiry.  Without a config, without a client, or when no
\* time is left, the renewal ends here and nothing has changed.
RenewStart(r, role, cfg, increment) ==
  LET backendTTL == IF role = NoRole THEN lease.ttl ELSE ttls(role, cfg).ttl
      ttl == Granted(increment, backendTTL)
  IN
  /\ ~InFlight(r)
  /\ lease.st = "active" /\ now < lease.end
  /\ ttl > 0
  /\ ren' = [q \in Renewals |->
               IF q = r
               THEN [pc |-> "get", ttl |-> ttl, expire |-> NewExpire(ttl),
                     spent |-> 0, alone |-> Quiet]
               ELSE [ren[q] EXCEPT !.alone = @ /\ ~InFlight(q)]]
  /\ UNCHANGED <<now, sys, lease, user, late, torn>>

RenewGetUserOk(r) ==
  /\ ren[r].pc = "get"
  /\ user.st = "present" /\ user.enabled
  /\ Goto(r, "put")
  /\ UNCHANGED <<now, sys, lease, user, late, torn>>

\* The user is disabled or gone, or the call fails: nothing has changed.
RenewGetUserErr(r) ==
  /\ ren[r].pc = "get"
  /\ End(r)
  /\ UNCHANGED <<now, sys, lease, user, late, torn>>

RenewUpdateUserOk(r) ==
  /\ ren[r].pc = "put"
  /\ user.st = "present"
  /\ Validate(ren[r].expire)
  /\ UpdateUser(ren[r].expire, lease.group)
  /\ Goto(r, "check")
  /\ UNCHANGED <<now, sys, lease, late, torn>>

\* An error answer does not tell whether PVE has executed the call.
RenewUpdateUserErr(r) ==
  /\ ren[r].pc = "put"
  /\ \/ user' = user /\ torn' = torn
     \/ /\ user.st = "present"
        /\ Validate(ren[r].expire)
        /\ UpdateUser(ren[r].expire, lease.group)
        /\ torn' = TRUE
  /\ End(r)
  /\ UNCHANGED <<now, sys, lease, late>>

\* The caller has given up; PVE may execute the call later.
RenewUpdateUserTimeout(r) ==
  /\ ren[r].pc = "put"
  /\ Validate(ren[r].expire)
  /\ Cardinality(late) < MaxLate
  /\ late' = late \cup {ren[r].expire}
  /\ torn' = TRUE
  /\ End(r)
  /\ UNCHANGED <<now, sys, lease, user>>

\* The group survived the update: the expiry is recorded, and Vault, which
\* grants the time once more with the clock it has by now, extends the lease.
RenewReadBackOk(r) ==
  LET ttl == CalculateTTL(sys, 0, ren[r].ttl, lease.max, lease.issue, now) IN
  /\ ren[r].pc = "check"
  /\ user.st = "present" /\ lease.group \in user.groups
  /\ lease.st = "active" /\ ttl > 0
  /\ lease' = [lease EXCEPT !.ttl = ttl, !.end = now + ttl, !.expire = ren[r].expire]
  /\ torn' = ~ren[r].alone
  /\ End(r)
  /\ UNCHANGED <<now, sys, user, late>>

\* GetUser fails, the group is missing, or the lease is over: the update stands,
\* the lease is not extended and its recorded expiry is that of before.
RenewReadBackErr(r) ==
  /\ ren[r].pc = "check"
  /\ torn' = TRUE
  /\ End(r)
  /\ UNCHANGED <<now, sys, lease, user, late>>

-----------------------------------------------------------------------------
(* secretTokenRevoke, at the end of the lease or before; Vault retries it. *)

RevokeOk ==
  /\ lease.st = "active"
  /\ lease' = [lease EXCEPT !.st = "revoked"]
  /\ user' = [user EXCEPT !.st = "gone"]
  /\ UNCHANGED <<now, sys, ren, late, torn>>

RevokeErr ==
  /\ lease.st = "active" /\ user.st = "present"
  /\ user' = [user EXCEPT !.st = "gone"]
  /\ UNCHANGED <<now, sys, lease, ren, late, torn>>

-----------------------------------------------------------------------------
(* The environment: PVE, operators, the clock *)

LateUpdate(expire) ==
  /\ expire \in late
  /\ \/ user.st = "present" /\ UpdateUser(expire, lease.group)
     \/ user' = user
  /\ late' = late \ {expire}
  /\ UNCHANGED <<now, sys, lease, ren, torn>>

\* An operator contains a suspected user, or changes its groups by hand.
OperatorDisable ==
  /\ user.st = "present" /\ user.enabled
  /\ user' = [user EXCEPT !.enabled = FALSE]
  /\ UNCHANGED <<now, sys, lease, ren, late, torn>>

OperatorUngroup ==
  /\ user.st = "present" /\ user.groups # {}
  /\ user' = [user EXCEPT !.groups = {}]
  /\ UNCHANGED <<now, sys, lease, ren, late, torn>>

\* Time passes, but not past the deadline of a call.  The clock is of no
\* interest before the lease and after its revocation.
Tick ==
  /\ lease.st = "active"
  /\ now < MaxTime
  /\ \A r \in Renewals : InFlight(r) => ren[r].spent < CallTimeout
  /\ now' = now + 1
  /\ ren' = [r \in Renewals |->
               IF InFlight(r) THEN [ren[r] EXCEPT !.spent = @ + 1] ELSE ren[r]]
  /\ UNCHANGED <<sys, lease, user, late, torn>>

-----------------------------------------------------------------------------
Renew(r) ==
  \/ \E role \in Roles \cup {NoRole}, cfg \in Configs, increment \in Increments :
       RenewStart(r, role, cfg, increment)
  \/ RenewGetUserOk(r)
  \/ RenewGetUserErr(r)
  \/ RenewUpdateUserOk(r)
  \/ RenewUpdateUserErr(r)
  \/ RenewUpdateUserTimeout(r)
  \/ RenewReadBackOk(r)
  \/ RenewReadBackErr(r)

Next ==
  \/ \E role \in Roles, cfg \in Configs, delay \in 0 .. IssueDelay :
       Issue(role, cfg, delay)
  \/ \E r \in Renewals : Renew(r)
  \/ RevokeOk
  \/ RevokeErr
  \/ \E expire \in late : LateUpdate(expire)
  \/ OperatorDisable
  \/ OperatorUngroup
  \/ Tick

Spec == Init /\ [][Next]_vars

-----------------------------------------------------------------------------
(* Safety *)

\* No chain of renewals, with whatever increments and whatever has become of
\* the role and the config, lets the credential live on past the ceiling that
\* was in force when it was issued: the lease ends by then, and PVE refuses the
\* user a grace period later.  The backstop is never "no expiry" (expire=0).
BackstopWithinCeiling ==
  lease.st # "none" =>
    /\ lease.end <= lease.issue + lease.ceiling
    /\ user.expire \in 1 .. lease.issue + lease.ceiling + Grace

\* The grace covers the calls made between computing an expiry and answering.
GraceSuffices == 3 * CallTimeout <= Grace /\ IssueDelay <= Grace

\* The renewal's read-back and the rewrite of expire in the internal data keep
\* the lease's picture of the backstop true, and the backstop behind the end of
\* the lease, as long as renewals neither fail after UpdateUser nor overlap;
\* and the next renewal that runs alone to its end repairs what those left.
BackstopFollowsLease ==
  (/\ lease.st = "active" /\ user.st = "present" /\ ~torn
   /\ \A r \in Renewals : ren[r].pc # "check")
  => /\ user.expire = lease.expire
     /\ GraceSuffices => lease.end <= user.expire

\* The comment on expireGraceSecs: "The grace period ensures the PVE credential
\* remains valid for the full Vault-issued TTL".
BackstopOutlivesLease ==
  (lease.st = "active" /\ user.st = "present" /\ Quiet) => lease.end <= user.expire

\* A renewal never gives the user a privilege its lease was not issued with,
\* although the role may by now name another group.
PrivilegesFrozen == user.groups \subseteq {lease.group}

\* The user is disabled and nothing that was begun before can enable it again.
Contained ==
  \/ user.st = "gone"
  \/ /\ user.st = "present" /\ ~user.enabled
     /\ late = {}
     /\ \A r \in Renewals : ren[r].pc # "put"

\* A user that an operator has disabled stays disabled, for all renewals to
\* come: what the documented race between GetUser and UpdateUser leaves open
\* are the renewals already past their GetUser, and no other.
ContainmentHolds == [][Contained => Contained']_vars

-----------------------------------------------------------------------------
(* The inductive invariant *)

\* A renewal in flight has computed an expiry within the ceiling, at most as
\* many call times ago as it has made calls.
CallTime(step) == IF step = "check" THEN 2 * CallTimeout
                  ELSE IF step = "put" THEN CallTimeout ELSE 0
RenewalsBounded ==
  \A r \in Renewals : InFlight(r) =>
    /\ lease.st # "none"
    /\ ren[r].ttl > 0
    /\ ren[r].expire \in 1 .. lease.issue + lease.max + Grace
    /\ now + ren[r].ttl + Grace
         <= ren[r].expire + CallTime(ren[r].pc) + ren[r].spent

LeaseBounded ==
  /\ lease.st = "none" => user.st = "none"
  /\ lease.st = "revoked" => user.st = "gone"
  /\ lease.st # "none" =>
       /\ user.st # "none"
       /\ lease.max = lease.ceiling /\ lease.max \in 1 .. sys.max
       /\ lease.issue <= now
       /\ lease.end <= lease.issue + lease.max
       /\ user.expire \in 1 .. lease.issue + lease.max + Grace
       /\ GraceSuffices => lease.end <= lease.expire
  /\ \A e \in late : e \in 1 .. lease.issue + lease.max + Grace
  /\ late # {} => lease.st # "none"

\* A renewal that is alone has nothing beside it.
AloneIsAlone ==
  \A r \in Renewals : InFlight(r) /\ ren[r].alone =>
    late = {} /\ \A q \in Renewals : q # r => ~InFlight(q)

\* What the lease records is what the user has, unless a renewal is to blame.
InStep ==
  user.st = "present" =>
    /\ \A r \in Renewals : ren[r].pc = "check" /\ ren[r].alone => user.expire = ren[r].expire
    /\ lease.st = "active" /\ ~torn =>
         /\ late = {}
         /\ (\A r \in Renewals : ren[r].pc # "check") => user.expire = lease.expire

LeaseInv ==
  /\ TypeOK
  /\ LeaseBounded
  /\ RenewalsBounded
  /\ AloneIsAlone
  /\ InStep
  /\ PrivilegesFrozen

=============================================================================
