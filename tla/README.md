# A TLA+ verification project for the Proxmox VE secrets engine

The repository is a Vault secrets engine (a Go plugin) that creates short-lived
Proxmox VE (PVE) users on demand. A read of `creds/:role` creates a PVE user in
the role's group, with an API token or a password, and returns it under a lease;
the end of the lease deletes the user. The engine authenticates to PVE with a
*provisioner token* that it can rotate itself.

What makes this hard is that every operation is a sequence of calls to two
systems that share no transaction: Vault's storage and PVE. Each call can fail,
can take effect while its answer is lost, or can be executed after its caller has
given up, and the process can die between any two of them. The models here are
about exactly that.

Run a model with `tlc -workers 2 -config X.cfg M` and a proof module with
`tlapm M.tla`, both in this directory.

## 1. The system

| Part | Code | State it keeps | Operations |
|---|---|---|---|
| Credential issuance | `path_creds.go` | a WAL entry `walUser` while it runs | `handleCredsRead`, `cleanupUser` |
| User rollback | `wal.go` | the WAL entries of kind `walTypeUser` | `walRollbackUser`, called by the framework's rollback manager for entries older than `WALRollbackMinAge` (5 min) |
| Lease revocation | `secret_token.go`, `secret_password.go` | the lease (Vault) | `secretTokenRevoke` |
| Lease renewal | `secret_token.go` | `expire` in the lease and in PVE | `secretTokenRenew` |
| Root rotation | `path_rotate_root.go` | rotation state, a WAL entry `walRotation` | `rotateRoot`, `validateReplacement` |
| Guarded recovery | `path_rotate_root.go` | the same | `rotationStatus`, `recoverRotation` |
| Rotation rollback | `wal.go` | the same | `walRollbackRotation`, `recoverRotationToken`, `dropMalformedRotationWAL` |
| Engine config | `path_config.go` | the config | `configWrite`, `configRead`, `configDelete` |
| Client cache | `backend.go` | `client`, under `clientMu` | `getClient`, `invalidate` |
| Role store | `path_roles.go` | the roles, under `roleLock` | `roleWrite`, `roleRead`, `roleList`, `roleDelete`, TTL rules |
| PVE client | `internal/pveapi` | none | HTTP calls, `classifyPVEError`, `HasPrivilege` |
| Names and passwords | `userid.go`, `password.go` | none | `buildUserID`, `randomSuffix`, length budget |

How they interact:

- Issuance, rollback, cleanup and revocation meet in PVE's user table and in the
  WAL. They share no lock; what keeps them apart is the order of their calls, the
  age limit on WAL entries and the nonce in a user's comment.
- Rotation, guarded recovery and rotation rollback run under `rotationLock`. They
  meet in the stored config, the rotation state, the WAL and PVE's token table.
- `configWrite` and `configDelete` store the same config *without* that lock.
- Everything reaches PVE through `getClient`, whose client is cached until
  `invalidate`.

What must hold:

- *Issuance, rollback, revocation*: no user of the engine is ever left without
  something that will delete it; no credential in use is deleted under its
  lease; no account of anybody else is touched; what is begun ends.
- *Rotation*: the config always names a token that exists; no token is lost
  sight of; the active token is never deleted; a rotation that was begun ends.
- *Client cache*: a request never gets a client older than the config that was
  acknowledged before it began.
- *Renewal*: no chain of renewals outlives the ceiling of the issuance; PVE's
  `expire` is what the lease records and not before the lease's end; a user that
  an operator disabled is not enabled again; zero means unset and never unlimited.
- *Roles*: no lost update; a stored role can issue credentials, which takes in the
  length of a userid; a password role has passed the build gate; a privilege
  counts at an ancestor only if it propagates.
- *Error classification*: an error is taken for "no such user" or "already
  exists" only if PVE has said so.

`PROJECT.json` lists every part with its status, the hazards at the lines where
they bite, and the lines of code each definition stands for.

## 2. Modules

| Module | Role |
|---|---|
| `CredentialLifecycle` | issuance, cleanup, revocation, user rollback, crashes |
| `CredentialContract` | the abstract specification of what issuance promises of each account, which `CredentialLifecycle` implements |
| `PVEErrors` | the error answers of PVE and `classifyPVEError`, which `CredentialLifecycle` acts on |
| `IssuanceTiming` | `CredentialLifecycle` on a clock, with the rollback started by the age of an entry |
| `RootRotation` | rotation, guarded recovery, rotation rollback, config changes, an atomic client cache |
| `LeaseTTL` | `ttls`, `cappedMaxTTL` and the framework's `CalculateTTL`, as operators |
| `LeaseRenewal` | renewal and the backstop expiry of the user, with a clock |
| `Permissions` | `HasPrivilege` and what it is to compute |
| `ClientCache` | `getClient` with its locks, `configWrite`, `configDelete`, `invalidate` |
| `RoleRules` | merge, validation and userid of a role, as operators |
| `RoleStore` | `roleWrite` and `roleDelete`, composed with `ClientCache` |
| `RoleContract` | the abstract specification of the role store, which `RoleStore` implements |
| `MCCredentialLifecycle`, `MCIssuanceTiming`, `MCRootRotation`, `MCLeaseRenewal`, `MCClientCache`, `MCRoleStore` | the instances for TLC |
| `CredentialProofs`, `TimingProofs`, `ContractProofs`, `RotationProofs`, `LeaseProofs`, `CacheProofs`, `PermissionProofs`, `RoleProofs` | the theorems |

`CredentialLifecycle` extends `PVEErrors` and maps its state to `CredentialContract`
(`INSTANCE ... WITH`); `IssuanceTiming` extends
`CredentialLifecycle` and implements it; `LeaseRenewal` extends `LeaseTTL`;
`ClientCache` extends `Permissions`; `RoleStore` extends `ClientCache` and
`RoleRules`, runs the two side by side and maps its state to `RoleContract`.

In every module a step is one call that leaves the process, with the local
computation around it. Payloads are reduced to what the properties tell apart.

### CredentialLifecycle

| Variable | Stands for |
|---|---|
| `users` | PVE's user table. `st` tells a userid never used, present, deleted by the engine, or removed by an operator; `comment`, `inGroup`, `token` are what PVE stores. `owner` is a ghost: the attempt that really created the user |
| `late` | `CreateUser` calls that PVE may still execute although their caller has given up |
| `wal` | the WAL entries: id, userid and nonce |
| `config` | whether there is a config, so that `getClient` can succeed |
| `pc`, `attempt`, `userid`, `mode` | the local state of each handler, and what its lease carries |
| `rb` | the rollback in progress (the framework runs one at a time) |
| `crashes` | counts crashes against the bound |

The actions follow the code call by call. `PutWALOk` comes before `CreateUser`;
a `PutWAL` that fails may have written its entry (`PutWALErr`).
`CreateUserConflict` leads to the deletion of the entry and another attempt, up
to `MaxCollisionRetries`; any other failure of `CreateUser` leaves the entry.
`ReadBackOk` needs the group, and in password mode the comment. `CreateTokenOk`
is for token mode. `IssueDeleteWALOk` comes before the response.
`IssueDeleteWALErr`, after which the entry may be there or gone, leads to the
best-effort `LastDelete`; if that fails and the entry is gone, the read ends
`stranded`, with a user that nothing will delete. `cleanupUser` keeps
the entry unless its deletion was successful. `RevokeErr` is the revocation whose
answer is lost; a call that fails without effect is a stuttering step.

What an error means to a handler is decided by `classifyPVEError` on the answer.
PVE's own answers are `UserExists` and `NoSuchUser`; every other error is a member
of `Faults`. `FaultsAssumption` says that a proxy's error page may contain any
phrase under any status but 400 and 500, and that PVE does not put one of these two
phrases in its message when it means something else. `DeleteUser` takes a
classified "no such user" for success, `CreateUser` a classified conflict for a
collision, and the rollback a classified absence for leave to drop its entry: the
safety of issuance therefore rests on the classification being no wider than it is.

Choices to know of:

- *Nonces and WAL ids are unique.* Both are named by the attempt. A nonce has 40
  random bits and a WAL id is a UUID.
- *A userid may repeat* where `UseridReuse` is TRUE. The 40-bit suffix makes
  this improbable; `CredentialInv` does not rest on it, `IssuanceInv` does.
- *`Aged`* is how the model puts `WALRollbackMinAge`: an entry is rolled back
  only if no handler relies on it and PVE has come to an end with its
  `CreateUser`. Mutating it (`Aged_TooSoon`) breaks `IssuedCredentialIntact`: the
  engine's safety rests on it. `IssuanceTiming` derives it.
- *`lost` and `stranded`* are the two outcomes that may leave a user in nobody's
  hands until its PVE expiry. `lost` is a response that was lost in a crash after
  `DeleteWAL`, which the code accepts. `stranded` is a `DeleteWAL` that took effect
  with an error, followed by a `DeleteUser` that failed or, in a crash, was never
  made; the code says that this does not happen (disagreement 1). `NeverOrphaned`
  makes these two its only exceptions. A read is `stranded` only where its entry is
  really gone: with the entry in place the same errors end it `failed`, and the
  rollback sweeps its user.
- *A storage call may fail with effect*: `PutWAL` and each of the handlers'
  `DeleteWAL` (`DeleteWALErr`). It is not executed after its caller has gone on. The
  framework's own `DeleteWAL` after a rollback leaves the same state whether its
  error was lost or not (`RollbackDropErr`).
- *A dropped comment* makes a user unprovable: token mode goes on, with a warning,
  and such a user is out of `NeverOrphaned`. Password mode refuses it. That an
  operator edits a comment later, which `wal.go` warns against, is left out.
- *Foreign accounts have an empty comment*, the worst case for the test of an
  empty nonce in `walRollbackUser`. `Init` may contain a legacy entry that names
  one of them with no nonce.
- A `DeleteUser` takes effect before its caller learns of the failure, or not at
  all; only creations are executed late.

### CredentialContract

The contract has no WAL, no handler and no rollback. For each attempt it knows who is
to delete the account it may make (`duty`) and what PVE has made of it (`account`):

| `duty` | in `CredentialLifecycle` (`DutyOf`) |
|---|---|
| `none` | the attempt has not begun |
| `wal` | the WAL has an entry of it |
| `offered` | no entry, and the response is on its way to Vault |
| `lease`, `ending` | Vault has the lease; it is being revoked |
| `recalled` | no entry, although `DeleteWAL` was answered with an error: the handler is about to delete the account |
| `lost` | no entry, and a crash has lost the response, or the handler could not delete the account |
| `done` | nobody, as there is nothing left to delete |

`account` is read off PVE's user table, `late` and the handler (`AccountOf`): `none`
before the attempt, `asked` while PVE may still execute its `CreateUser`, `refused`
when it never will, `proved` or `blank` for a user that is there with or without the
comment that proves whose it is, `deleted` by the engine or `removed` by an operator.
The contract's steps say who may do what: an account is made only while the WAL has
the duty; the WAL gives it up only to the response, to the handler that takes the
credential back (`Recall`), or when nothing is there that it could delete; a deletion
is for the WAL, for that handler or for a lease that has ended; a duty is lost only by
that handler's failing `DeleteUser` (`Abandon`) or in a crash (`Die`); a read opens
another attempt only when its earlier ones have come to nothing. The mapping names an
account by its userid, so the contract needs that no suffix is drawn twice
(`~UseridReuse`).

### IssuanceTiming

`age` is the time since the `PutWAL` of each attempt, up to `MinAge`; `spent` is the
time a handler's current step has taken. `SweepStart` replaces `RollbackStart`: it
looks at nothing but the age, as the framework does. The clock (`Tick`) waits for a
step that has used up `StepLimit` and for PVE when an entry with a late `CreateUser`
has reached `PVELimit`. Because ages saturate, no bound on time is needed.
`StepLimit` stands for the HTTP timeout of 30 s and whatever storage adds to a step;
storage calls have no timeout in this code, so that they return is an assumption, and
so is `PVELimit`. `MinAgeSuffices` says what is needed of the three numbers: at most
five steps follow a `PutWAL`, since a collision writes a new entry, so 5 minutes are
enough for steps of less than a minute.

### RootRotation

| Variable | Stands for |
|---|---|
| `tok` | what has become of each token id in PVE; a live token is the `engine`'s or the `operator`'s to account for |
| `late` | `CreateToken` calls that PVE may still execute |
| `config` | the token id in the stored config |
| `rot` | the rotation state in storage: old token, new token, phase |
| `wal` | the rotation WAL entries |
| `cache` | the token of the cached client |
| `op` | the operation that holds `rotationLock`, with its client and its target |
| `cw` | the `configWrite` or `configDelete` in progress |
| `sweep` | entries whose rollback returned nil, still to be deleted by the framework |
| `faults` | counts errors, lost answers and crashes against the bound |

`rotateRoot` is `RotateStart` to `RotatePutPhase` and then the shared deletion
steps (`DeleteTokenOk`, `ConfirmDeleted`, `DeleteRotationWAL`,
`DeleteRotationState`). `recoverRotation` is `RecoverStart` and
`walRollbackRotation` is `RollbackStart` or `RollbackNothing`, both going on with
`TokenExists` and the same steps. A call with a client whose token is gone is
answered 401 (`Authenticated`), which matters when a client deletes the token it
authenticates with.

Choices to know of:

- *`Overlap`*: with FALSE, a rotation or a recovery starts only when no config
  change is under way. The documented runbook forbids a config change while
  rotation state is present (`Quiet`); it says nothing of one that was begun
  before. TRUE allows that.
- *`AmbiguousConfigPut`*: whether storing the config may fail and still take
  effect, as a replicated storage may have it.
- *Operators follow the runbook*: guarded recovery is asked for when
  `rotationStatus` says `recovery-required` (`RecoveryAdvised`). A status that is
  due to age alone implies that PVE is done with the `CreateToken`, as in `Aged`.
- The legacy phases (`config-persisted`, `in-progress`) are left out, and so is
  `dropMalformedRotationWAL`: `rotateRoot` splits both token ids before it writes
  its entry, so no entry that this code writes is malformed.
- A `DeleteToken` is not executed late.
- The cache is atomic here; `ClientCache` has its locks.

### LeaseTTL and LeaseRenewal

| Variable | Stands for |
|---|---|
| `now` | the clock; every duration is counted in its unit |
| `sys` | the mount's default and maximum lease |
| `lease` | Vault's lease with the engine's internal data (`group`, `effective_max_ttl`, `expire`). `ceiling` is a ghost: the least limit that was set at issuance, computed independently |
| `user` | the PVE user: enabled, groups, expiry |
| `ren` | the renewals in flight, with the expiry they computed and the time their call has taken |
| `late` | `UpdateUser` calls that PVE may still execute |
| `torn` | ghost: a renewal has failed after its update, or overlapped with another, since the last one that ran alone to its end |

`RenewStart` is `secretTokenRenew` up to its first call; the pre-update `GetUser`,
`UpdateUser` and the read-back follow, each with its error, and `UpdateUser` also
with a lost answer and with a late execution. `Issue` shows issuance from the
lease's side. An operator may disable the user or take its groups away, and the
role and the config may be any of the given ones whenever they are read. Vault
computes the granted time a second time when the renewal has answered
(`RenewReadBackOk`), with a clock that is later by the three calls.

### ClientCache and Permissions

`config` counts the writes and deletes of the config entry and says whether it is
there; `client` is the cached client, named by the config it was built from; `mu`
is the holder of `clientMu`; `call` has each thread's `getClient` and `cw` each
operator's `configWrite` or `configDelete`. `acked` and `base` are history: the
newest config whose write was acknowledged, now and when the call began. The fast
path, the second look under the lock, the read of the config and the store of the
client are steps of their own. A storage call of the config may fail with effect,
in which case the handler returns before `invalidate`, as the code does: such a
write is not acknowledged, and `NoStaleClient` promises nothing about it
(`rotation_stale_client` shows what it may lead to).

A permission tree is a set of grants. `HasPrivilege` is the walk from the path to
the root; `Effective` says without a walk what PVE means by the tree.

### RoleRules, RoleStore and RoleContract

`roles` is the storage, `roleLock` its lock, `w` each thread's operation with the
role it has loaded. A string is a name with a length and with the two
well-formedness tests; `Length`, `UserSafe` and `RealmSafe` are constants. `verified`
is history: the role became a password role on the verified build. The steps are
those of `roleWrite` under `roleLock`: load, merge and validation, config, client,
group, permissions, version gate, `Put`. Roles that were stored before the mode
existed have an empty mode (`Decoded`). `roleRead`, `roleList`, the existence check
and issuance each read one entry without the lock and have no state to model.

`RoleContract` has neither lock nor calls: an operation is asked for, takes effect
at one instant on the role of that instant, or is refused, and is answered.
`Linearizable` is `RoleContract`'s specification under the mapping `OpOf`.

## 3. What the runs check

| Run | Configuration | Result |
|---|---|---|
| `credential_safety` | two requests, two userids and a foreign one, two attempts, one crash; 2.8 million states up to symmetry | holds |
| `issuance_timing` | one request, one userid and a foreign one, two attempts, one crash, fair; unit 50 s: steps of 1, PVE done by 5, minimum age 6; 125 thousand states | holds |
| `issuance_orphan` | one request, no crash | **violated** |
| `rotation_safety` | four tokens, three faults, an ambiguous Put, no overlap; 55 thousand states | holds |
| `rotation_liveness` | four tokens, three faults, overlap, no ambiguous Put, fair, with the runbook's operator; 726 thousand states | holds |
| `rotation_automatic_recovery` | fair, nothing assumed of operators | **violated** |
| `rotation_config_overlap` | a config write begun before the rotation | **violated** |
| `rotation_stale_client` | an ambiguous Put, fair, with the runbook's operator | **violated** |
| `lease_renewal` | two overlapping renewals, one late update, seven instants of 20 s; 2.4 million states | holds |
| `lease_expiry_grace` | the same with instants of 30 s and a lease long enough to be shortened | **violated** |
| `client_cache` | two users, two operators, three configs, fair; 114 thousand states | holds |
| `role_store` | two threads, one operator, one role name, five requests, fair; 111 thousand states | holds |

Properties:

- `NeverOrphaned`: a user that the engine created is in a lease, in the hands of the
  handler that is answering, or named, with its nonce, by a WAL entry, but for the two
  outcomes `lost` and `stranded`. It takes a failed call and a late or a lost answer
  to get this wrong, which is what the rule of `cleanupUser` ("never orphan a user
  with no WAL entry") is about.
- `NoOrphanWithoutWAL`: that rule as the code words it for its last error path: a read
  that was answered with an error leaves no user of its own without an entry. The
  code does not keep it (disagreement 1).
- `IssuedCredentialIntact`: a credential that was handed out keeps its user, its
  group and its token until its lease is revoked, whatever other requests,
  cleanups and rollbacks do.
- `ForeignUntouched`, `RevokedIsGone`: no account of others is deleted; a revoked
  lease leaves no user.
- `Accountable`: the engine implements `CredentialContract`. Every account has somebody
  whose duty it is to delete it, from before PVE can make it until it is gone; the duty
  goes from the WAL to the response and the lease, or to the handler that takes the
  credential back, and never back to the WAL; it is lost only in a crash between
  `DeleteWAL` and the registration of the lease, or by the handler's failing
  `DeleteUser`; nobody deletes an account of another's duty; a read has one account at
  most.
- `OrphanSwept`, `WalDrains`, `RevocationCompletes`: with a config that stays,
  the users of reads that failed or crashed are swept, those of a `stranded` read
  apart, the WAL drains, and revocations end.
- `EntriesYoung`, `Untimed`: an entry somebody relies on is no older than the steps
  since its own `PutWAL`; the engine on a clock implements `CredentialLifecycle`.
- `ConfiguredTokenLive`, `NoTokenLost`, `ActiveTokenKept`: the config names a live
  token; a token that a rotation created or replaced is the configured one or in
  the rotation state; no step deletes the token the config names.
- `CacheCoherent`: the cached client is the stored config's, except between a Put
  and its `invalidate`.
- `RotationResolves`, `RotationWalDrains`: a rotation that was begun ends, and its
  WAL entry goes. Both have the premise `NoOverlap`, that no config change is under
  way while an operation holds `rotationLock`: the run allows the overlap, which
  `CacheCoherent` is also about, and these two speak of the behaviours without it.
- `BackstopWithinCeiling`: whatever increments are asked for, and whatever becomes of
  role and config, the lease ends within the ceiling of its issuance, PVE refuses
  the user a grace period later, and the user always has an expiry.
- `BackstopFollowsLease`: without a torn or an overlapping renewal the recorded
  expiry is that of the user and, if the grace covers the calls, not before the end
  of the lease; the next renewal that runs alone repairs what a torn one left.
- `PrivilegesFrozen`, `ContainmentHolds`: renewal gives no group but that of the
  issuance, though the role may name another by now; a disabled user is not enabled
  again, except by an update that was under way.
- `NoStaleClient`, `CacheCallsReturn`: no client older than the config acknowledged
  before the call; every `getClient` and config operation ends.
- `StoredRoleUsable`, `PasswordOptInGated`, `PrivilegesGranted`: no merge of partial
  writes leaves a role that cannot issue; none gets past the build gate; the walk
  accepts only what the tree grants.
- `Linearizable`, `CallsReturn`: the store implements its contract; every operation
  is answered although `roleLock` is held while waiting for `clientMu` and PVE.
- `TypeOK`, `CredentialInv`, `IssuanceInv`, `RotationInv`, `LeaseInv`, `CacheInv`,
  `RoleInv`: types and the inductive invariants of the proofs.

*Bounds.* Two requests are the fewest that collide, and that let one be issued
while another is cleaned up or rolled back; the rollback and the operator are
further actors. Two userids and a foreign one let an attempt collide with an own
user and with a stranger and still find a free one; two attempts make both the
retry and the exhausted loop happen. Two fresh tokens allow a second rotation
after a failed or a finished first; one spare token lets a config write change
the token. Three faults allow a failure, a failure of its recovery, and one more.
The theorems of section 4 have none of these bounds. Liveness of issuance
and its timing are checked with one request, because leases and rollbacks of
different requests depend on each other only through the users that the safety run
covers, and the age of an entry on its own handler alone. `Accountable` is checked in the same
run, where a collision is with a foreign account; theorem `EngineKeepsContract` has it
for any number of requests. The unit of 50 s makes the
minimum age the least that `MinAgeSuffices` allows, with steps longer than the HTTP
timeout. Symmetry of requests, of the userids that are
not foreign and of renewals is used in safety runs only. `UseridReuse` is
FALSE in the runs, because `IssuanceInv` needs it; what holds without it is
theorem `CredentialInvariant`. `MCFaults` has an error for each way a phrase may be
where it decides nothing: in a page of 401, 404 or 502, or in the body of a 500
whose message says something else.

In `lease_renewal` the unit is 20 s: the grace of 60 s is three units, a call takes
at most one, and a lease of two or three units sees several renewals before the
ceiling. So `GraceSuffices` holds there, and the run checks the whole of
`BackstopFollowsLease`. It is a premise and not a fact: with the client's timeout of
30 s three calls may take longer than the grace (disagreement 5). The instance of
`lease_expiry_grace` has it so, with a unit of 30 s. Deadlock is not checked in these
two, because a lease ends and the clock is bounded. In `client_cache` two users race
with two operators over three versions of the config: enough for a client to be
built from the first, invalidated by the second, and overtaken by the third. In
`role_store` one role name is enough, as entries do not interact; its 45 characters
put a userid at exactly 64 with the realm `pve` and at 65 with `ldap`. One config is
enough, because an absent config and a failing `getClient` end a write in the same
way. The five requests each suit some stored roles and not others.

*Mutations.* Each property is known to fail when a plausible slip is put into the
code's model. Each module has its variants, named
`<Step>_<Slip>` (for instance `CleanupErr_DropsWAL`, `RollbackStart_TooSoon`,
`RotateInvalidate_Forgotten`); `PROJECT.json` says which slip breaks which
property in which run. No action of `Next` uses them.

*Fairness.* Handlers are weakly fair, because every call has a timeout of 30 s
and the code has no unbounded loop. The rollback manager is weakly fair, because
the framework runs it periodically. A late call is dropped or executed at some
time. A lease ends, by `max_ttl` at the latest, and time passes. In `IssuanceTiming`,
strong fairness of the successful answers (`RevokeOk`, `RollbackGetUser`,
`RollbackDeleteUser`, `RollbackDropWAL`) says that PVE and the storage do not fail
for ever on a call that is repeated for ever; nothing is assumed of the answers
in issuance, which is not retried. In `RootRotation` faults are finite, so weak
fairness is enough, and only `OperatorSpec` adds that an operator follows the
runbook. A thread that waits for `clientMu` or `roleLock` is strongly fair: Go hands
a starved mutex to its waiter, and a waiting writer of an `RWMutex` keeps new readers
out. The other steps of a role operation are weakly fair. Nothing is assumed of who
asks for what, nor of PVE's answers. Nothing says that a config is ever written again: the properties of
issuance have `<>[]config` as their premise.

### Disagreements between the code and its documentation

1. **An error answer may leave a user without a WAL entry** (`issuance_orphan`).
   When the `DeleteWAL` of a finished issuance (`path_creds.go:375`) removes the entry
   and is answered with an error, the handler's `DeleteUser` is made once, and its
   failure is only logged (line 379). The credential is not returned, and the user
   stays with no lease and no entry until its PVE expiry. The error text at
   `path_creds.go:383` says "credential not returned to prevent orphan without WAL",
   and `path_creds.go:447` "Never orphan a user with no WAL entry". No crash is needed.
2. **A rotation may need an operator** (`rotation_automatic_recovery`).
   `rotateRoot` and `recoverRotation` delete the WAL entry *before* the rotation
   state. After a failure in between, the state has no WAL entry left and
   nothing retries the cleanup; `rotate-root` is rejected until an operator asks
   for guarded recovery. `README.md:337-338` has a durable record that "retries
   ambiguous cleanup automatically". `rotation_liveness` shows that the runbook
   does resolve it. The opposite order would be handled by
   `walRollbackRotation`, which drops an entry without a state.
3. **Guarded recovery may delete the active token** (`rotation_config_overlap`).
   `configWrite` does not take `rotationLock`: a write that validated its token
   before the rotation began may be stored after `recoverRotation` has compared
   that token with the config. `ARCHITECTURE.md:651-652` says that recovery
   never deletes the active configured token.
4. **A stale client may block recovery** (`rotation_stale_client`). When the Put
   of the new config fails and still takes effect, `rotateRoot` returns before
   `invalidate`. Rollback and recovery then delete the old token with a client
   that authenticates with that very token, cannot confirm the deletion (401), and
   fail in the same way until the plugin restarts or the config is written.
   `ARCHITECTURE.md:659` has the rollback confirm the absence.
5. **A credential may expire before its lease** (`lease_expiry_grace`). The comment
   at `path_creds.go:43-47` has the grace ensure that the PVE credential "remains
   valid for the full Vault-issued TTL". A renewal may shorten the lease (a small
   increment); when its `UpdateUser` takes effect and the answer is an error, or the
   read-back fails, Vault keeps the old end of the lease and PVE has the earlier
   expiry. Nothing repairs it but another renewal, which is what
   `BackstopFollowsLease` shows. A second route in this instance needs no error:
   three calls just below their timeout of 30 s outlast the grace of 60 s.

## 4. What is proved

The theorems hold for every value of the constants that the named assumptions
allow: any sets of requests, userids and tokens, any number of attempts, crashes
and faults.

| Theorem | Statement | Further assumption |
|---|---|---|
| `TypeCorrect` | `Spec => [](TypeOK /\ AttemptsLeft)` | |
| `CredentialInvariant` | `Spec => []CredentialInv` | |
| `NoOrphans` | `Spec => []NeverOrphaned` | |
| `ForeignAccountsSafe` | `Spec => []ForeignUntouched` | |
| `RevocationFinal` | `Spec => []RevokedIsGone` | |
| `IssuanceInvariant` | `Spec => []IssuanceInv` | `~UseridReuse` |
| `CredentialsIntact` | `Spec => []IssuedCredentialIntact` | `~UseridReuse` |
| `EntriesStayYoung` | `TimedSpec => []EntriesYoung` | `MinAgeSuffices` |
| `ClockImplements` | `TimedSpec => Untimed` (which is `Spec`) | `MinAgeSuffices` |
| `TimedAccountsSafe` | `TimedSpec => [](NeverOrphaned /\ ForeignUntouched /\ RevokedIsGone)` | `MinAgeSuffices` |
| `TimedCredentialsIntact` | `TimedSpec => []IssuedCredentialIntact` | `MinAgeSuffices`, `~UseridReuse` |
| `EngineKeepsContract` | `Spec => Accountable` | `~UseridReuse` |
| `TimedEngineKeepsContract` | `TimedSpec => Accountable` | `MinAgeSuffices`, `~UseridReuse` |
| `ContractKeepsAccounts` | `Contract!ContractSpec => []Contract!AccountsKept` | |
| `AccountsAreKept` | `Spec => []Contract!AccountsKept` | `~UseridReuse` |
| `RotationTypeCorrect` | `Spec => []TypeOK` | |
| `RotationInvariant` | `Spec => []RotationInv` | `~Overlap` |
| `NeverLockedOut` | `Spec => []ConfiguredTokenLive` | `~Overlap` |
| `NoTokenLeaks` | `Spec => []NoTokenLost` | `~Overlap` |
| `ActiveTokenSafe` | `Spec => ActiveTokenKept` | `~Overlap` |
| `ClientCacheCoherent` | `Spec => []CacheCoherent` | `~AmbiguousConfigPut` |
| `LeaseInvariant`, `LeaseTypeCorrect` | `Spec => []LeaseInv`, `Spec => []TypeOK` | |
| `CeilingHolds` | `Spec => []BackstopWithinCeiling` | |
| `BackstopInStep` | `Spec => []BackstopFollowsLease` | |
| `GroupsFrozen` | `Spec => []PrivilegesFrozen` | |
| `ContainmentIsFinal` | `Spec => ContainmentHolds` | |
| `CacheInvariant` | `CacheSpec => []CacheInv` | |
| `ClientsAreFresh` | `CacheSpec => []NoStaleClient` | |
| `WalkIsRight` | `HasPrivilege(tree, path, priv) <=> Effective(tree, path, priv)` for every tree, path and privilege | |
| `RoleInvariant` | `Spec => []RoleInv` | |
| `StoredRolesUsable` | `Spec => []StoredRoleUsable` | |
| `PasswordGate` | `Spec => []PasswordOptInGated` | |
| `RoleClientsAreFresh` | `Spec => []NoStaleClient` | |
| `AcceptedIsGranted` | `Spec => []PrivilegesGranted` | |
| `StoreImplementsContract` | `Spec => Linearizable` | |

*Assumptions on constants.* `MaxCollisionRetries` is a positive natural number;
`UserIds` is not empty and contains `Foreign`; bounds are natural numbers and flags
are Booleans; the tags (`Nobody`, `NoComment`, `LegacyId`) are not attempts;
`InitialToken` and `SpareTokens` are tokens and `None` is not. `FaultsAssumption` is
explained in section 2. `DurationAssumption` and `SettingAssumption` make durations
natural numbers, where the mount's are positive (Vault has a default for both).
`CacheAssumption` and `StoreAssumption` keep the threads apart and the tags out of
their sets, and have the roles stored at first be usable. `RulesAssumption` gives
the separators and the suffix their lengths and keeps `Omitted` and `NoRole` out of
the values; it says nothing of the lengths of other strings.

*Issuance.* `NeverOrphaned` is not inductive. A step that removes a WAL entry
(the collision, the issuance, the cleanup, the rollback) preserves it only if that
entry is not the last trace of a user. `CredentialInv` adds what makes this so:
only the latest attempt of a request owns a user, and only from `CreateUser`'s
success on (`OwnerIsLatest`), so the entry of a collided attempt covers nobody;
a late `CreateUser` still has its entry, and its handler is over
(`LateIsCovered`); a handler's entry stays as long as the handler relies on it, which
is until it asks for its deletion (`HeldEntryKept`), and says what the attempt has drawn (`WalIsFaithful`); the
rollback works on an entry nobody else uses, and drops it only when its user is
gone or not provably the engine's (`RollbackIsSafe`); a successful cleanup has
deleted its user (`CleanedIsGone`); no handler, lease or rollback is about to
delete a foreign account (`ForeignIsSafe`). The proof has one lemma for each kind
of step: moves of a handler, `PutWAL`, `CreateUser`, timeouts, deletions of
entries, deletions of users, rollback, and the environment.

`IssuedCredentialIntact` needs `IssuanceInv` as well: the user of a handler past
`CreateUser` is its own (`CreatorKept`, which needs that a userid is not used
twice), its entry is gone when the credential is handed out
(`IssuedIsCommitted`), the read-back's findings still hold (`IssuanceChecked`),
and a rollback about to delete has a proof that is still valid
(`ProofStillHolds`).

Two lemmas about the classification, `NotFoundIsAbsent` and `ConflictIsTaken`, carry
what `FaultsAssumption` gives into these proofs: an answer classified as "no such
user" comes from a PVE without that user, a conflict from one that has it.

*Timing.* `ClockImplements` maps every timed step to a step of `CredentialLifecycle` or
a stutter. Only `SweepStart` needs an argument: an entry of `MinAge` is `Aged`, because
`EntriesYoung` bounds the age of a held entry by the steps made since its `PutWAL` and
of a late one by `PVELimit`. Its proof classifies how a step may move a handler
(`Moved`): not, off its entry, on to a later step, or to a new entry. With it the
conclusions about the untimed engine hold of the timed one (`TimedAccountsSafe`,
`TimedCredentialsIntact`, `TimedEngineKeepsContract`), where nothing but the age of its
entries keeps the rollback off.

*Contract.* Each step of the engine concerns one attempt, apart from a crash, which is
`Die`. The lemmas of `ContractProofs` read the duty and the account of an attempt off
the state, show that the attempts a step does not concern keep both, and find for the
one it does concern the step of the contract, or a stutter. What makes this go through
is in the two invariants. A rollback that deletes must find the account with the WAL:
its entry is there and its proof still holds (`RollbackIsSafe`, `ProofStillHolds`). A
revocation must find its own account or none (`CreatorKept`). An entry that goes must
not be that of a `CreateUser` still under way (`LateIsCovered`), and a response must
not leave one behind (`IssuedIsCommitted`). That a read opens an attempt only after its
earlier ones came to nothing needs that the WAL's entries are of the latest attempt and
that no handler about to begin one has an entry (`WalIsFaithful`).
A `DeleteWAL` that failed with effect is `Settle` where the account was refused or
deleted and `Recall` where it was about to be handed out; `LastDelete` is then `Fulfil`
or `Abandon`, and with the entry still there a deletion by the WAL or a stutter.
`ContractKeepsAccounts` is about the contract alone: its invariant is inductive as it
stands, and relates two attempts of the same read only in its last conjunct.

*Rotation.* `RotationInv` says of the lock's holder (`LockHolderSafe`) that the
config names the old token until it is stored and the new one afterwards, and that
the token to be deleted is the one of the pair which the config does not name; of
a pending rotation (`PendingSafe`) that the config names one of its pair; of a late
`CreateToken` (`LateTokenSafe`) that its rotation is still pending and its status
not yet `recovery-required`; of a config change (`ConfigChangeSafe`) that it has
the mount for itself. `ActiveTokenKept` follows from it for each step that can end
a token. The proof has one step for each action and, where the action disturbs
more than one conjunct, one for each of these. `ClientCacheCoherent` needs neither
this invariant nor `~Overlap`.

*Renewal.* The ceiling must be shown of a user whose expiry may be written by any
renewal in flight and by any late call. `LeaseInv` bounds all of these
(`LeaseBounded`, `RenewalsBounded`), equates the recorded maximum with the ceiling
(lemma on `cappedMaxTTL` against `Ceiling`), and counts how far the clock may have
moved since an expiry was computed (`CallTime`), from which `lease.end <=
lease.expire` follows under `GraceSuffices`. `AloneIsAlone` and `InStep` are what
`BackstopFollowsLease` needs: a renewal that is alone has nothing beside it that could
overwrite its update before the read-back.

*Client cache and roles.* `CacheInv` has `clientMu` held from the read of the config
to the store of the client, and what a thread is about to store not older than
`acked`; `acked` cannot move meanwhile, because `invalidate` needs the same lock.
`RoleInv` adds that `roleLock` is held exactly where the handler is inside, that
the loaded role is still the stored one, and that what is about to be stored is
valid and, if it opts into passwords, has been checked; `Valid` implies `Usable` by a
lemma that adds up the length of a userid. `StoreImplementsContract` maps every step
to a step of `RoleContract` or a stutter: `Put` and `Delete` are `Apply`, and since
the loaded role is the stored one, the merge of the handler is the merge of the
contract. Its client steps are stutters because they change no role and no operation.

*Permissions.* `WalkIsRight` is about a recursive function, without an induction
theorem. A function that satisfies the walk's equation exists, because its closed form
("some level from here to the root decides") is one, so the `CHOOSE` behind the
recursive definition picks one. Since `<` is well-founded, the least level at which the
walk says yes has a deciding entry of its own, and no level at or below one that has
can be the least at which it says no. `AcceptedIsGranted` follows: what the handlers
have accepted they have accepted of the tree they read, by this walk.

*Only model-checked.* Liveness under fairness and anything about `ENABLED` is out
of the prover's reach, so `OrphanSwept`, `WalDrains`, `RevocationCompletes`,
`RotationResolves`, `RotationWalDrains`, `CacheCallsReturn` and `CallsReturn` are
TLC's alone, as are the five violations. Every safety invariant and every action property
of the runs is also proved. Of the rotation only the types and `CacheCoherent` are
proved where `Overlap` holds: the others do not hold there, as disagreement 3 shows for
one of them and TLC for `ConfiguredTokenLive`, `NoTokenLost` and `RotationInv`.

## 5. What is not modelled

- The password alphabet and its generator, and `randomSuffix` beyond a draw that
  may collide.
- HTTP, TLS, form encoding and the response limit of the client. A call is what it
  does to PVE and the class of its answer.
- `classifyTokenPVEError`: its callers list the tokens afterwards and do not act on
  the class it adds.
- Fields of the config other than the token (`RootRotation`), its presence and
  version (`ClientCache`) and its default TTLs (`LeaseRenewal`). So a config write
  whose other fields a rotation overwrites (`path_rotate_root.go:187`) is listed as a
  hazard without a property.
- WAL payloads that do not decode.
- Performance standbys and replication of Vault, among them the framework's
  `Invalidate` on another node.
- The mock client, the entry point and the release scripts, which have no behaviour
  of interest here.

## 6. Plan

Done: issuance with error classification, on a clock and with its contract, rotation,
renewal and TTLs, client cache and permissions, role store with its contract, each
with its proofs. Left, in order:

1. The same clock for `RootRotation`, whose rollback waits for a late `CreateToken`.
2. `Engine`: rotation next to issuance, with the client a handler keeps while the
   provisioner token is replaced, and with the other fields of the config.
