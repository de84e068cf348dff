------------------------- MODULE CredentialLifecycle -------------------------
(***************************************************************************)
(* Dynamic credentials of the Proxmox VE secrets engine, from the read of  *)
(* creds/:role to the revocation of the lease:                             *)
(*                                                                         *)
(*   - handleCredsRead and cleanupUser (path_creds.go), one action per     *)
(*     call that leaves the process: storage (PutWAL, DeleteWAL) and PVE   *)
(*     (CreateUser, GetUser, CreateToken, DeleteUser);                     *)
(*   - walRollbackUser (wal.go), run by the framework's rollback manager;  *)
(*   - secretTokenRevoke (secret_token.go), retried by Vault;              *)
(*   - a crash of the plugin process between any two of these steps.       *)
(*                                                                         *)
(* A call to PVE may succeed, fail without effect, take effect although    *)
(* its answer is lost, or (CreateUser) take effect after its caller has    *)
(* given up.  A storage call too may be answered with an error although it *)
(* took effect; it is not executed later.                                  *)
(***************************************************************************)
EXTENDS Naturals, FiniteSets, PVEErrors

CONSTANTS
  Requests,             \* reads of creds/:role
  UserIds,              \* PVE userids, drawn by randomSuffix/buildUserID
  Foreign,              \* userids of accounts the engine did not create
  MaxCollisionRetries,  \* maxCollisionRetries, path_creds.go:41
  MaxCrashes,           \* bound: crashes of the plugin in one behaviour
  UseridReuse,          \* may a suffix be drawn again after its user is gone?
  Nobody,               \* the creator of a foreign account
  NoComment,            \* the empty string, as a comment or as a nonce
  LegacyId              \* id of a WAL entry an older version has left

\* An attempt of a request names both the WAL entry it writes and the nonce it
\* draws: PutWAL's UUID and the 40-bit nonce are taken to be unique.
Attempts == Requests \X (1 .. MaxCollisionRetries)

ASSUME RetriesAssumption == MaxCollisionRetries \in Nat \ {0}
ASSUME ForeignAssumption == UserIds # {} /\ Foreign \subseteq UserIds
ASSUME CrashAssumption   == MaxCrashes \in Nat
ASSUME ReuseAssumption   == UseridReuse \in BOOLEAN
ASSUME TagAssumption     == /\ Nobody \notin Attempts
                            /\ NoComment \notin Attempts
                            /\ LegacyId \notin Attempts

VARIABLES
  users,    \* PVE: what each userid names, with its creator as a ghost
  late,     \* PVE: CreateUser calls still to be executed or dropped
  wal,      \* storage: the WAL entries of kind walTypeUser
  config,   \* storage: is there a config, so that getClient succeeds?
  pc,       \* per request: the next call of its handler, or its outcome
  attempt,  \* per request: the number of the current attempt, 0 before any
  userid,   \* per request: the userid of the current attempt
  mode,     \* per request: role.Mode
  rb,       \* the rollback in progress
  crashes   \* crashes so far

vars == <<users, late, wal, config, pc, attempt, userid, mode, rb, crashes>>
handler == <<attempt, userid, mode>>

-----------------------------------------------------------------------------
(* State. *)

\* Handler steps after PutWAL and before the answer: the entry is the handler's.
HoldSteps == {"create", "collision", "readback", "token", "delwal",
              "lastdelete", "cleanup", "cleanupwal"}
HandlerSteps == HoldSteps \cup {"attempt", "respond"}
LeaseSteps == {"leased", "revoking"}

\* What becomes of a read.  "failed" and "stranded" are both an error answer: the
\* second is that of a read whose entry is gone and whose user may be left behind.
\* "lost" is a response that a crash has kept from becoming a lease.
Outcomes == {"failed", "stranded", "crashed", "lost", "revoked"}
Steps == {"idle"} \cup HandlerSteps \cup LeaseSteps \cup Outcomes

Users == [st : {"never", "present", "deleted", "removed"},
          owner : Attempts \cup {Nobody},
          comment : Attempts \cup {NoComment},
          inGroup : BOOLEAN,
          token : BOOLEAN]

\* walUser, with the id that PutWAL returned.
WalEntries == [id : Attempts \cup {LegacyId},
               user : UserIds,
               nonce : Attempts \cup {NoComment}]

\* A CreateUser call whose caller has given up on it.
Creates == [by : Attempts, user : UserIds]

Rollbacks == [pc : {"idle", "get", "delete", "drop"}, entry : WalEntries]

\* What stands where no userid was drawn: a foreign one if there is one, so that
\* the others are interchangeable.
AnyUser == CHOOSE u \in UserIds : Foreign # {} => u \in Foreign
NoRollback == [pc |-> "idle",
               entry |-> [id |-> LegacyId, user |-> AnyUser, nonce |-> NoComment]]

Nonce(r) == <<r, attempt[r]>>
Entry(r) == [id |-> Nonce(r), user |-> userid[r], nonce |-> Nonce(r)]
Present(u) == users[u].st = "present"
Holds(r, e) == pc[r] \in HoldSteps /\ e.id = Nonce(r)

\* A WAL entry of a version that wrote no nonce, naming a userid that is now a
\* foreign account: the case walRollbackUser's empty-nonce test is there for.
LegacyEntry(u) == [id |-> LegacyId, user |-> u, nonce |-> NoComment]

TypeOK ==
  /\ users \in [UserIds -> Users]
  /\ late \subseteq Creates
  /\ wal \subseteq WalEntries
  /\ config \in BOOLEAN
  /\ pc \in [Requests -> Steps]
  /\ attempt \in [Requests -> 0 .. MaxCollisionRetries]
  /\ userid \in [Requests -> UserIds]
  /\ mode \in [Requests -> {"token", "password"}]
  /\ rb \in Rollbacks
  /\ crashes \in 0 .. MaxCrashes

Init ==
  /\ users = [u \in UserIds |->
                [st |-> IF u \in Foreign THEN "present" ELSE "never",
                 owner |-> Nobody, comment |-> NoComment,
                 inGroup |-> FALSE, token |-> FALSE]]
  /\ late = {}
  /\ wal \in {{}} \cup {{LegacyEntry(u)} : u \in Foreign}
  /\ config = TRUE
  /\ pc = [r \in Requests |-> "idle"]
  /\ attempt = [r \in Requests |-> 0]
  /\ userid = [r \in Requests |-> AnyUser]
  /\ mode = [r \in Requests |-> "token"]
  /\ rb = NoRollback
  /\ crashes = 0

-----------------------------------------------------------------------------
(* What PVE and the storage do with a call. *)

Goto(r, step) == pc' = [pc EXCEPT ![r] = step]
PutWAL(e) == wal' = wal \cup {e}
DeleteWAL(id) == wal' = {e \in wal : e.id # id}

\* An error answer does not tell whether the entry is gone.
DeleteWALErr(id) == DeleteWAL(id) \/ wal' = wal

\* PVE may create a userid unless it is taken.  A userid that was taken once is
\* created again only if a 40-bit suffix repeats.
Creatable(u) == \/ users[u].st = "never"
                \/ UseridReuse /\ users[u].st \in {"deleted", "removed"}

\* The new user: PVE may drop the comment or the group, as the read-back suspects.
CreateUser(u, by, comment, inGroup) ==
  users' = [users EXCEPT ![u] = [st |-> "present", owner |-> by,
                                 comment |-> comment, inGroup |-> inGroup,
                                 token |-> FALSE]]

\* What the engine takes an error answer of PVE about userid u for.
FaultClasses == {classifyPVEError(a) : a \in Faults}
ErrConflict(u) ==
  \/ "ErrConflict" \in FaultClasses
  \/ Present(u) /\ classifyPVEError(UserExists) = "ErrConflict"
ErrUserNotFound(u) ==
  \/ "ErrUserNotFound" \in FaultClasses
  \/ ~Present(u) /\ classifyPVEError(NoSuchUser) = "ErrUserNotFound"

\* Deletes the user with its token and groups, or finds that there is none.
DeleteUser(u) ==
  \/ Present(u) /\ users' = [users EXCEPT ![u].st = "deleted"]
  \/ ErrUserNotFound(u) /\ users' = users

\* An error answer does not tell whether the call took effect.
DeleteUserErr(u) == DeleteUser(u) \/ users' = users

-----------------------------------------------------------------------------
(* Mutations: steps as a slip in the code would have them.  No action of   *)
(* Next uses them; each property is shown to fail with one of them in the  *)
(* place of the step it is named after.                                    *)

\* The retry loop of handleCredsRead makes one attempt too many.
CollisionDeleteWALOk_OneTooMany(r) ==
  /\ pc[r] = "collision"
  /\ DeleteWAL(Nonce(r))
  /\ Goto(r, IF attempt[r] <= MaxCollisionRetries THEN "attempt" ELSE "failed")
  /\ UNCHANGED <<users, late, config, handler, rb, crashes>>

\* A collided attempt whose entry could not be deleted is tried again all the same.
CollisionDeleteWALErr_GoesOn(r) ==
  /\ pc[r] = "collision"
  /\ Goto(r, IF attempt[r] < MaxCollisionRetries THEN "attempt" ELSE "failed")
  /\ UNCHANGED <<users, late, wal, config, handler, rb, crashes>>

\* The WAL entry goes although nobody knows whether the user was created.
CreateUserTimeout_DropsWAL(r) ==
  /\ pc[r] = "create"
  /\ late' = late \cup {[by |-> Nonce(r), user |-> userid[r]]}
  /\ DeleteWAL(Nonce(r))
  /\ Goto(r, "failed")
  /\ UNCHANGED <<users, config, handler, rb, crashes>>

\* The secret is returned although its WAL entry could not be deleted.
IssueDeleteWALErr_Ignored(r) ==
  /\ pc[r] = "delwal"
  /\ Goto(r, "respond")
  /\ UNCHANGED <<users, late, wal, config, handler, rb, crashes>>

\* cleanupUser drops the WAL entry of a user it could not delete.
CleanupErr_DropsWAL(r) ==
  /\ pc[r] = "cleanup"
  /\ \/ config /\ DeleteUserErr(userid[r])
     \/ users' = users
  /\ DeleteWAL(Nonce(r))
  /\ Goto(r, "failed")
  /\ UNCHANGED <<late, config, handler, rb, crashes>>

\* cleanupUser begins again when it cannot delete the entry, without an end.
CleanupDeleteWAL_Retries(r) ==
  /\ pc[r] = "cleanupwal"
  /\ \/ DeleteWAL(Nonce(r)) /\ Goto(r, "failed")
     \/ wal' = wal /\ Goto(r, "cleanup")
  /\ UNCHANGED <<users, late, config, handler, rb, crashes>>

\* ErrUserNotFound is not taken for success.
RevokeOk_NeedsUser(r) ==
  /\ pc[r] = "revoking"
  /\ config
  /\ Present(userid[r])
  /\ DeleteUser(userid[r])
  /\ Goto(r, "revoked")
  /\ UNCHANGED <<late, wal, config, handler, rb, crashes>>

\* A WALRollbackMinAge shorter than a handler may take.
Aged_TooSoon(e) == \A c \in late : c.by # e.id

\* The empty nonce of a legacy entry matches an empty comment.
OwnershipProved_BlankMatches(e) == users[e.user].comment = e.nonce

\* A user that is not provably the engine's is an error, to be retried.
RollbackGetUser_RetriesMismatch ==
  /\ rb.pc = "get"
  /\ config
  /\ rb' = IF Present(rb.entry.user)
           THEN IF users[rb.entry.user].comment = rb.entry.nonce
                THEN [rb EXCEPT !.pc = "delete"] ELSE NoRollback
           ELSE [rb EXCEPT !.pc = "drop"]
  /\ UNCHANGED <<users, late, wal, config, pc, handler, crashes>>

-----------------------------------------------------------------------------
(* handleCredsRead *)

\* No role, no config, no usable TTL, no client, an unverified PVE build.
Refuse(r) ==
  /\ pc[r] = "idle"
  /\ Goto(r, "failed")
  /\ UNCHANGED <<users, late, wal, config, handler, rb, crashes>>

Begin(r, m) ==
  /\ pc[r] = "idle"
  /\ config
  /\ Goto(r, "attempt")
  /\ mode' = [mode EXCEPT ![r] = m]
  /\ UNCHANGED <<users, late, wal, config, attempt, userid, rb, crashes>>

\* Draws a suffix and a nonce and writes the WAL entry.
LogAttempt(r, u) ==
  /\ attempt' = [attempt EXCEPT ![r] = @ + 1]
  /\ userid' = [userid EXCEPT ![r] = u]
  /\ PutWAL([id |-> <<r, attempt[r] + 1>>, user |-> u,
             nonce |-> <<r, attempt[r] + 1>>])
  /\ UNCHANGED mode

\* The entry is in the log before CreateUser is called.
PutWALOk(r, u) ==
  /\ pc[r] = "attempt"
  /\ LogAttempt(r, u)
  /\ Goto(r, "create")
  /\ UNCHANGED <<users, late, config, rb, crashes>>

\* The entry may be in the log all the same, of a user that nobody asks for.
PutWALErr(r) ==
  /\ pc[r] = "attempt"
  /\ \/ \E u \in UserIds : LogAttempt(r, u)
     \/ UNCHANGED <<wal, handler>>
  /\ Goto(r, "failed")
  /\ UNCHANGED <<users, late, config, rb, crashes>>

CreateUserOk(r, comment, inGroup) ==
  /\ pc[r] = "create"
  /\ Creatable(userid[r])
  /\ CreateUser(userid[r], Nonce(r), comment, inGroup)
  /\ Goto(r, "readback")
  /\ UNCHANGED <<late, wal, config, handler, rb, crashes>>

CreateUserConflict(r) ==
  /\ pc[r] = "create"
  /\ ErrConflict(userid[r])
  /\ Goto(r, "collision")
  /\ UNCHANGED <<users, late, wal, config, handler, rb, crashes>>

\* Any other error: the WAL entry is left for the rollback.
CreateUserErr(r) ==
  /\ pc[r] = "create"
  /\ Goto(r, "failed")
  /\ UNCHANGED <<users, late, wal, config, handler, rb, crashes>>

\* The answer is lost or the client times out; PVE may still execute the call.
CreateUserTimeout(r) ==
  /\ pc[r] = "create"
  /\ late' = late \cup {[by |-> Nonce(r), user |-> userid[r]]}
  /\ Goto(r, "failed")
  /\ UNCHANGED <<users, wal, config, handler, rb, crashes>>

\* The entry of a collided attempt goes; the last attempt exhausts the loop.
CollisionDeleteWALOk(r) ==
  /\ pc[r] = "collision"
  /\ DeleteWAL(Nonce(r))
  /\ Goto(r, IF attempt[r] < MaxCollisionRetries THEN "attempt" ELSE "failed")
  /\ UNCHANGED <<users, late, config, handler, rb, crashes>>

CollisionDeleteWALErr(r) ==
  /\ pc[r] = "collision"
  /\ DeleteWALErr(Nonce(r))
  /\ Goto(r, "failed")
  /\ UNCHANGED <<users, late, config, handler, rb, crashes>>

\* What the read-back of a created user must show.
ReadBackAccepts(r) ==
  /\ Present(userid[r])
  /\ users[userid[r]].inGroup
  /\ mode[r] = "password" => users[userid[r]].comment = Nonce(r)

ReadBackOk(r) ==
  /\ pc[r] = "readback"
  /\ ReadBackAccepts(r)
  /\ Goto(r, IF mode[r] = "token" THEN "token" ELSE "delwal")
  /\ UNCHANGED <<users, late, wal, config, handler, rb, crashes>>

\* GetUser fails, whatever the user is, or the read-back is not accepted.
ReadBackErr(r) ==
  /\ pc[r] = "readback"
  /\ Goto(r, "cleanup")
  /\ UNCHANGED <<users, late, wal, config, handler, rb, crashes>>

CreateTokenOk(r) ==
  /\ pc[r] = "token"
  /\ Present(userid[r])
  /\ users' = [users EXCEPT ![userid[r]].token = TRUE]
  /\ Goto(r, "delwal")
  /\ UNCHANGED <<late, wal, config, handler, rb, crashes>>

CreateTokenErr(r) ==
  /\ pc[r] = "token"
  /\ \/ users' = users
     \/ Present(userid[r]) /\ users' = [users EXCEPT ![userid[r]].token = TRUE]
  /\ Goto(r, "cleanup")
  /\ UNCHANGED <<late, wal, config, handler, rb, crashes>>

\* The WAL entry goes before the secret is returned.
IssueDeleteWALOk(r) ==
  /\ pc[r] = "delwal"
  /\ DeleteWAL(Nonce(r))
  /\ Goto(r, "respond")
  /\ UNCHANGED <<users, late, config, handler, rb, crashes>>

\* The secret is not returned.  Whether the entry is still there, the error does
\* not tell.
IssueDeleteWALErr(r) ==
  /\ pc[r] = "delwal"
  /\ DeleteWALErr(Nonce(r))
  /\ Goto(r, "lastdelete")
  /\ UNCHANGED <<users, late, config, handler, rb, crashes>>

\* Best effort, with the handler's own client; the read ends with an error in
\* either case.
LastDelete(r) ==
  /\ pc[r] = "lastdelete"
  /\ \/ DeleteUser(userid[r]) /\ Goto(r, "failed")
     \/ DeleteUserErr(userid[r]) /\ Goto(r, IF Entry(r) \in wal THEN "failed" ELSE "stranded")
  /\ UNCHANGED <<late, wal, config, handler, rb, crashes>>

\* The framework has the response and registers the lease.
RegisterLease(r) ==
  /\ pc[r] = "respond"
  /\ Goto(r, "leased")
  /\ UNCHANGED <<users, late, wal, config, handler, rb, crashes>>

-----------------------------------------------------------------------------
(* cleanupUser *)

CleanupOk(r) ==
  /\ pc[r] = "cleanup"
  /\ config
  /\ DeleteUser(userid[r])
  /\ Goto(r, "cleanupwal")
  /\ UNCHANGED <<late, wal, config, handler, rb, crashes>>

\* No client, or DeleteUser fails: the WAL entry is left for the rollback.
CleanupErr(r) ==
  /\ pc[r] = "cleanup"
  /\ \/ config /\ DeleteUserErr(userid[r])
     \/ users' = users
  /\ Goto(r, "failed")
  /\ UNCHANGED <<late, wal, config, handler, rb, crashes>>

CleanupDeleteWAL(r) ==
  /\ pc[r] = "cleanupwal"
  /\ DeleteWALErr(Nonce(r))
  /\ Goto(r, "failed")
  /\ UNCHANGED <<users, late, config, handler, rb, crashes>>

-----------------------------------------------------------------------------
(* secretTokenRevoke, which both secret types share *)

\* The lease expires or is revoked; Vault calls the handler until it succeeds.
Revoke(r) ==
  /\ pc[r] = "leased"
  /\ Goto(r, "revoking")
  /\ UNCHANGED <<users, late, wal, config, handler, rb, crashes>>

RevokeOk(r) ==
  /\ pc[r] = "revoking"
  /\ config
  /\ DeleteUser(userid[r])
  /\ Goto(r, "revoked")
  /\ UNCHANGED <<late, wal, config, handler, rb, crashes>>

\* The call took effect but its answer was lost: Vault will retry it.
RevokeErr(r) ==
  /\ pc[r] = "revoking"
  /\ config
  /\ DeleteUser(userid[r])
  /\ UNCHANGED <<late, wal, config, pc, handler, rb, crashes>>

-----------------------------------------------------------------------------
(* walRollbackUser, called by the rollback manager, one entry at a time *)

\* WALRollbackMinAge is 5 minutes: an entry that is old enough has no handler and
\* no CreateUser left behind it.  IssuanceTiming derives this from the ages.
Aged(e) ==
  /\ \A r \in Requests : ~Holds(r, e)
  /\ \A c \in late : c.by # e.id

RollbackStart(e) ==
  /\ rb.pc = "idle"
  /\ e \in wal
  /\ Aged(e)
  /\ rb' = [pc |-> "get", entry |-> e]
  /\ UNCHANGED <<users, late, wal, config, pc, handler, crashes>>

\* The user is the engine's own when its comment is the entry's nonce.
OwnershipProved(e) == e.nonce # NoComment /\ users[e.user].comment = e.nonce

\* GetUser answers: an absent or a foreign user ends the rollback well.
RollbackGetUser ==
  /\ rb.pc = "get"
  /\ config
  /\ \/ /\ Present(rb.entry.user)
        /\ rb' = [rb EXCEPT !.pc = IF OwnershipProved(rb.entry) THEN "delete" ELSE "drop"]
     \/ /\ ErrUserNotFound(rb.entry.user)
        /\ rb' = [rb EXCEPT !.pc = "drop"]
  /\ UNCHANGED <<users, late, wal, config, pc, handler, crashes>>

RollbackDeleteUser ==
  /\ rb.pc = "delete"
  /\ DeleteUser(rb.entry.user)
  /\ rb' = [rb EXCEPT !.pc = "drop"]
  /\ UNCHANGED <<late, wal, config, pc, handler, crashes>>

\* No client, or an error from GetUser or DeleteUser: the entry is kept.
RollbackErr ==
  /\ \/ rb.pc = "get" /\ users' = users
     \/ rb.pc = "delete" /\ DeleteUserErr(rb.entry.user)
  /\ rb' = NoRollback
  /\ UNCHANGED <<late, wal, config, pc, handler, crashes>>

\* The framework drops the entry of a rollback that returned nil.
RollbackDropWAL ==
  /\ rb.pc = "drop"
  /\ DeleteWAL(rb.entry.id)
  /\ rb' = NoRollback
  /\ UNCHANGED <<users, late, config, pc, handler, crashes>>

\* Without effect; a failure with effect leaves what RollbackDropWAL leaves.
RollbackDropErr ==
  /\ rb.pc = "drop"
  /\ rb' = NoRollback
  /\ UNCHANGED <<users, late, wal, config, pc, handler, crashes>>

-----------------------------------------------------------------------------
(* The environment: PVE, operators, and the plugin process *)

\* PVE executes, or never executes, a CreateUser its caller has given up on.
LateCreate(c, comment, inGroup) ==
  /\ c \in late
  /\ Creatable(c.user)
  /\ CreateUser(c.user, c.by, comment, inGroup)
  /\ late' = late \ {c}
  /\ UNCHANGED <<wal, config, pc, handler, rb, crashes>>

LateDrop(c) ==
  /\ c \in late
  /\ late' = late \ {c}
  /\ UNCHANGED <<users, wal, config, pc, handler, rb, crashes>>

\* An operator removes a user of the engine by hand.
OperatorRemove(u) ==
  /\ u \notin Foreign
  /\ Present(u)
  /\ users' = [users EXCEPT ![u].st = "removed"]
  /\ UNCHANGED <<late, wal, config, pc, handler, rb, crashes>>

ConfigWrite ==
  /\ ~config
  /\ config' = TRUE
  /\ UNCHANGED <<users, late, wal, pc, handler, rb, crashes>>

ConfigDelete ==
  /\ config
  /\ config' = FALSE
  /\ UNCHANGED <<users, late, wal, pc, handler, rb, crashes>>

\* The process dies: every handler and the rollback stop where they are, each
\* CreateUser on the wire may still be executed, a response that has not become a
\* lease is lost, and so is a user that only its handler could still delete.  WAL
\* entries and leases are in storage.
Crash(inflight) ==
  /\ crashes < MaxCrashes
  /\ crashes' = crashes + 1
  /\ \A r \in inflight : pc[r] = "create"
  /\ late' = late \cup {[by |-> Nonce(r), user |-> userid[r]] : r \in inflight}
  /\ pc' = [r \in Requests |->
              IF pc[r] = "respond" THEN "lost"
              ELSE IF pc[r] = "lastdelete" /\ Entry(r) \notin wal THEN "stranded"
              ELSE IF pc[r] \in HandlerSteps THEN "crashed" ELSE pc[r]]
  /\ rb' = NoRollback
  /\ UNCHANGED <<users, wal, config, handler>>

-----------------------------------------------------------------------------
Comments(a) == {a, NoComment}

Issue(r) ==
  \/ Refuse(r)
  \/ \E m \in {"token", "password"} : Begin(r, m)
  \/ \E u \in UserIds : PutWALOk(r, u)
  \/ PutWALErr(r)
  \/ \E comment \in Comments(Nonce(r)), inGroup \in BOOLEAN :
       CreateUserOk(r, comment, inGroup)
  \/ CreateUserConflict(r)
  \/ CreateUserErr(r)
  \/ CreateUserTimeout(r)
  \/ CollisionDeleteWALOk(r)
  \/ CollisionDeleteWALErr(r)
  \/ ReadBackOk(r)
  \/ ReadBackErr(r)
  \/ CreateTokenOk(r)
  \/ CreateTokenErr(r)
  \/ IssueDeleteWALOk(r)
  \/ IssueDeleteWALErr(r)
  \/ LastDelete(r)
  \/ CleanupOk(r)
  \/ CleanupErr(r)
  \/ CleanupDeleteWAL(r)
  \/ RegisterLease(r)

Lease(r) == Revoke(r) \/ RevokeOk(r) \/ RevokeErr(r)

Rollback ==
  \/ \E e \in wal : RollbackStart(e)
  \/ RollbackGetUser
  \/ RollbackDeleteUser
  \/ RollbackErr
  \/ RollbackDropWAL
  \/ RollbackDropErr

Environment ==
  \/ \E c \in late :
       \/ \E comment \in Comments(c.by), inGroup \in BOOLEAN :
            LateCreate(c, comment, inGroup)
       \/ LateDrop(c)
  \/ \E u \in UserIds : OperatorRemove(u)
  \/ ConfigWrite
  \/ ConfigDelete
  \/ \E inflight \in SUBSET Requests : Crash(inflight)

Next ==
  \/ \E r \in Requests : Issue(r) \/ Lease(r)
  \/ Rollback
  \/ Environment

Spec == Init /\ [][Next]_vars

-----------------------------------------------------------------------------
(* Safety *)

\* Somebody other than the WAL has the duty to delete user u, or had it: the lease
\* or the answer that will become one, or the handler that takes the credential
\* back.  The two outcomes are where the duty ends with the user still there.
Answered == {"respond", "lastdelete"} \cup LeaseSteps
Forgotten == {"lost", "stranded"}
ChargedUser(u) ==
  \E r \in Requests : /\ pc[r] \in Answered \cup Forgotten
                     /\ userid[r] = u
                     /\ users[u].owner = Nonce(r)

\* cleanupUser's "never orphan a user with no WAL entry", as far as it goes: a
\* user the engine created is in a lease, or in the hands of the handler that is
\* answering, or is named, with its nonce, by a WAL entry, so that some later step
\* will delete it, whatever failed or crashed.  A user whose comment PVE dropped is
\* beyond proof of ownership.  There are two ways out.  The code accepts that an
\* answer is lost in a crash before its lease is registered.  The other is the one
\* of NoOrphanWithoutWAL: DeleteWAL took effect with an error, and the handler's
\* DeleteUser failed or was never made.
NeverOrphaned ==
  \A u \in UserIds :
    (Present(u) /\ users[u].owner # Nobody /\ users[u].comment = users[u].owner)
    => \/ ChargedUser(u)
       \/ \E e \in wal : e.user = u /\ e.nonce = users[u].owner

\* What handleCredsRead says of its last error path, "credential not returned to
\* prevent orphan without WAL" (path_creds.go:383): a read that was answered with
\* an error leaves no user of its own without a WAL entry.
NoOrphanWithoutWAL ==
  \A r \in Requests : pc[r] \in {"failed", "stranded"} =>
    LET u == users[userid[r]] IN
    u.st = "present" /\ u.owner = Nonce(r) /\ u.comment = Nonce(r) => Entry(r) \in wal

\* A credential that was handed out works until its lease is revoked: nothing
\* the engine does for another request, a cleanup or a rollback has deleted its
\* user, unless an operator did.  It has the group, in token mode the token,
\* and in password mode the nonce that proves who created it.
IssuedCredentialIntact ==
  \A r \in Requests : pc[r] \in {"respond", "leased"} =>
    LET u == users[userid[r]] IN
    /\ u.owner = Nonce(r)
    /\ u.st \in {"present", "removed"}
    /\ u.inGroup
    /\ mode[r] = "token" => u.token
    /\ mode[r] = "password" => u.comment = Nonce(r)

\* Neither a collision, a cleanup, a revocation nor the rollback of a stale or
\* a legacy WAL entry ever deletes an account the engine did not create.
ForeignUntouched ==
  \A u \in Foreign : Present(u) /\ users[u].owner = Nobody

\* A revoked lease leaves no usable user behind, even when the first attempts
\* to revoke it were answered with errors.
RevokedIsGone ==
  \A r \in Requests : pc[r] = "revoked" =>
    ~(Present(userid[r]) /\ users[userid[r]].owner = Nonce(r))

-----------------------------------------------------------------------------
(* The inductive invariant behind these properties *)

\* Steps of a handler whose CreateUser has been answered with success, and what
\* can become of it from there on.
CreatedSteps == {"readback", "token", "delwal", "lastdelete", "cleanup", "cleanupwal"}
AfterCreate == CreatedSteps \cup {"respond"} \cup LeaseSteps \cup Outcomes

\* Only the latest attempt of a request can have created a user: it goes on to
\* another attempt after a collision only.
OwnerIsLatest ==
  \A u \in UserIds : users[u].owner # Nobody =>
    \E r \in Requests : /\ users[u].owner = Nonce(r)
                       /\ userid[r] = u
                       /\ pc[r] \in AfterCreate

\* A CreateUser still to be executed is one of a handler that is over, and its
\* WAL entry is there.
LateIsCovered ==
  \A c \in late :
    /\ [id |-> c.by, user |-> c.user, nonce |-> c.by] \in wal
    /\ \E r \in Requests : /\ c.by = Nonce(r)
                          /\ c.user = userid[r]
                          /\ pc[r] \in {"failed", "crashed"}

\* WAL entries say what their attempt has drawn, and a collided attempt has left
\* none: an entry is that of the latest attempt of its request.
WalIsFaithful ==
  \A e \in wal :
    IF e.id = LegacyId
    THEN e.nonce = NoComment
    ELSE /\ e.nonce = e.id
         /\ \A r \in Requests : e.id = Nonce(r) => e.user = userid[r]
         /\ \A r \in Requests, k \in 1 .. MaxCollisionRetries :
              e.id = <<r, k>> => k = attempt[r] /\ pc[r] \notin {"idle", "attempt"}

\* A handler's entry is there for as long as the handler relies on it: until it
\* asks for its deletion.
HeldEntryKept ==
  \A r \in Requests : pc[r] \in HoldSteps \ {"lastdelete"} => Entry(r) \in wal

\* The rollback works on an entry that nobody else uses or removes, and drops
\* it when its user is gone or is not provably the engine's.
RollbackIsSafe ==
  rb.pc # "idle" =>
    /\ rb.entry \in wal
    /\ Aged(rb.entry)
    /\ rb.pc = "drop" =>
         LET u == users[rb.entry.user] IN
         ~(u.st = "present" /\ u.owner # Nobody /\ u.owner = rb.entry.nonce
           /\ u.comment = u.owner)

\* A cleanup that succeeded has deleted its user.
CleanedIsGone ==
  \A r \in Requests : pc[r] = "cleanupwal" =>
    ~(Present(userid[r]) /\ users[userid[r]].owner = Nonce(r))

\* No handler, lease or rollback is about to delete a foreign account.
ForeignIsSafe ==
  /\ \A u \in Foreign : users[u].comment = NoComment
  /\ \A r \in Requests : pc[r] \in CreatedSteps \cup {"respond"} \cup LeaseSteps =>
       userid[r] \notin Foreign
  /\ rb.pc = "delete" => rb.entry.user \notin Foreign

\* The attempts of a handler that may still draw are not used up.
AttemptsLeft ==
  \A r \in Requests :
    /\ pc[r] \in {"idle", "attempt"} => attempt[r] < MaxCollisionRetries
    /\ pc[r] \in HoldSteps \cup {"respond"} \cup LeaseSteps =>
         attempt[r] \in 1 .. MaxCollisionRetries

\* What every step preserves, whatever fails, crashes or is answered late.
CredentialInv ==
  /\ TypeOK
  /\ AttemptsLeft
  /\ OwnerIsLatest
  /\ LateIsCovered
  /\ WalIsFaithful
  /\ HeldEntryKept
  /\ RollbackIsSafe
  /\ CleanedIsGone
  /\ RevokedIsGone
  /\ ForeignIsSafe
  /\ ForeignUntouched
  /\ NeverOrphaned

\* Where a userid is never used twice, the user of a handler past CreateUser is
\* the one it created, and the comment of a user its creator's nonce or empty; a
\* userid that was never used has no creator.
CreatorKept ==
  /\ \A r \in Requests : pc[r] \in CreatedSteps \cup {"respond"} \cup LeaseSteps =>
       users[userid[r]].owner = Nonce(r) /\ users[userid[r]].st # "never"
  /\ \A u \in UserIds : users[u].comment \in {users[u].owner, NoComment}
  /\ \A u \in UserIds : users[u].st = "never" => users[u].owner = Nobody

\* The WAL entry of an issued credential is gone, so no rollback can reach it.
IssuedIsCommitted ==
  \A r \in Requests : pc[r] \in {"respond"} \cup LeaseSteps \cup Forgotten =>
    \A e \in wal : e.id # Nonce(r)

\* What a handler has made sure of before it hands the credential out.
IssuanceChecked ==
  \A r \in Requests : pc[r] \in {"token", "delwal"} =>
    LET u == users[userid[r]] IN
    /\ u.st \in {"present", "removed"}
    /\ u.inGroup
    /\ pc[r] = "token" => mode[r] = "token"
    /\ pc[r] = "delwal" /\ mode[r] = "token" => u.token
    /\ pc[r] = "delwal" /\ mode[r] = "password" => u.comment = Nonce(r)

\* A rollback deletes only a user whose ownership it has proved, still.
ProofStillHolds ==
  rb.pc = "delete" => OwnershipProved(rb.entry) /\ users[rb.entry.user].st # "never"

IssuanceInv ==
  /\ CreatorKept
  /\ IssuedIsCommitted
  /\ IssuanceChecked
  /\ ProofStillHolds
  /\ IssuedCredentialIntact

-----------------------------------------------------------------------------
(* The contract this implements *)

\* Who is to delete the account of attempt n: the WAL as long as it has an entry,
\* then the answer and the lease, or the handler that takes the credential back.
DutyOf(n) ==
  LET r == n[1]
      holder == IF n = Nonce(r) THEN pc[r] ELSE "failed"
  IN  IF n[2] > attempt[r] THEN "none"
      ELSE IF \E e \in wal : e.id = n THEN "wal"
      ELSE CASE holder = "respond"    -> "offered"
             [] holder = "leased"     -> "lease"
             [] holder = "revoking"   -> "ending"
             [] holder = "lastdelete" -> "recalled"
             [] holder \in Forgotten  -> "lost"
             [] OTHER -> "done"

\* PVE may still make the account of attempt n.
Awaited(n) == \/ pc[n[1]] = "create" /\ n = Nonce(n[1])
              \/ \E c \in late : c.by = n

\* What has become of that account.
AccountOf(n) ==
  LET u == users[userid[n[1]]] IN
  IF u.owner = n
  THEN IF u.st # "present" THEN u.st
       ELSE IF u.comment = n THEN "proved" ELSE "blank"
  ELSE IF n[2] > attempt[n[1]] THEN "none"
  ELSE IF Awaited(n) THEN "asked" ELSE "refused"

Contract == INSTANCE CredentialContract
  WITH duty <- [n \in Attempts |-> DutyOf(n)],
       account <- [n \in Attempts |-> AccountOf(n)]

\* Where no suffix is drawn twice, every account the engine makes is some one's to
\* delete from before PVE can make it until it is gone, the duty goes from the WAL
\* to the lease, or back to the handler if its deletion was answered with an error,
\* and never back to the WAL; no handler, rollback or revocation deletes an account
\* of a duty that is not its own; a read makes one account at most; and the duty is
\* given up only by a crash of the handler that has it, or by its failing DeleteUser.
Accountable == Contract!ContractSpec

-----------------------------------------------------------------------------
(* Liveness, under the fairness that IssuanceTiming states *)

\* A user left by an issuance that failed or crashed, but for the two outcomes that
\* NeverOrphaned names, which leave nothing that could sweep it.
Orphan(u) ==
  /\ Present(u)
  /\ users[u].owner # Nobody
  /\ users[u].comment = users[u].owner
  /\ \E r \in Requests : /\ pc[r] \in {"failed", "crashed"}
                        /\ users[u].owner = Nonce(r)

\* Once there is a config to reach PVE with, walRollbackUser deletes every
\* orphan, through any finite run of crashes, outages and lost answers.
OrphanSwept ==
  <>[]config => \A u \in UserIds : Orphan(u) ~> ~Orphan(u)

\* The WAL does not fill up: entries of absent, foreign or deleted users are
\* dropped, and no entry is retried for ever.
WalDrains == <>[]config => <>[](wal = {})

\* An errored revocation is retried to its end.
RevocationCompletes ==
  <>[]config => \A r \in Requests : pc[r] = "revoking" ~> pc[r] = "revoked"
=============================================================================
