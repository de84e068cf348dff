--------------------------- MODULE CredentialProofs ---------------------------
(***************************************************************************)
(* Proofs about CredentialLifecycle, for any number of requests, userids,  *)
(* retries and crashes.                                                    *)
(***************************************************************************)
EXTENDS CredentialLifecycle, TLAPS

-----------------------------------------------------------------------------
(* Types *)

\* The placeholder of an unused userid is a userid.
LEMMA AnyUserIsUser == AnyUser \in UserIds
  BY ForeignAssumption DEF AnyUser

\* No rollback in progress is a typed state of the rollback.
LEMMA NoRollbackTyped == NoRollback \in Rollbacks
  BY AnyUserIsUser DEF NoRollback, Rollbacks, WalEntries

\* The attempt of a handler that holds a WAL entry is a numbered attempt.
LEMMA NonceIsAttempt ==
  ASSUME TypeOK, AttemptsLeft, NEW r \in Requests, pc[r] \in HoldSteps
  PROVE  Nonce(r) \in Attempts
  BY DEF TypeOK, AttemptsLeft, Nonce, Attempts

\* PVE's changes to a user: deletion (or removal), a token, and creation.
LEMMA UserGoneTyped ==
  ASSUME users \in [UserIds -> Users], NEW u \in UserIds,
         NEW how \in {"deleted", "removed"}
  PROVE  [users EXCEPT ![u].st = how] \in [UserIds -> Users]
  BY DEF Users

\* CreateToken gives a user a token and leaves the rest of it typed.
LEMMA UserTokenTyped ==
  ASSUME users \in [UserIds -> Users], NEW u \in UserIds
  PROVE  [users EXCEPT ![u].token = TRUE] \in [UserIds -> Users]
  <1>1. [users[u] EXCEPT !.token = TRUE] \in Users
    BY DEF Users
  <1> QED
    BY <1>1

\* DeleteUser leaves users typed, whether or not there was one.
LEMMA DeleteUserTyped ==
  ASSUME users \in [UserIds -> Users], NEW u \in UserIds, DeleteUser(u)
  PROVE  users' \in [UserIds -> Users]
  BY UserGoneTyped DEF DeleteUser

\* The class ErrUserNotFound is given to no answer about a user that is there: the
\* gate on the status and the choice of the text keep other errors out of it.
LEMMA NotFoundIsAbsent ==
  ASSUME NEW u \in UserIds, ErrUserNotFound(u)
  PROVE  ~Present(u)
  <1> SUFFICES ASSUME Present(u) PROVE FALSE
    OBVIOUS
  <1>1. PICK a \in Faults : classifyPVEError(a) = "ErrUserNotFound"
    BY DEF ErrUserNotFound, FaultClasses
  <1>2. a.status \in {400, 500} /\ PhraseClass(haystack(a)) = "ErrUserNotFound"
    BY <1>1 DEF classifyPVEError
  <1>3. "no such user" \in haystack(a)
    BY <1>2 DEF PhraseClass
  <1> QED
    BY <1>2, <1>3, FaultsAssumption

\* Nor is ErrConflict to one about a userid that is free: handleCredsRead drops
\* the WAL entry of an attempt only if another user has its userid.
LEMMA ConflictIsTaken ==
  ASSUME NEW u \in UserIds, ErrConflict(u)
  PROVE  Present(u)
  <1> SUFFICES ASSUME ~Present(u) PROVE FALSE
    OBVIOUS
  <1>1. PICK a \in Faults : classifyPVEError(a) = "ErrConflict"
    BY DEF ErrConflict, FaultClasses
  <1>2. a.status \in {400, 500} /\ PhraseClass(haystack(a)) = "ErrConflict"
    BY <1>1 DEF classifyPVEError
  <1>3. "already exists" \in haystack(a)
    BY <1>2 DEF PhraseClass
  <1> QED
    BY <1>2, <1>3, FaultsAssumption

\* CreateUser leaves users typed, with or without the comment and the group.
LEMMA CreateUserTyped ==
  ASSUME users \in [UserIds -> Users], NEW u \in UserIds, NEW by \in Attempts,
         NEW comment \in Comments(by), NEW inGroup \in BOOLEAN,
         CreateUser(u, by, comment, inGroup)
  PROVE  users' \in [UserIds -> Users]
  BY DEF CreateUser, Users, Comments

\* The first state is typed, and every request has its attempts before it.
LEMMA TypeInit == Init => TypeOK /\ AttemptsLeft
  <1> SUFFICES ASSUME Init PROVE TypeOK /\ AttemptsLeft
    OBVIOUS
  <1>1. TypeOK
    BY AnyUserIsUser, NoRollbackTyped, ForeignAssumption, RetriesAssumption, CrashAssumption
    DEF Init, TypeOK, Users, WalEntries, LegacyEntry, Steps
  <1>2. AttemptsLeft
    BY RetriesAssumption DEF Init, AttemptsLeft, HoldSteps, LeaseSteps
  <1> QED
    BY <1>1, <1>2

\* A handler keeps the types and does not count past the last attempt.
LEMMA IssueTyped ==
  ASSUME TypeOK, AttemptsLeft, NEW r \in Requests, Issue(r)
  PROVE  TypeOK' /\ AttemptsLeft'
  <1> USE DEF TypeOK, AttemptsLeft, handler, Goto, Steps, HandlerSteps, HoldSteps,
              LeaseSteps, Outcomes
  <1>1. CASE \/ Refuse(r) \/ CreateUserConflict(r) \/ CreateUserErr(r)
             \/ ReadBackOk(r) \/ ReadBackErr(r) \/ RegisterLease(r)
    BY <1>1 DEF Refuse, CreateUserConflict, CreateUserErr, ReadBackOk, ReadBackErr,
                RegisterLease
  <1>2. ASSUME NEW m \in {"token", "password"}, Begin(r, m)
        PROVE  TypeOK' /\ AttemptsLeft'
    BY <1>2 DEF Begin
  <1>3. CASE (\E u \in UserIds : PutWALOk(r, u)) \/ PutWALErr(r)
    <2>1. ASSUME NEW u \in UserIds, pc[r] = "attempt", LogAttempt(r, u),
                 NEW step \in {"create", "failed"}, Goto(r, step),
                 UNCHANGED <<users, late, config, rb, crashes>>
          PROVE  TypeOK' /\ AttemptsLeft'
      BY <2>1, RetriesAssumption DEF LogAttempt, PutWAL, WalEntries, Attempts
    <2>2. CASE PutWALErr(r) /\ UNCHANGED <<wal, handler>>
      BY <2>2 DEF PutWALErr
    <2> QED
      BY <1>3, <2>1, <2>2 DEF PutWALOk, PutWALErr
  <1>4. ASSUME NEW comment \in Comments(Nonce(r)), NEW inGroup \in BOOLEAN,
               CreateUserOk(r, comment, inGroup)
        PROVE  TypeOK' /\ AttemptsLeft'
    BY <1>4, NonceIsAttempt, CreateUserTyped DEF CreateUserOk
  <1>5. CASE CreateUserTimeout(r)
    BY <1>5, NonceIsAttempt DEF CreateUserTimeout, Creates
  <1>6. CASE \/ CollisionDeleteWALOk(r) \/ CollisionDeleteWALErr(r) \/ IssueDeleteWALOk(r)
             \/ IssueDeleteWALErr(r) \/ CleanupDeleteWAL(r)
    BY <1>6 DEF CollisionDeleteWALOk, CollisionDeleteWALErr, IssueDeleteWALOk,
                IssueDeleteWALErr, CleanupDeleteWAL, DeleteWALErr, DeleteWAL
  <1>7. CASE CreateTokenOk(r) \/ CreateTokenErr(r)
    BY <1>7, UserTokenTyped DEF CreateTokenOk, CreateTokenErr
  <1>8. CASE LastDelete(r) \/ CleanupOk(r) \/ CleanupErr(r)
    BY <1>8, DeleteUserTyped DEF LastDelete, CleanupOk, CleanupErr, DeleteUserErr
  <1> QED
    BY <1>1, <1>2, <1>3, <1>4, <1>5, <1>6, <1>7, <1>8 DEF Issue

\* So do leases, the rollback and the environment.
LEMMA OtherTyped ==
  ASSUME TypeOK, AttemptsLeft,
         (\E r \in Requests : Lease(r)) \/ Rollback \/ Environment
  PROVE  TypeOK' /\ AttemptsLeft'
  <1> USE DEF TypeOK, AttemptsLeft, handler, Goto, Steps, HandlerSteps, HoldSteps,
              LeaseSteps, Outcomes
  <1>1. ASSUME NEW r \in Requests, Lease(r)
        PROVE  TypeOK' /\ AttemptsLeft'
    BY <1>1, DeleteUserTyped DEF Lease, Revoke, RevokeOk, RevokeErr
  <1>2. CASE Rollback
    <2>1. ASSUME NEW e \in wal, RollbackStart(e)
          PROVE  TypeOK' /\ AttemptsLeft'
      BY <2>1 DEF RollbackStart, Rollbacks
    <2>2. CASE RollbackGetUser
      BY <2>2 DEF RollbackGetUser, Rollbacks
    <2>3. CASE RollbackDeleteUser
      BY <2>3, DeleteUserTyped DEF RollbackDeleteUser, Rollbacks, WalEntries
    <2>4. CASE RollbackErr
      BY <2>4, DeleteUserTyped, NoRollbackTyped
      DEF RollbackErr, DeleteUserErr, Rollbacks, WalEntries
    <2>5. CASE RollbackDropWAL \/ RollbackDropErr
      BY <2>5, NoRollbackTyped DEF RollbackDropWAL, RollbackDropErr, DeleteWAL
    <2> QED
      BY <1>2, <2>1, <2>2, <2>3, <2>4, <2>5 DEF Rollback
  <1>3. CASE Environment
    <2>1. ASSUME NEW c \in late, NEW comment \in Comments(c.by),
                 NEW inGroup \in BOOLEAN, LateCreate(c, comment, inGroup)
          PROVE  TypeOK' /\ AttemptsLeft'
      <3>1. c.by \in Attempts /\ c.user \in UserIds
        BY DEF Creates
      <3>2. users' \in [UserIds -> Users]
        BY <2>1, <3>1, CreateUserTyped DEF LateCreate
      <3> QED
        BY <2>1, <3>2 DEF LateCreate
    <2>2. ASSUME NEW c \in late, LateDrop(c)
          PROVE  TypeOK' /\ AttemptsLeft'
      BY <2>2 DEF LateDrop
    <2>3. ASSUME NEW u \in UserIds, OperatorRemove(u)
          PROVE  TypeOK' /\ AttemptsLeft'
      BY <2>3, UserGoneTyped DEF OperatorRemove
    <2>4. CASE ConfigWrite \/ ConfigDelete
      BY <2>4 DEF ConfigWrite, ConfigDelete
    <2>5. ASSUME NEW inflight \in SUBSET Requests, Crash(inflight)
          PROVE  TypeOK' /\ AttemptsLeft'
      <3>1. late' \subseteq Creates
        BY <2>5, NonceIsAttempt DEF Crash, Creates
      <3>2. pc' \in [Requests -> Steps] /\ AttemptsLeft'
        BY <2>5 DEF Crash
      <3>3. crashes' \in 0 .. MaxCrashes
        BY <2>5, CrashAssumption DEF Crash
      <3> QED
        BY <2>5, <3>1, <3>2, <3>3, NoRollbackTyped DEF Crash
    <2> QED
      BY <1>3, <2>1, <2>2, <2>3, <2>4, <2>5 DEF Environment
  <1> QED
    BY <1>1, <1>2, <1>3

\* Type correctness, with the bound on the attempts of a request that
\* handleCredsRead's retry loop keeps.
THEOREM TypeCorrect == Spec => [](TypeOK /\ AttemptsLeft)
  <1>1. TypeOK /\ AttemptsLeft /\ [Next]_vars => TypeOK' /\ AttemptsLeft'
    <2>1. CASE UNCHANGED vars
      BY <2>1 DEF vars, TypeOK, AttemptsLeft
    <2> QED
      BY <2>1, IssueTyped, OtherTyped DEF Next
  <1> QED
    BY TypeInit, <1>1, PTL DEF Spec

-----------------------------------------------------------------------------
(* The inductive invariant *)

\* CredentialInv without the types.
Safe ==
  /\ OwnerIsLatest
  /\ LateIsCovered
  /\ WalIsFaithful
  /\ HeldEntryKept
  /\ RollbackIsSafe
  /\ CleanedIsGone
  /\ RevokedIsGone
  /\ ForeignIsSafe
  /\ ForeignUntouched
  /\ NeverOrphaned

\* At first there are foreign accounts and perhaps a legacy entry, and no more.
LEMMA SafeInit == Init => Safe
  <1> SUFFICES ASSUME Init PROVE Safe
    OBVIOUS
  <1>1. OwnerIsLatest /\ LateIsCovered /\ CleanedIsGone /\ RevokedIsGone /\ NeverOrphaned
    BY DEF Init, OwnerIsLatest, LateIsCovered, CleanedIsGone, RevokedIsGone, NeverOrphaned
  <1>2. WalIsFaithful
    BY DEF Init, WalIsFaithful, LegacyEntry
  <1>3. HeldEntryKept /\ RollbackIsSafe
    BY DEF Init, HeldEntryKept, HoldSteps, RollbackIsSafe, NoRollback
  <1>4. ForeignIsSafe /\ ForeignUntouched
    BY ForeignAssumption
    DEF Init, ForeignIsSafe, ForeignUntouched, Present, CreatedSteps, LeaseSteps,
        NoRollback
  <1> QED
    BY <1>1, <1>2, <1>3, <1>4 DEF Safe

\* Requests and attempts are told apart by their nonces.
LEMMA NonceInjective ==
  ASSUME NEW r \in Requests, NEW q \in Requests, Nonce(r) = Nonce(q)
  PROVE  r = q
  BY DEF Nonce

\* A create that PVE may still execute stays covered: its entry stays in the
\* WAL, and the request that gave up on it does not come back.
LEMMA LateKept ==
  ASSUME LateIsCovered, late' \subseteq late,
         \A c \in late : LET e == [id |-> c.by, user |-> c.user, nonce |-> c.by]
                         IN  e \in wal => e \in wal',
         \A q \in Requests : pc[q] \in {"failed", "crashed"} =>
           Nonce(q)' = Nonce(q) /\ userid'[q] = userid[q] /\ pc'[q] = pc[q]
  PROVE  LateIsCovered'
  <1> SUFFICES ASSUME NEW c \in late'
               PROVE  /\ [id |-> c.by, user |-> c.user, nonce |-> c.by] \in wal'
                      /\ \E r \in Requests : /\ c.by = Nonce(r)' /\ c.user = userid'[r]
                                            /\ pc'[r] \in {"failed", "crashed"}
    BY DEF LateIsCovered
  <1>1. c \in late
    OBVIOUS
  <1>2. [id |-> c.by, user |-> c.user, nonce |-> c.by] \in wal'
    BY <1>1 DEF LateIsCovered
  <1>3. PICK r \in Requests : /\ c.by = Nonce(r) /\ c.user = userid[r]
                              /\ pc[r] \in {"failed", "crashed"}
    BY <1>1 DEF LateIsCovered
  <1> QED
    BY <1>2, <1>3

\* A step in which only the handler's own program counter moves.
LEMMA MoveSafe ==
  ASSUME CredentialInv, TypeOK', NEW r \in Requests,
         \/ Refuse(r) \/ CreateUserConflict(r) \/ CreateUserErr(r) \/ ReadBackOk(r)
         \/ ReadBackErr(r) \/ RegisterLease(r) \/ Revoke(r)
         \/ PutWALErr(r) /\ UNCHANGED <<wal, handler>>
         \/ \E m \in {"token", "password"} : Begin(r, m)
  PROVE  Safe'
  <1> DEFINE step == pc'[r]
  <1>1. /\ UNCHANGED <<users, late, wal, rb, attempt, userid>>
        /\ pc' = [pc EXCEPT ![r] = step]
        /\ \/ pc[r] \in {"idle", "attempt"} /\ step \in {"attempt", "failed"}
           \/ pc[r] = "create" /\ step \in {"collision", "failed"}
           \/ pc[r] = "readback" /\ step \in {"token", "delwal", "cleanup"}
           \/ pc[r] = "respond" /\ step = "leased"
           \/ pc[r] = "leased" /\ step = "revoking"
    BY DEF Refuse, PutWALErr, CreateUserConflict, CreateUserErr, ReadBackOk, ReadBackErr,
           RegisterLease, Revoke, Begin, Goto, handler, CreatedSteps, CredentialInv, TypeOK
  <1> HIDE DEF step
  <1> USE DEF CredentialInv, TypeOK, CreatedSteps, HoldSteps, LeaseSteps
  <1>2. OwnerIsLatest'
    BY <1>1 DEF OwnerIsLatest, Nonce, AfterCreate, Outcomes
  <1>3. LateIsCovered'
    BY <1>1 DEF LateIsCovered, Nonce
  <1>4. WalIsFaithful'
    BY <1>1 DEF WalIsFaithful, Nonce
  <1>5. HeldEntryKept'
    BY <1>1 DEF HeldEntryKept, Entry, Nonce
  <1>6. RollbackIsSafe'
    BY <1>1 DEF RollbackIsSafe, Aged, Holds, Nonce
  <1>7. CleanedIsGone' /\ RevokedIsGone'
    BY <1>1 DEF CleanedIsGone, RevokedIsGone, Present, Nonce
  <1>8. ForeignIsSafe' /\ ForeignUntouched'
    BY <1>1 DEF ForeignIsSafe, ForeignUntouched, Present
  <1>9. NeverOrphaned'
    BY <1>1 DEF NeverOrphaned, ChargedUser, Answered, Forgotten, Present, Nonce
  <1> QED
    BY <1>2, <1>3, <1>4, <1>5, <1>6, <1>7, <1>8, <1>9 DEF Safe

\* A new attempt writes the entry of a nonce that was never used, and goes on to
\* CreateUser, or fails if PutWAL was answered with an error.
LEMMA PutWALSafe ==
  ASSUME CredentialInv, TypeOK', NEW r \in Requests, NEW u \in UserIds, pc[r] = "attempt",
         LogAttempt(r, u), NEW step \in {"create", "failed"}, Goto(r, step),
         UNCHANGED <<users, late, rb>>
  PROVE  Safe'
  <1> DEFINE e0 == [id |-> <<r, attempt[r] + 1>>, user |-> u,
                    nonce |-> <<r, attempt[r] + 1>>]
  <1>1. /\ pc[r] = "attempt"
        /\ pc' = [pc EXCEPT ![r] = step]
        /\ attempt' = [attempt EXCEPT ![r] = attempt[r] + 1]
        /\ userid' = [userid EXCEPT ![r] = u]
        /\ wal' = wal \cup {e0}
        /\ UNCHANGED <<users, late, rb>>
    BY DEF LogAttempt, PutWAL, Goto
  <1>2. /\ Nonce(r)' = <<r, attempt[r] + 1>>
        /\ \A q \in Requests \ {r} : Nonce(q)' = Nonce(q) /\ userid'[q] = userid[q]
    BY <1>1 DEF Nonce, CredentialInv, TypeOK
  <1>3. \A e \in wal : e.id # Nonce(r)'
    <2>1. attempt[r] + 1 \in 1 .. MaxCollisionRetries /\ ~(attempt[r] + 1 <= attempt[r])
      BY <1>1, RetriesAssumption DEF CredentialInv, TypeOK, AttemptsLeft
    <2>2. Nonce(r)' # LegacyId
      BY <1>2, <2>1, TagAssumption DEF Attempts
    <2> QED
      BY <1>2, <2>1, <2>2 DEF CredentialInv, WalIsFaithful
  <1> USE DEF CredentialInv, TypeOK, CreatedSteps, HoldSteps, LeaseSteps
  <1>4. OwnerIsLatest'
    BY <1>1, <1>2 DEF OwnerIsLatest, AfterCreate, Outcomes
  <1>5. LateIsCovered'
    <2>1. \A q \in Requests : pc[q] \in {"failed", "crashed"} =>
            Nonce(q)' = Nonce(q) /\ userid'[q] = userid[q] /\ pc'[q] = pc[q]
      BY <1>1, <1>2
    <2> QED
      BY <1>1, <2>1, LateKept
  <1>6. WalIsFaithful'
    <2>1. SUFFICES ASSUME NEW e \in wal'
                   PROVE  IF e.id = LegacyId THEN e.nonce = NoComment
                          ELSE /\ e.nonce = e.id
                               /\ \A q \in Requests : e.id = Nonce(q)' => e.user = userid'[q]
                               /\ \A q \in Requests, k \in 1 .. MaxCollisionRetries :
                                    e.id = <<q, k>> =>
                                      k = attempt'[q] /\ pc'[q] \notin {"idle", "attempt"}
      BY DEF WalIsFaithful
    <2>2. CASE e = e0
      BY <1>1, <1>2, <2>2, TagAssumption DEF Nonce, AttemptsLeft, Attempts
    <2>3. CASE e \in wal
      BY <1>1, <1>2, <1>3, <2>3 DEF WalIsFaithful
    <2> QED
      BY <1>1, <2>2, <2>3
  <1>7. HeldEntryKept'
    BY <1>1, <1>2 DEF HeldEntryKept, Entry
  <1>8. RollbackIsSafe'
    BY <1>1, <1>2, <1>3 DEF RollbackIsSafe, Aged, Holds
  <1>9. CleanedIsGone' /\ RevokedIsGone'
    BY <1>1, <1>2 DEF CleanedIsGone, RevokedIsGone, Present
  <1>10. ForeignIsSafe' /\ ForeignUntouched'
    BY <1>1 DEF ForeignIsSafe, ForeignUntouched, Present
  <1>11. NeverOrphaned'
    BY <1>1, <1>2 DEF NeverOrphaned, ChargedUser, Answered, Forgotten, Present
  <1> QED
    BY <1>4, <1>5, <1>6, <1>7, <1>8, <1>9, <1>10, <1>11 DEF Safe

\* The effect of a CreateUser, by a handler or late: one user, with the nonce of
\* an attempt that has an entry in the WAL and created no other user.
LEMMA CreateSafe ==
  ASSUME CredentialInv, TypeOK', NEW r \in Requests, NEW comment \in Comments(Nonce(r)),
         NEW inGroup \in BOOLEAN, Creatable(userid[r]),
         CreateUser(userid[r], Nonce(r), comment, inGroup),
         Nonce(r) \in Attempts, Entry(r) \in wal,
         rb.pc # "idle" => rb.entry.id # Nonce(r),
         UNCHANGED <<wal, config, handler, rb>>,
         late' \subseteq late,
         \A c \in late' : c.by # Nonce(r),
         \/ pc[r] = "create" /\ pc' = [pc EXCEPT ![r] = "readback"]
         \/ pc[r] \in {"failed", "crashed"} /\ pc' = pc
  PROVE  Safe'
  <1> DEFINE u == userid[r]
  <1>1. /\ u \in UserIds
        /\ u \notin Foreign
        /\ users'[u] = [st |-> "present", owner |-> Nonce(r), comment |-> comment,
                        inGroup |-> inGroup, token |-> FALSE]
        /\ \A v \in UserIds \ {u} : users'[v] = users[v]
    BY DEF CreateUser, CredentialInv, TypeOK, Creatable, ForeignUntouched, Present
  <1>2. UNCHANGED <<attempt, userid>> /\ \A q \in Requests : Nonce(q)' = Nonce(q)
    BY DEF handler, Nonce
  <1> HIDE DEF u
  <1> USE DEF CredentialInv, TypeOK, CreatedSteps, HoldSteps, LeaseSteps
  <1>3. OwnerIsLatest'
    BY <1>1, <1>2 DEF OwnerIsLatest, AfterCreate, Outcomes, u
  <1>4. LateIsCovered'
    BY <1>2 DEF LateIsCovered
  <1>5. WalIsFaithful' /\ HeldEntryKept'
    BY <1>2 DEF WalIsFaithful, HeldEntryKept, Entry
  <1>6. RollbackIsSafe'
    <2>1. rb.pc # "idle" => rb.entry.nonce # Nonce(r)
      BY TagAssumption DEF RollbackIsSafe, WalIsFaithful
    <2>2. rb.pc # "idle" => rb.entry \in wal' /\ Aged(rb.entry)'
      BY <1>2 DEF RollbackIsSafe, Aged, Holds
    <2> QED
      BY <1>1, <1>2, <2>1, <2>2 DEF RollbackIsSafe, Rollbacks, WalEntries
  <1>7. CleanedIsGone' /\ RevokedIsGone'
    BY <1>1, <1>2, NonceInjective DEF CleanedIsGone, RevokedIsGone, Present
  <1>8. ForeignIsSafe' /\ ForeignUntouched'
    BY <1>1, <1>2, ForeignAssumption DEF ForeignIsSafe, ForeignUntouched, Present, u
  <1>9. NeverOrphaned'
    BY <1>1, <1>2 DEF NeverOrphaned, ChargedUser, Answered, Forgotten, Present, Entry, u
  <1> QED
    BY <1>3, <1>4, <1>5, <1>6, <1>7, <1>8, <1>9 DEF Safe

\* A handler that gives up on CreateUser leaves the call and its entry behind.
LEMMA TimeoutSafe ==
  ASSUME CredentialInv, TypeOK', NEW r \in Requests, CreateUserTimeout(r)
  PROVE  Safe'
  <1>1. /\ pc[r] = "create"
        /\ pc' = [pc EXCEPT ![r] = "failed"]
        /\ late' = late \cup {[by |-> Nonce(r), user |-> userid[r]]}
        /\ UNCHANGED <<users, wal, rb, attempt, userid>>
    BY DEF CreateUserTimeout, Goto, handler
  <1>2. \A q \in Requests : Nonce(q)' = Nonce(q)
    BY <1>1 DEF Nonce
  <1> USE DEF CredentialInv, TypeOK, CreatedSteps, HoldSteps, LeaseSteps
  <1>3. OwnerIsLatest'
    BY <1>1, <1>2 DEF OwnerIsLatest, AfterCreate, Outcomes
  <1>4. LateIsCovered'
    <2>1. Entry(r) \in wal' /\ pc'[r] = "failed"
      BY <1>1 DEF HeldEntryKept
    <2>2. ASSUME NEW c \in late'
          PROVE  /\ [id |-> c.by, user |-> c.user, nonce |-> c.by] \in wal'
                 /\ \E q \in Requests : /\ c.by = Nonce(q)'
                                       /\ c.user = userid'[q]
                                       /\ pc'[q] \in {"failed", "crashed"}
      <3>1. CASE c \in late
        BY <1>1, <1>2, <3>1 DEF LateIsCovered
      <3>2. CASE c = [by |-> Nonce(r), user |-> userid[r]]
        BY <1>1, <1>2, <2>1, <3>2 DEF Entry
      <3> QED
        BY <1>1, <3>1, <3>2
    <2> QED
      BY <2>2 DEF LateIsCovered
  <1>5. WalIsFaithful' /\ HeldEntryKept'
    BY <1>1, <1>2 DEF WalIsFaithful, HeldEntryKept, Entry
  <1>6. RollbackIsSafe'
    BY <1>1, <1>2 DEF RollbackIsSafe, Aged, Holds
  <1>7. CleanedIsGone' /\ RevokedIsGone'
    BY <1>1, <1>2 DEF CleanedIsGone, RevokedIsGone, Present
  <1>8. ForeignIsSafe' /\ ForeignUntouched'
    BY <1>1 DEF ForeignIsSafe, ForeignUntouched, Present
  <1>9. NeverOrphaned'
    BY <1>1, <1>2 DEF NeverOrphaned, ChargedUser, Answered, Forgotten, Present
  <1> QED
    BY <1>3, <1>4, <1>5, <1>6, <1>7, <1>8, <1>9 DEF Safe

\* A handler removes its entry when its attempt created nothing (a collision),
\* when a lease takes over, or when the user is deleted; with an error answer it may
\* have removed it.
LEMMA DeleteWALSafe ==
  ASSUME CredentialInv, TypeOK', NEW r \in Requests,
         \/ CollisionDeleteWALOk(r) \/ CollisionDeleteWALErr(r) \/ IssueDeleteWALOk(r)
         \/ IssueDeleteWALErr(r) \/ CleanupDeleteWAL(r)
  PROVE  Safe'
  <1> DEFINE step == pc'[r]
  <1>1. /\ pc' = [pc EXCEPT ![r] = step]
        /\ \/ pc[r] = "collision" /\ step \in {"attempt", "failed"}
           \/ pc[r] = "delwal" /\ step \in {"respond", "lastdelete"}
           \/ pc[r] = "cleanupwal" /\ step = "failed"
        /\ wal' \subseteq wal
        /\ \A e \in wal : e.id # Nonce(r) => e \in wal'
        /\ step = "attempt" => \A e \in wal' : e.id # Nonce(r)
        /\ UNCHANGED <<users, late, rb, attempt, userid>>
    BY DEF CollisionDeleteWALOk, CollisionDeleteWALErr, IssueDeleteWALOk,
           IssueDeleteWALErr, CleanupDeleteWAL, DeleteWALErr, DeleteWAL, Goto, handler, CredentialInv, TypeOK
  <1>2. \A q \in Requests : Nonce(q)' = Nonce(q)
    BY <1>1 DEF Nonce
  <1> HIDE DEF step
  <1> USE DEF CredentialInv, TypeOK, CreatedSteps, HoldSteps, LeaseSteps
  <1>3. OwnerIsLatest'
    BY <1>1, <1>2 DEF OwnerIsLatest, AfterCreate, Outcomes
  <1>4. LateIsCovered'
    <2>1. \A q \in Requests : pc[q] \in {"failed", "crashed"} =>
            Nonce(q)' = Nonce(q) /\ userid'[q] = userid[q] /\ pc'[q] = pc[q]
      BY <1>1, <1>2
    <2>2. \A c \in late : c.by # Nonce(r)
      BY <1>1, NonceInjective DEF LateIsCovered
    <2>3. ASSUME NEW c \in late, [id |-> c.by, user |-> c.user, nonce |-> c.by] \in wal
          PROVE  [id |-> c.by, user |-> c.user, nonce |-> c.by] \in wal'
      BY <1>1, <2>2, <2>3
    <2> QED
      BY <1>1, <2>1, <2>3, LateKept
  <1>5. WalIsFaithful'
    <2>1. ASSUME NEW e \in wal', e.id # LegacyId, NEW q \in Requests,
                 NEW k \in 1 .. MaxCollisionRetries, e.id = <<q, k>>
          PROVE  k = attempt'[q] /\ pc'[q] \notin {"idle", "attempt"}
      <3>1. k = attempt[q] /\ pc[q] \notin {"idle", "attempt"}
        BY <1>1, <2>1 DEF WalIsFaithful
      <3>2. e.id = Nonce(q)
        BY <2>1, <3>1 DEF Nonce
      <3> QED
        BY <1>1, <3>1, <3>2
    <2> QED
      BY <1>1, <1>2, <2>1 DEF WalIsFaithful
  <1>6. HeldEntryKept'
    BY <1>1, <1>2, NonceInjective DEF HeldEntryKept, Entry
  <1>7. RollbackIsSafe'
    BY <1>1, <1>2 DEF RollbackIsSafe, Aged, Holds
  <1>8. CleanedIsGone' /\ RevokedIsGone'
    BY <1>1, <1>2 DEF CleanedIsGone, RevokedIsGone, Present
  <1>9. ForeignIsSafe' /\ ForeignUntouched'
    BY <1>1 DEF ForeignIsSafe, ForeignUntouched, Present
  <1>10. NeverOrphaned'
    <2>1. SUFFICES ASSUME NEW u \in UserIds, Present(u), users[u].owner # Nobody,
                          users[u].comment = users[u].owner
                   PROVE  ChargedUser(u)' \/ \E e \in wal' : e.user = u /\ e.nonce = users[u].owner
      BY <1>1 DEF NeverOrphaned, Present
    <2>2. CASE users[u].owner = Nonce(r)
      <3>1. userid[r] = u /\ pc[r] \in AfterCreate
        BY <2>1, <2>2, NonceInjective DEF OwnerIsLatest
      <3>2. pc[r] = "delwal"
        BY <1>1, <2>1, <2>2, <3>1 DEF CleanedIsGone, AfterCreate, Outcomes
      <3> QED
        BY <1>1, <1>2, <2>2, <3>1, <3>2 DEF ChargedUser, Answered, Forgotten
    <2>3. CASE users[u].owner # Nonce(r) /\ ChargedUser(u)
      BY <1>1, <1>2, <2>3 DEF ChargedUser, Answered, Forgotten
    <2>4. ASSUME users[u].owner # Nonce(r),
                 NEW e \in wal, e.user = u, e.nonce = users[u].owner
          PROVE  e \in wal'
      <3>1. e.nonce \in Attempts
        BY <2>1, <2>4 DEF Users
      <3>2. e.id = e.nonce
        BY <3>1, TagAssumption DEF WalIsFaithful
      <3> QED
        BY <1>1, <2>4, <3>2
    <2> QED
      BY <2>1, <2>2, <2>3, <2>4 DEF NeverOrphaned
  <1> QED
    BY <1>3, <1>4, <1>5, <1>6, <1>7, <1>8, <1>9, <1>10 DEF Safe

\* A step that creates no user, and keeps foreign accounts.
NoNewUser ==
  /\ \A u \in UserIds : /\ users'[u].owner = users[u].owner
                        /\ users'[u].comment = users[u].comment
                        /\ Present(u)' => Present(u)
  /\ \A u \in Foreign : users'[u] = users[u]

LEMMA NoNewUserKeeps ==
  ASSUME TypeOK, OwnerIsLatest, CleanedIsGone, RevokedIsGone, NoNewUser,
         UNCHANGED <<pc, userid>>, \A q \in Requests : Nonce(q)' = Nonce(q)
  PROVE  OwnerIsLatest' /\ CleanedIsGone' /\ RevokedIsGone'
  <1>1. OwnerIsLatest'
    BY DEF OwnerIsLatest, NoNewUser
  <1>2. \A r \in Requests : /\ users'[userid[r]].owner = users[userid[r]].owner
                            /\ Present(userid[r])' => Present(userid[r])
    BY DEF TypeOK, NoNewUser
  <1>3. CleanedIsGone'
    BY <1>2 DEF CleanedIsGone, Present
  <1>4. RevokedIsGone'
    BY <1>2 DEF RevokedIsGone, Present
  <1> QED
    BY <1>1, <1>3, <1>4

\* DeleteUser of a user that is not foreign is such a step, and u is gone.
LEMMA DeleteUserFrame ==
  ASSUME users \in [UserIds -> Users], NEW u \in UserIds \ Foreign, DeleteUser(u)
  PROVE  NoNewUser /\ ~Present(u)'
  BY ForeignAssumption, NotFoundIsAbsent DEF DeleteUser, NoNewUser, Present, Users

\* So is the creation of a token.
LEMMA TokenFrame ==
  ASSUME users \in [UserIds -> Users], NEW u \in UserIds \ Foreign,
         users' = [users EXCEPT ![u].token = TRUE]
  PROVE  NoNewUser
  BY ForeignAssumption DEF NoNewUser, Present, Users

\* Handlers and revocations that delete their user, or give it a token.
LEMMA UserStepSafe ==
  ASSUME CredentialInv, TypeOK', NEW r \in Requests,
         \/ CreateTokenOk(r) \/ CreateTokenErr(r) \/ LastDelete(r) \/ CleanupOk(r)
         \/ CleanupErr(r) \/ RevokeOk(r) \/ RevokeErr(r)
  PROVE  Safe'
  <1> DEFINE step == pc'[r]
  <1>1. /\ pc' = [pc EXCEPT ![r] = step]
        /\ \/ pc[r] = "token" /\ step \in {"delwal", "cleanup"}
           \/ pc[r] = "cleanup" /\ step \in {"failed", "cleanupwal"}
           \/ pc[r] = "lastdelete" /\ step \in {"failed", "stranded"}
           \/ pc[r] = "revoking" /\ step \in {"revoking", "revoked"}
        /\ UNCHANGED <<late, wal, rb, attempt, userid>>
    BY DEF CreateTokenOk, CreateTokenErr, LastDelete, CleanupOk, CleanupErr,
           RevokeOk, RevokeErr, Goto, handler, CreatedSteps, CredentialInv, TypeOK
  <1>2. userid[r] \in UserIds \ Foreign
    BY <1>1 DEF CredentialInv, TypeOK, ForeignIsSafe, LeaseSteps, CreatedSteps
  <1>3. users \in [UserIds -> Users] /\ (users' = users => NoNewUser)
    BY DEF CredentialInv, TypeOK, NoNewUser, Present
  <1>4. NoNewUser /\ (step \in {"cleanupwal", "revoked"} => ~Present(userid[r])')
    BY <1>1, <1>2, <1>3, DeleteUserFrame, TokenFrame
    DEF CreateTokenOk, CreateTokenErr, LastDelete, CleanupOk, CleanupErr,
        RevokeOk, RevokeErr, DeleteUserErr, Goto, CreatedSteps, CredentialInv, TypeOK
  <1>5. \A q \in Requests : Nonce(q)' = Nonce(q)
    BY <1>1 DEF Nonce
  <1>6. pc[r] = "lastdelete" /\ step = "failed" => ~Present(userid[r])' \/ Entry(r) \in wal
    BY <1>1, <1>2, <1>3, DeleteUserFrame
    DEF CreateTokenOk, CreateTokenErr, LastDelete, CleanupOk, CleanupErr,
        RevokeOk, RevokeErr, Goto, CredentialInv, TypeOK
  <1> HIDE DEF step
  <1> USE DEF CredentialInv, TypeOK, CreatedSteps, HoldSteps, LeaseSteps, NoNewUser
  <1>7. OwnerIsLatest'
    BY <1>1, <1>4, <1>5 DEF OwnerIsLatest, AfterCreate, Outcomes
  <1>8. LateIsCovered'
    BY <1>1, <1>5 DEF LateIsCovered
  <1>9. WalIsFaithful' /\ HeldEntryKept'
    BY <1>1, <1>5 DEF WalIsFaithful, HeldEntryKept, Entry
  <1>10. RollbackIsSafe'
    BY <1>1, <1>4, <1>5 DEF RollbackIsSafe, Aged, Holds, Present, Rollbacks, WalEntries
  <1>11. CleanedIsGone' /\ RevokedIsGone'
    BY <1>1, <1>4, <1>5 DEF CleanedIsGone, RevokedIsGone
  <1>12. ForeignIsSafe' /\ ForeignUntouched'
    BY <1>1, <1>2, <1>4, ForeignAssumption DEF ForeignIsSafe, ForeignUntouched, Present
  <1>13. NeverOrphaned'
    <2>1. SUFFICES ASSUME NEW u \in UserIds, Present(u)', users'[u].owner # Nobody,
                          users'[u].comment = users'[u].owner
                   PROVE  ChargedUser(u)' \/ \E e \in wal' : e.user = u /\ e.nonce = users'[u].owner
      BY DEF NeverOrphaned
    <2>2. CASE ~ChargedUser(u)
      BY <1>1, <1>4, <2>1, <2>2 DEF NeverOrphaned
    <2>3. ASSUME NEW q \in Requests, pc[q] \in Answered \cup Forgotten, userid[q] = u,
                 users[u].owner = Nonce(q)
          PROVE  ChargedUser(u)' \/ \E e \in wal' : e.user = u /\ e.nonce = users'[u].owner
      <3>1. CASE q = r /\ pc[r] = "lastdelete" /\ step = "failed"
        <4>1. Entry(r) \in wal' /\ Entry(r).user = u /\ Entry(r).nonce = users'[u].owner
          BY <1>1, <1>4, <1>6, <2>1, <2>3, <3>1 DEF Entry
        <4> QED
          BY <4>1
      <3>2. CASE ~(q = r /\ pc[r] = "lastdelete" /\ step = "failed")
        BY <1>1, <1>4, <1>5, <2>1, <2>3, <3>2 DEF ChargedUser, Answered, Forgotten
      <3> QED
        BY <3>1, <3>2
    <2> QED
      BY <2>2, <2>3 DEF ChargedUser
  <1> QED
    BY <1>7, <1>8, <1>9, <1>10, <1>11, <1>12, <1>13 DEF Safe

\* The rollback: it starts on an aged entry, and drops it when its user is gone
\* or is not provably the engine's.
LEMMA RollbackSafe ==
  ASSUME CredentialInv, TypeOK', Rollback
  PROVE  Safe'
  <1> USE DEF CredentialInv, TypeOK
  <1>1. UNCHANGED <<late, pc, attempt, userid>> /\ \A q \in Requests : Nonce(q)' = Nonce(q)
    BY DEF Rollback, RollbackStart, RollbackGetUser, RollbackDeleteUser,
           RollbackErr, RollbackDropWAL, RollbackDropErr, handler, Nonce
  <1>2. rb.pc # "idle" => rb.entry \in wal /\ Aged(rb.entry) /\ rb.entry.user \in UserIds
    BY DEF RollbackIsSafe, Rollbacks, WalEntries
  <1>3. \A e \in wal : Aged(e) => Aged(e)'
    BY <1>1 DEF Aged, Holds
  <1>4. NoNewUser
    <2>1. CASE users' = users
      BY <2>1 DEF NoNewUser, Present
    <2>2. CASE rb.pc = "delete" /\ DeleteUser(rb.entry.user)
      <3>1. rb.entry.user \in UserIds \ Foreign
        BY <1>2, <2>2 DEF ForeignIsSafe
      <3> QED
        BY <2>2, <3>1, DeleteUserFrame
    <2> QED
      BY <2>1, <2>2 DEF Rollback, RollbackStart, RollbackGetUser, RollbackDeleteUser,
         RollbackErr, RollbackDropWAL, RollbackDropErr, DeleteUserErr
  <1>5. wal' = wal \/ RollbackDropWAL
    BY DEF Rollback, RollbackStart, RollbackGetUser, RollbackDeleteUser,
           RollbackErr, RollbackDropErr
  <1>6. wal' \subseteq wal /\ \A e \in wal \ wal' : e.id = rb.entry.id /\ rb.pc = "drop"
    BY <1>5 DEF RollbackDropWAL, DeleteWAL
  <1>7. OwnerIsLatest' /\ CleanedIsGone' /\ RevokedIsGone'
    BY <1>1, <1>4, NoNewUserKeeps
  <1>8. LateIsCovered'
    <2>1. ASSUME NEW c \in late
          PROVE  [id |-> c.by, user |-> c.user, nonce |-> c.by] \in wal'
      <3> DEFINE e == [id |-> c.by, user |-> c.user, nonce |-> c.by]
      <3>1. e \in wal /\ e.id = c.by
        BY DEF LateIsCovered
      <3> HIDE DEF e
      <3>2. e \in wal'
        BY <1>2, <1>6, <3>1 DEF Aged
      <3> QED
        BY <3>2 DEF e
    <2> QED
      BY <1>1, <2>1 DEF LateIsCovered
  <1>9. WalIsFaithful'
    BY <1>1, <1>6 DEF WalIsFaithful
  <1>10. HeldEntryKept'
    BY <1>1, <1>2, <1>6 DEF HeldEntryKept, Entry, Aged, Holds
  <1>11. RollbackIsSafe'
    <2>1. ASSUME NEW e \in wal, RollbackStart(e)
          PROVE  RollbackIsSafe'
      BY <1>3, <2>1 DEF RollbackStart, RollbackIsSafe
    <2>2. CASE RollbackGetUser
      <3>1. /\ rb.pc = "get" /\ rb'.entry = rb.entry
            /\ rb'.pc \in {"delete", "drop"}
            /\ rb'.pc = "drop" => ~(Present(rb.entry.user) /\ OwnershipProved(rb.entry))
            /\ wal' = wal /\ users' = users
        BY <2>2, <1>2, NotFoundIsAbsent DEF RollbackGetUser, Rollbacks
      <3>2. rb.entry.nonce = NoComment => users[rb.entry.user].owner \in Attempts \cup {Nobody}
        BY <1>2, <3>1 DEF Users
      <3> QED
        BY <1>2, <1>3, <3>1, <3>2, TagAssumption DEF RollbackIsSafe, OwnershipProved, Present
    <2>3. CASE RollbackDeleteUser
      <3>1. rb.pc = "delete" /\ rb'.entry = rb.entry /\ wal' = wal
        BY <2>3 DEF RollbackDeleteUser, Rollbacks
      <3>2. users'[rb.entry.user].st # "present"
        BY <1>2, <2>3, <3>1, NotFoundIsAbsent DEF RollbackDeleteUser, DeleteUser, Present, Users
      <3> QED
        BY <1>2, <1>3, <3>1, <3>2 DEF RollbackIsSafe
    <2>4. CASE RollbackErr \/ RollbackDropWAL \/ RollbackDropErr
      BY <2>4 DEF RollbackErr, RollbackDropWAL, RollbackDropErr, RollbackIsSafe, NoRollback
    <2> QED
      BY <2>1, <2>2, <2>3, <2>4 DEF Rollback
  <1>12. ForeignIsSafe' /\ ForeignUntouched'
    <2>1. rb'.pc = "delete" => rb'.entry.user \notin Foreign
      BY DEF Rollback, RollbackStart, RollbackGetUser, RollbackDeleteUser, RollbackErr,
             RollbackDropWAL, RollbackDropErr, NoRollback, Rollbacks, ForeignIsSafe,
             OwnershipProved
    <2> QED
      BY <1>1, <1>4, <2>1, ForeignAssumption
      DEF NoNewUser, ForeignIsSafe, ForeignUntouched, Present
  <1>13. NeverOrphaned'
    <2>1. SUFFICES ASSUME NEW u \in UserIds, Present(u)', users'[u].owner # Nobody,
                          users'[u].comment = users'[u].owner
                   PROVE  ChargedUser(u)' \/ \E e \in wal' : e.user = u /\ e.nonce = users'[u].owner
      BY DEF NeverOrphaned
    <2>2. /\ Present(u) /\ users[u].owner = users'[u].owner
          /\ users[u].comment = users[u].owner
          /\ users[u].owner \in Attempts
      BY <1>4, <2>1 DEF NoNewUser, Users
    <2>3. ChargedUser(u) => ChargedUser(u)'
      BY <1>1, <2>2 DEF ChargedUser, Answered, Forgotten
    <2>4. ASSUME NEW e \in wal, e.user = u, e.nonce = users[u].owner
          PROVE  e \in wal'
      <3>1. e.id = e.nonce
        BY <2>2, <2>4, TagAssumption DEF WalIsFaithful
      <3>2. SUFFICES ASSUME e \notin wal' PROVE FALSE
        OBVIOUS
      <3>3. rb.pc = "drop" /\ rb.entry.id = e.id
        BY <1>6, <3>2
      <3>4. rb.entry.nonce = e.nonce
        BY <1>2, <2>2, <2>4, <3>1, <3>3, TagAssumption DEF WalIsFaithful
      <3>5. rb.entry.user = u
        <4>1. PICK r \in Requests : users[u].owner = Nonce(r) /\ userid[r] = u
          BY <2>1, <2>2 DEF OwnerIsLatest
        <4> QED
          BY <1>2, <2>2, <2>4, <3>1, <3>3, <4>1, TagAssumption DEF WalIsFaithful
      <3> QED
        BY <2>1, <2>2, <2>4, <3>3, <3>4, <3>5 DEF RollbackIsSafe, Present
    <2> QED
      BY <2>1, <2>2, <2>3, <2>4 DEF NeverOrphaned
  <1> QED
    BY <1>7, <1>8, <1>9, <1>10, <1>11, <1>12, <1>13 DEF Safe

\* A step that at most loses a late create, or touches the config only.
LEMMA StutterSafe ==
  ASSUME Safe, late' \subseteq late, UNCHANGED <<users, wal, pc, attempt, userid, rb>>
  PROVE  Safe'
  <1>1. \A q \in Requests : Nonce(q)' = Nonce(q) /\ Entry(q)' = Entry(q)
    BY DEF Nonce, Entry
  <1>2. LateIsCovered'
    BY <1>1, LateKept DEF Safe
  <1>3. OwnerIsLatest' /\ CleanedIsGone' /\ RevokedIsGone' /\ NeverOrphaned'
    BY <1>1 DEF Safe, OwnerIsLatest, CleanedIsGone, RevokedIsGone, NeverOrphaned,
       ChargedUser, Answered, Forgotten, Present
  <1>4. WalIsFaithful' /\ HeldEntryKept' /\ RollbackIsSafe'
    BY <1>1 DEF Safe, WalIsFaithful, HeldEntryKept, RollbackIsSafe, Aged, Holds, Present
  <1>5. ForeignIsSafe' /\ ForeignUntouched'
    BY DEF Safe, ForeignIsSafe, ForeignUntouched, Present
  <1> QED
    BY <1>2, <1>3, <1>4, <1>5 DEF Safe

\* PVE's late answers, operators, and crashes.
LEMMA EnvironmentSafe ==
  ASSUME CredentialInv, TypeOK', Environment
  PROVE  Safe'
  <1> USE DEF CredentialInv, TypeOK
  <1>1. ASSUME NEW c \in late, NEW comment \in Comments(c.by), NEW inGroup \in BOOLEAN,
               LateCreate(c, comment, inGroup)
        PROVE  Safe'
    <2>1. PICK r \in Requests : /\ c.by = Nonce(r) /\ c.user = userid[r]
                                /\ pc[r] \in {"failed", "crashed"}
      BY DEF LateIsCovered
    <2>2. Nonce(r) \in Attempts /\ Entry(r) \in wal
      BY <2>1 DEF LateIsCovered, Creates, Entry
    <2>3. rb.pc # "idle" => rb.entry.id # Nonce(r)
      BY <2>1 DEF RollbackIsSafe, Aged
    <2>4. \A d \in late' : d.by # Nonce(r)
      <3>1. ASSUME NEW d \in late, d.by = Nonce(r)
            PROVE  d = c
        <4>1. d.by = c.by /\ d.user = c.user
          BY <2>1, <3>1, NonceInjective DEF LateIsCovered
        <4> QED
          BY <4>1 DEF Creates
      <3> QED
        BY <1>1, <3>1 DEF LateCreate
    <2> QED
      BY <1>1, <2>1, <2>2, <2>3, <2>4, CreateSafe DEF LateCreate
  <1>2. CASE (\E c \in late : LateDrop(c)) \/ ConfigWrite \/ ConfigDelete
    <2>1. late' \subseteq late /\ UNCHANGED <<users, wal, pc, attempt, userid, rb>>
      BY <1>2 DEF LateDrop, ConfigWrite, ConfigDelete, handler
    <2> QED
      BY <2>1, StutterSafe DEF Safe
  <1>3. ASSUME NEW v \in UserIds, OperatorRemove(v)
        PROVE  Safe'
    <2>1. NoNewUser /\ UNCHANGED <<late, wal, pc, attempt, userid, rb>>
      BY <1>3, ForeignAssumption DEF OperatorRemove, NoNewUser, Present, Users, handler
    <2>2. OwnerIsLatest' /\ CleanedIsGone' /\ RevokedIsGone'
      <3>1. \A q \in Requests : Nonce(q)' = Nonce(q)
        BY <2>1 DEF Nonce
      <3> QED
        BY <2>1, <3>1, NoNewUserKeeps
    <2>3. LateIsCovered' /\ WalIsFaithful' /\ HeldEntryKept'
      BY <2>1 DEF LateIsCovered, WalIsFaithful, HeldEntryKept, Entry, Nonce
    <2>4. RollbackIsSafe'
      BY <2>1 DEF NoNewUser, RollbackIsSafe, Aged, Holds, Nonce, Present, Rollbacks, WalEntries
    <2>5. ForeignIsSafe' /\ ForeignUntouched'
      BY <2>1, ForeignAssumption DEF NoNewUser, ForeignIsSafe, ForeignUntouched, Present
    <2>6. NeverOrphaned'
      BY <2>1 DEF NoNewUser, NeverOrphaned, ChargedUser, Answered, Forgotten, Nonce
    <2> QED
      BY <2>2, <2>3, <2>4, <2>5, <2>6 DEF Safe
  <1>4. ASSUME NEW inflight \in SUBSET Requests, Crash(inflight)
        PROVE  Safe'
    <2>1. /\ UNCHANGED <<users, wal, attempt, userid>>
          /\ rb' = NoRollback
          /\ \A r \in inflight : pc[r] = "create"
          /\ late' = late \cup {[by |-> Nonce(r), user |-> userid[r]] : r \in inflight}
          /\ \A r \in Requests :
               pc'[r] = IF pc[r] = "respond" THEN "lost"
                        ELSE IF pc[r] = "lastdelete" /\ Entry(r) \notin wal THEN "stranded"
                        ELSE IF pc[r] \in HandlerSteps THEN "crashed" ELSE pc[r]
      BY <1>4 DEF Crash, handler
    <2>2. \A r \in Requests : Nonce(r)' = Nonce(r)
      BY <2>1 DEF Nonce
    <2> USE DEF HandlerSteps, HoldSteps, LeaseSteps, CreatedSteps
    <2>3. OwnerIsLatest' /\ CleanedIsGone' /\ RevokedIsGone'
      BY <2>1, <2>2 DEF OwnerIsLatest, CleanedIsGone, RevokedIsGone, AfterCreate,
         Outcomes, Present
    <2>4. LateIsCovered'
      <3>1. ASSUME NEW c \in late'
            PROVE  /\ [id |-> c.by, user |-> c.user, nonce |-> c.by] \in wal'
                   /\ \E q \in Requests : /\ c.by = Nonce(q)'
                                         /\ c.user = userid'[q]
                                         /\ pc'[q] \in {"failed", "crashed"}
        <4>1. CASE c \in late
          BY <2>1, <2>2, <4>1 DEF LateIsCovered
        <4>2. ASSUME NEW r \in inflight, c = [by |-> Nonce(r), user |-> userid[r]]
              PROVE  /\ [id |-> c.by, user |-> c.user, nonce |-> c.by] \in wal'
                     /\ c.by = Nonce(r)' /\ c.user = userid'[r] /\ pc'[r] = "crashed"
          BY <2>1, <2>2, <4>2 DEF HeldEntryKept, Entry
        <4> QED
          BY <2>1, <4>1, <4>2
      <3> QED
        BY <3>1 DEF LateIsCovered
    <2>5. WalIsFaithful' /\ HeldEntryKept' /\ RollbackIsSafe'
      <3>1. \A r \in Requests : pc[r] \notin {"idle", "attempt"} => pc'[r] \notin {"idle", "attempt"}
        BY <2>1
      <3>2. \A r \in Requests : pc'[r] \notin HoldSteps
        BY <2>1
      <3>3. RollbackIsSafe'
        BY <2>1 DEF RollbackIsSafe, NoRollback
      <3>4. HeldEntryKept'
        BY <3>2 DEF HeldEntryKept
      <3> QED
        BY <2>1, <2>2, <3>1, <3>3, <3>4 DEF WalIsFaithful
    <2>6. ForeignIsSafe' /\ ForeignUntouched'
      BY <2>1 DEF ForeignIsSafe, ForeignUntouched, Present, NoRollback
    <2>7. NeverOrphaned'
      <3>1. SUFFICES ASSUME NEW u \in UserIds, Present(u), users[u].owner # Nobody,
                            users[u].comment = users[u].owner, ChargedUser(u)
                     PROVE  \/ ChargedUser(u)'
                            \/ \E e \in wal : e.user = u /\ e.nonce = users[u].owner
        BY <2>1 DEF NeverOrphaned, Present
      <3>2. PICK r \in Requests : /\ pc[r] \in Answered \cup Forgotten /\ userid[r] = u
                                  /\ users[u].owner = Nonce(r)
        BY <3>1 DEF ChargedUser
      <3>3. CASE pc[r] = "lastdelete" /\ Entry(r) \in wal
        BY <3>2, <3>3 DEF Entry
      <3>4. CASE ~(pc[r] = "lastdelete" /\ Entry(r) \in wal)
        <4>1. pc'[r] \in Answered \cup Forgotten
          <5>1. CASE pc[r] = "respond" \/ pc[r] \in LeaseSteps \cup Forgotten
            BY <2>1, <5>1 DEF Answered, Forgotten
          <5>2. CASE pc[r] = "lastdelete" /\ Entry(r) \notin wal
            BY <2>1, <5>2 DEF Forgotten
          <5> QED
            BY <3>2, <3>4, <5>1, <5>2 DEF Answered
        <4> QED
          BY <2>1, <2>2, <3>2, <4>1 DEF ChargedUser
      <3> QED
        BY <3>3, <3>4
    <2> QED
      BY <2>3, <2>4, <2>5, <2>6, <2>7 DEF Safe
  <1> QED
    BY <1>1, <1>2, <1>3, <1>4 DEF Environment

\* Every step preserves the invariant.
LEMMA NextSafe ==
  ASSUME CredentialInv, [Next]_vars
  PROVE  CredentialInv'
  <1>1. CASE UNCHANGED vars
    <2>1. TypeOK' /\ AttemptsLeft'
      BY <1>1 DEF vars, CredentialInv, TypeOK, AttemptsLeft
    <2>2. Safe'
      BY <1>1, StutterSafe DEF vars, CredentialInv, Safe
    <2> QED
      BY <2>1, <2>2 DEF Safe, CredentialInv
  <1>2. CASE Next
    <2>1. TypeOK' /\ AttemptsLeft'
      BY <1>2, IssueTyped, OtherTyped DEF Next, CredentialInv
    <2>2. ASSUME NEW r \in Requests, Issue(r) \/ Lease(r)
          PROVE  Safe'
      <3>1. ASSUME NEW comment \in Comments(Nonce(r)), NEW inGroup \in BOOLEAN,
                   CreateUserOk(r, comment, inGroup)
            PROVE  Safe'
        <4>1. pc[r] = "create" /\ Nonce(r) \in Attempts /\ Entry(r) \in wal
          BY <3>1, NonceIsAttempt DEF CreateUserOk, CredentialInv, HeldEntryKept, HoldSteps
        <4>2. rb.pc # "idle" => rb.entry.id # Nonce(r)
          BY <4>1 DEF CredentialInv, RollbackIsSafe, Aged, Holds, HoldSteps
        <4>3. \A c \in late : c.by # Nonce(r)
          BY <4>1, NonceInjective DEF CredentialInv, LateIsCovered
        <4> QED
          BY <2>1, <3>1, <4>1, <4>2, <4>3, CreateSafe DEF CreateUserOk, Goto
      <3>2. CASE (\E u \in UserIds : PutWALOk(r, u)) \/ PutWALErr(r)
        BY <2>1, <3>2, MoveSafe, PutWALSafe DEF PutWALOk, PutWALErr
      <3> QED
        BY <2>1, <2>2, <3>1, <3>2, MoveSafe, TimeoutSafe, DeleteWALSafe, UserStepSafe
        DEF Issue, Lease
    <2>3. Safe'
      BY <1>2, <2>1, <2>2, RollbackSafe, EnvironmentSafe DEF Next
    <2> QED
      BY <2>1, <2>3 DEF Safe, CredentialInv
  <1> QED
    BY <1>1, <1>2

\* The invariant of issuance, cleanup, rollback, revocation and crashes.
THEOREM CredentialInvariant == Spec => []CredentialInv
  <1>1. Init => CredentialInv
    BY TypeInit, SafeInit DEF Safe, CredentialInv
  <1> QED
    BY <1>1, NextSafe, PTL DEF Spec

\* A user of the engine has a WAL entry, a lease or its handler to delete it, but
\* where an answer was lost in a crash, or a DeleteWAL with an error took effect.
THEOREM NoOrphans == Spec => []NeverOrphaned
  BY CredentialInvariant, PTL DEF CredentialInv

\* No account that the engine did not create is ever deleted.
THEOREM ForeignAccountsSafe == Spec => []ForeignUntouched
  BY CredentialInvariant, PTL DEF CredentialInv

\* A revoked lease has no user, whatever was lost on the way.
THEOREM RevocationFinal == Spec => []RevokedIsGone
  BY CredentialInvariant, PTL DEF CredentialInv

-----------------------------------------------------------------------------
(* Issued credentials, where no userid is used twice *)

\* Handlers past CreateUser have different users.
LEMMA UsersDiffer ==
  ASSUME CreatorKept, NEW r \in Requests, NEW q \in Requests, q # r,
         pc[r] \in CreatedSteps \cup {"respond"} \cup LeaseSteps,
         pc[q] \in CreatedSteps \cup {"respond"} \cup LeaseSteps
  PROVE  userid[q] # userid[r]
  BY NonceInjective DEF CreatorKept

\* At first no credential is under way.
LEMMA IssuanceInit == Init => IssuanceInv
  BY ForeignAssumption
  DEF Init, IssuanceInv, CreatorKept, IssuedIsCommitted, IssuanceChecked,
      ProofStillHolds, IssuedCredentialIntact, NoRollback, CreatedSteps, LeaseSteps,
      Forgotten

\* Steps of a handler or a lease that leave users and WAL alone.
LEMMA MoveIssuance ==
  ASSUME CredentialInv, IssuanceInv, TypeOK', NEW r \in Requests,
         \/ Refuse(r) \/ CreateUserConflict(r) \/ CreateUserErr(r) \/ ReadBackOk(r)
         \/ ReadBackErr(r) \/ RegisterLease(r) \/ Revoke(r) \/ CreateUserTimeout(r)
         \/ PutWALErr(r) /\ UNCHANGED <<wal, handler>>
         \/ \E m \in {"token", "password"} : Begin(r, m)
  PROVE  IssuanceInv'
  <1> DEFINE step == pc'[r]
  <1>1. /\ UNCHANGED <<users, wal, rb, attempt, userid>>
        /\ pc' = [pc EXCEPT ![r] = step]
        /\ \/ pc[r] \in {"idle", "attempt"} /\ step \in {"attempt", "failed"}
           \/ mode' = mode
        /\ \/ step \in {"attempt", "failed", "collision"}
           \/ /\ pc[r] = "readback" /\ ReadBackAccepts(r)
              /\ step = IF mode[r] = "token" THEN "token" ELSE "delwal"
           \/ pc[r] = "readback" /\ step = "cleanup"
           \/ pc[r] = "respond" /\ step = "leased"
           \/ pc[r] = "leased" /\ step = "revoking"
    BY DEF Refuse, PutWALErr, CreateUserConflict, CreateUserErr, CreateUserTimeout,
           ReadBackOk, ReadBackErr, RegisterLease, Revoke, Begin, Goto, handler, CreatedSteps, CredentialInv, TypeOK
  <1>2. \A q \in Requests \ {r} : pc'[q] = pc[q] /\ mode'[q] = mode[q]
    BY <1>1 DEF Begin, Refuse, PutWALErr, CreateUserConflict, CreateUserErr,
           CreateUserTimeout, ReadBackOk, ReadBackErr, RegisterLease, Revoke, handler, CredentialInv, TypeOK
  <1>3. \A q \in Requests : Nonce(q)' = Nonce(q)
    BY <1>1 DEF Nonce
  <1> HIDE DEF step
  <1> USE DEF CredentialInv, TypeOK, IssuanceInv, CreatedSteps, LeaseSteps
  <1>4. CreatorKept'
    BY <1>1, <1>3 DEF CreatorKept
  <1>5. IssuedIsCommitted'
    BY <1>1, <1>3 DEF IssuedIsCommitted, Forgotten
  <1>6. IssuanceChecked'
    BY <1>1, <1>2, <1>3 DEF IssuanceChecked, ReadBackAccepts, Present
  <1>7. ProofStillHolds'
    BY <1>1 DEF ProofStillHolds, OwnershipProved
  <1>8. IssuedCredentialIntact'
    BY <1>1, <1>2, <1>3 DEF IssuedCredentialIntact
  <1> QED
    BY <1>4, <1>5, <1>6, <1>7, <1>8

\* The WAL entry of a new attempt is nobody's commitment yet.
LEMMA PutWALIssuance ==
  ASSUME CredentialInv, IssuanceInv, TypeOK', NEW r \in Requests, NEW u \in UserIds,
         pc[r] = "attempt", LogAttempt(r, u), NEW step \in {"create", "failed"},
         Goto(r, step), UNCHANGED <<users, rb>>
  PROVE  IssuanceInv'
  <1>1. /\ pc' = [pc EXCEPT ![r] = step]
        /\ attempt' = [attempt EXCEPT ![r] = attempt[r] + 1]
        /\ userid' = [userid EXCEPT ![r] = u]
        /\ wal' = wal \cup {[id |-> <<r, attempt[r] + 1>>, user |-> u,
                             nonce |-> <<r, attempt[r] + 1>>]}
        /\ UNCHANGED <<users, mode, rb>>
    BY DEF LogAttempt, PutWAL, Goto
  <1>2. \A q \in Requests \ {r} : /\ Nonce(q)' = Nonce(q) /\ Nonce(q)[1] # r
                                  /\ userid'[q] = userid[q] /\ pc'[q] = pc[q]
    BY <1>1 DEF Nonce, CredentialInv, TypeOK
  <1>3. pc'[r] \in {"create", "failed"}
    BY <1>1 DEF CredentialInv, TypeOK
  <1> USE DEF IssuanceInv, CreatedSteps, LeaseSteps
  <1>4. CreatorKept'
    BY <1>1, <1>2, <1>3 DEF CreatorKept
  <1>5. IssuedIsCommitted'
    BY <1>1, <1>2, <1>3 DEF IssuedIsCommitted, Forgotten
  <1>6. IssuanceChecked' /\ IssuedCredentialIntact'
    BY <1>1, <1>2, <1>3 DEF IssuanceChecked, IssuedCredentialIntact
  <1>7. ProofStillHolds'
    BY <1>1 DEF ProofStillHolds, OwnershipProved
  <1> QED
    BY <1>4, <1>5, <1>6, <1>7

\* A new user takes a userid that nobody ever had.
LEMMA CreateIssuance ==
  ASSUME ~UseridReuse, CredentialInv, IssuanceInv, TypeOK', NEW r \in Requests,
         NEW comment \in Comments(Nonce(r)), NEW inGroup \in BOOLEAN,
         Creatable(userid[r]), CreateUser(userid[r], Nonce(r), comment, inGroup),
         UNCHANGED <<wal, handler, rb>>,
         \/ pc[r] = "create" /\ pc' = [pc EXCEPT ![r] = "readback"]
         \/ pc[r] \in {"failed", "crashed"} /\ pc' = pc
  PROVE  IssuanceInv'
  <1> DEFINE u == userid[r]
  <1>1. /\ u \in UserIds /\ users[u].st = "never"
        /\ users'[u] = [st |-> "present", owner |-> Nonce(r), comment |-> comment,
                        inGroup |-> inGroup, token |-> FALSE]
        /\ \A v \in UserIds \ {u} : users'[v] = users[v]
    BY DEF CreateUser, CredentialInv, TypeOK, Creatable
  <1>2. UNCHANGED <<attempt, userid, mode>> /\ \A q \in Requests : Nonce(q)' = Nonce(q)
    BY DEF handler, Nonce
  <1>3. \A q \in Requests : pc[q] \in CreatedSteps \cup {"respond"} \cup LeaseSteps => userid[q] # u
    BY <1>1 DEF IssuanceInv, CreatorKept
  <1> HIDE DEF u
  <1> USE DEF CredentialInv, TypeOK, IssuanceInv, CreatedSteps, LeaseSteps
  <1>4. CreatorKept'
    BY <1>1, <1>2, <1>3 DEF CreatorKept, Comments, u
  <1>5. IssuedIsCommitted'
    BY <1>2 DEF IssuedIsCommitted, Forgotten
  <1>6. IssuanceChecked' /\ IssuedCredentialIntact'
    BY <1>1, <1>2, <1>3 DEF IssuanceChecked, IssuedCredentialIntact
  <1>7. ProofStillHolds'
    BY <1>1 DEF ProofStillHolds, OwnershipProved, Rollbacks, WalEntries
  <1> QED
    BY <1>4, <1>5, <1>6, <1>7

\* With the WAL entry gone, the credential is issued, or its handler takes it back.
LEMMA DeleteWALIssuance ==
  ASSUME CredentialInv, IssuanceInv, TypeOK', NEW r \in Requests,
         \/ CollisionDeleteWALOk(r) \/ CollisionDeleteWALErr(r) \/ IssueDeleteWALOk(r)
         \/ IssueDeleteWALErr(r) \/ CleanupDeleteWAL(r)
  PROVE  IssuanceInv'
  <1> DEFINE step == pc'[r]
  <1>1. /\ pc' = [pc EXCEPT ![r] = step]
        /\ \/ step \in {"attempt", "failed"}
           \/ pc[r] = "delwal" /\ step = "lastdelete"
           \/ /\ pc[r] = "delwal" /\ step = "respond"
              /\ \A e \in wal' : e.id # Nonce(r)
        /\ wal' \subseteq wal
        /\ UNCHANGED <<users, rb, attempt, userid, mode>>
    BY DEF CollisionDeleteWALOk, CollisionDeleteWALErr, IssueDeleteWALOk,
           IssueDeleteWALErr, CleanupDeleteWAL, DeleteWALErr, DeleteWAL, Goto, handler, CredentialInv, TypeOK
  <1>2. \A q \in Requests : Nonce(q)' = Nonce(q)
    BY <1>1 DEF Nonce
  <1> HIDE DEF step
  <1> USE DEF CredentialInv, TypeOK, IssuanceInv, CreatedSteps, LeaseSteps
  <1>3. CreatorKept'
    BY <1>1, <1>2 DEF CreatorKept
  <1>4. IssuedIsCommitted'
    BY <1>1, <1>2 DEF IssuedIsCommitted, Forgotten
  <1>5. IssuanceChecked'
    BY <1>1, <1>2 DEF IssuanceChecked
  <1>6. ProofStillHolds'
    BY <1>1 DEF ProofStillHolds, OwnershipProved
  <1>7. IssuedCredentialIntact'
    BY <1>1, <1>2 DEF IssuedCredentialIntact, IssuanceChecked, CreatorKept
  <1> QED
    BY <1>3, <1>4, <1>5, <1>6, <1>7

\* The entry with the nonce of a handler is the one that the handler wrote.
LEMMA EntryIsOwn ==
  ASSUME CredentialInv, NEW r \in Requests, Nonce(r) \in Attempts, NEW e \in wal,
         e.id = Nonce(r)
  PROVE  e = Entry(r)
  <1>1. e.nonce = e.id /\ e.user = userid[r]
    BY TagAssumption DEF CredentialInv, WalIsFaithful
  <1> QED
    BY <1>1 DEF Entry, CredentialInv, TypeOK, WalEntries

\* A step on one user that is not that of an issued or almost issued credential
\* (the request r itself apart) leaves every such credential alone.
LEMMA OneUserIssuance ==
  ASSUME CredentialInv, IssuanceInv, TypeOK', NEW v \in UserIds,
         \A u \in UserIds \ {v} : users'[u] = users[u],
         /\ users'[v].owner = users[v].owner /\ users'[v].comment = users[v].comment
         /\ users'[v].inGroup = users[v].inGroup
         /\ users[v].token => users'[v].token
         /\ users'[v].st # "never" \/ users'[v].st = users[v].st,
         wal' = wal, UNCHANGED <<attempt, userid, mode>>,
         \A q \in Requests :
           /\ pc'[q] \in CreatedSteps \cup {"respond"} \cup LeaseSteps =>
                pc[q] \in CreatedSteps \cup {"respond"} \cup LeaseSteps
           /\ pc'[q] \in {"respond"} \cup LeaseSteps \cup Forgotten =>
                \/ pc[q] \in {"respond"} \cup LeaseSteps \cup Forgotten
                \/ \A e \in wal : e.id # Nonce(q)
           /\ pc'[q] \in {"token", "delwal", "respond", "leased"} =>
                /\ \/ pc[q] = pc'[q]
                   \/ pc[q] = "token" /\ pc'[q] = "delwal" /\ users'[userid[q]].token
                /\ userid[q] = v => users'[v].st \in {"present", "removed"},
         rb'.pc = "delete" => rb' = rb
  PROVE  IssuanceInv'
  <1>1. \A q \in Requests : Nonce(q)' = Nonce(q)
    BY DEF Nonce
  <1>2. \A q \in Requests : userid[q] \in UserIds
    BY DEF CredentialInv, TypeOK
  <1> USE DEF IssuanceInv
  <1>3. CreatorKept'
    BY <1>1, <1>2 DEF CreatorKept
  <1>4. IssuedIsCommitted'
    BY <1>1 DEF IssuedIsCommitted, Forgotten
  <1>5. IssuanceChecked'
    BY <1>1, <1>2 DEF IssuanceChecked
  <1>6. ProofStillHolds'
    BY DEF ProofStillHolds, OwnershipProved, CredentialInv, TypeOK, Rollbacks, WalEntries
  <1>7. IssuedCredentialIntact'
    BY <1>1, <1>2 DEF IssuedCredentialIntact
  <1> QED
    BY <1>3, <1>4, <1>5, <1>6, <1>7

\* What DeleteUser does to the user it names, and to the others.
LEMMA DeleteUserEffect ==
  ASSUME users \in [UserIds -> Users], NEW v \in UserIds, DeleteUser(v) \/ users' = users
  PROVE  /\ \A u \in UserIds \ {v} : users'[u] = users[u]
         /\ users'[v].owner = users[v].owner /\ users'[v].comment = users[v].comment
         /\ users'[v].inGroup = users[v].inGroup /\ users'[v].token = users[v].token
         /\ users'[v].st # "never" \/ users'[v].st = users[v].st
  BY DEF DeleteUser, Present, Users

\* The creation of a token.
LEMMA TokenEffect ==
  ASSUME users \in [UserIds -> Users], NEW v \in UserIds,
         users' = [users EXCEPT ![v].token = TRUE]
  PROVE  /\ \A u \in UserIds \ {v} : users'[u] = users[u]
         /\ users'[v].owner = users[v].owner /\ users'[v].comment = users[v].comment
         /\ users'[v].inGroup = users[v].inGroup /\ users'[v].token
         /\ users'[v].st = users[v].st
  BY DEF Users

\* CreateToken, a cleanup and a revocation touch the handler's own user only.
LEMMA UserStepIssuance ==
  ASSUME CredentialInv, IssuanceInv, TypeOK', NEW r \in Requests,
         \/ CreateTokenOk(r) \/ CreateTokenErr(r) \/ LastDelete(r) \/ CleanupOk(r)
         \/ CleanupErr(r) \/ RevokeOk(r) \/ RevokeErr(r)
  PROVE  IssuanceInv'
  <1> DEFINE step == pc'[r]
             v == userid[r]
  <1>1. /\ pc' = [pc EXCEPT ![r] = step]
        /\ pc[r] \in CreatedSteps \cup LeaseSteps
        /\ \/ step = "delwal" /\ CreateTokenOk(r)
           \/ step = "cleanup" /\ CreateTokenErr(r)
           \/ /\ step \in {"failed", "stranded", "cleanupwal", "revoked"}
              /\ DeleteUser(v) \/ users' = users
           \/ pc[r] = "revoking" /\ step = "revoking" /\ DeleteUser(v)
        /\ UNCHANGED <<wal, rb, attempt, userid, mode>>
        /\ v \in UserIds /\ users \in [UserIds -> Users] /\ pc \in [Requests -> Steps]
    BY DEF CreateTokenOk, CreateTokenErr, LastDelete, CleanupOk, CleanupErr, RevokeOk,
           RevokeErr, DeleteUserErr, Goto, handler, CreatedSteps, LeaseSteps, CredentialInv, TypeOK
  <1>2. \A q \in Requests \ {r} :
          /\ pc'[q] = pc[q]
          /\ pc[q] \in {"token", "delwal", "respond", "leased"} => userid[q] # v
    BY <1>1, UsersDiffer DEF IssuanceInv, CreatedSteps, LeaseSteps
  <1>3. step = "stranded" => \A e \in wal : e.id # Nonce(r)
    <2>1. SUFFICES ASSUME step = "stranded" PROVE \A e \in wal : e.id # Nonce(r)
      OBVIOUS
    <2>2. pc[r] = "lastdelete" /\ Entry(r) \notin wal
      BY <1>1, <2>1 DEF CreateTokenOk, CreateTokenErr, LastDelete, CleanupOk, CleanupErr,
         RevokeOk, RevokeErr, Goto
    <2>3. Nonce(r) \in Attempts
      BY <2>2, NonceIsAttempt DEF CredentialInv, HoldSteps
    <2> QED
      BY <2>2, <2>3, EntryIsOwn
  <1>4. CASE step = "delwal" /\ CreateTokenOk(r)
    <2>1. users' = [users EXCEPT ![v].token = TRUE] /\ pc[r] = "token" /\ users[v].st = "present"
      BY <1>4 DEF CreateTokenOk, Present
    <2>2. /\ \A u \in UserIds \ {v} : users'[u] = users[u]
          /\ users'[v].owner = users[v].owner /\ users'[v].comment = users[v].comment
          /\ users'[v].inGroup = users[v].inGroup /\ users'[v].token
          /\ users'[v].st = "present"
      BY <1>1, <2>1, TokenEffect
    <2> QED
      BY <1>1, <1>2, <1>4, <2>1, <2>2, OneUserIssuance DEF CreatedSteps, LeaseSteps, Forgotten
  <1>5. CASE step = "cleanup" /\ CreateTokenErr(r)
    BY <1>1, <1>2, <1>5, TokenEffect, DeleteUserEffect, OneUserIssuance
    DEF CreateTokenErr, CreatedSteps, LeaseSteps, Forgotten
  <1>6. CASE \/ /\ step \in {"failed", "stranded", "cleanupwal", "revoked"}
                /\ DeleteUser(v) \/ users' = users
             \/ pc[r] = "revoking" /\ step = "revoking" /\ DeleteUser(v)
    <2>1. \A q \in Requests :
            /\ pc'[q] \in CreatedSteps \cup {"respond"} \cup LeaseSteps =>
                 pc[q] \in CreatedSteps \cup {"respond"} \cup LeaseSteps
            /\ pc'[q] \in {"respond"} \cup LeaseSteps \cup Forgotten =>
                 \/ pc[q] \in {"respond"} \cup LeaseSteps \cup Forgotten
                 \/ \A e \in wal : e.id # Nonce(q)
            /\ pc'[q] \in {"token", "delwal", "respond", "leased"} => q # r /\ pc[q] = pc'[q]
      <3>1. step = "stranded" => \A e \in wal : e.id # Nonce(r)
        BY <1>3
      <3> QED
        BY <1>1, <1>2, <1>6, <3>1 DEF CreatedSteps, LeaseSteps, Forgotten
    <2> QED
      BY <1>1, <1>2, <1>6, <2>1, DeleteUserEffect, OneUserIssuance
  <1> QED
    BY <1>1, <1>4, <1>5, <1>6

\* A rollback deletes a user with the nonce of an entry that is in the WAL and is
\* held by no handler: not the user of an issued credential.
LEMMA RollbackIssuance ==
  ASSUME CredentialInv, IssuanceInv, TypeOK', Rollback
  PROVE  IssuanceInv'
  <1> USE DEF CredentialInv, TypeOK
  <1>1. UNCHANGED <<pc, attempt, userid, mode>>
    BY DEF Rollback, RollbackStart, RollbackGetUser, RollbackDeleteUser,
           RollbackErr, RollbackDropWAL, RollbackDropErr, handler
  <1>2. CASE users' = users
    <2>1. wal' \subseteq wal
      BY DEF Rollback, RollbackStart, RollbackGetUser, RollbackDeleteUser,
             RollbackErr, RollbackDropWAL, RollbackDropErr, DeleteWAL
    <2>2. ProofStillHolds'
      BY <1>2 DEF IssuanceInv, ProofStillHolds, OwnershipProved, Present, Rollback,
         RollbackStart, RollbackGetUser, RollbackDeleteUser, RollbackErr, RollbackDropWAL,
         RollbackDropErr, NoRollback, Rollbacks
    <2> QED
      BY <1>1, <1>2, <2>1, <2>2 DEF IssuanceInv, CreatorKept, IssuedIsCommitted,
         IssuanceChecked, IssuedCredentialIntact, Nonce
  <1>3. CASE rb.pc = "delete" /\ DeleteUser(rb.entry.user) /\ wal' = wal /\ rb'.pc # "delete"
    <2> DEFINE v == rb.entry.user
    <2>1. /\ v \in UserIds /\ rb.entry \in wal /\ Aged(rb.entry)
          /\ rb.entry.nonce # NoComment /\ users[v].comment = rb.entry.nonce
      BY <1>3 DEF RollbackIsSafe, Rollbacks, WalEntries, IssuanceInv, ProofStillHolds,
         OwnershipProved
    <2>2. rb.entry.id = users[v].owner
      <3>1. rb.entry.nonce = rb.entry.id
        BY <2>1 DEF WalIsFaithful
      <3>2. users[v].comment \in {users[v].owner, NoComment}
        BY <2>1 DEF IssuanceInv, CreatorKept
      <3> QED
        BY <2>1, <3>1, <3>2
    <2>3. \A q \in Requests : pc[q] \in {"token", "delwal", "respond", "leased"} => userid[q] # v
      BY <2>1, <2>2 DEF Aged, Holds, HoldSteps, LeaseSteps, CreatedSteps, IssuanceInv,
         CreatorKept, IssuedIsCommitted
    <2> QED
      BY <1>1, <1>3, <2>1, <2>3, DeleteUserEffect, OneUserIssuance
  <1> QED
    BY <1>2, <1>3 DEF Rollback, RollbackStart, RollbackGetUser, RollbackDeleteUser,
       RollbackErr, RollbackDropWAL, RollbackDropErr, DeleteUserErr, NoRollback, Rollbacks

\* A step that changes nothing the invariant speaks of.
LEMMA StutterIssuance ==
  ASSUME IssuanceInv, UNCHANGED <<users, wal, pc, attempt, userid, mode, rb>>
  PROVE  IssuanceInv'
  <1>1. \A q \in Requests : Nonce(q)' = Nonce(q)
    BY DEF Nonce
  <1>2. CreatorKept' /\ IssuedIsCommitted' /\ IssuanceChecked'
    BY <1>1 DEF IssuanceInv, CreatorKept, IssuedIsCommitted, IssuanceChecked
  <1>3. ProofStillHolds' /\ IssuedCredentialIntact'
    BY <1>1 DEF IssuanceInv, ProofStillHolds, OwnershipProved, Present, IssuedCredentialIntact
  <1> QED
    BY <1>2, <1>3 DEF IssuanceInv

\* PVE, operators, config changes and crashes leave issued credentials alone.
LEMMA EnvironmentIssuance ==
  ASSUME ~UseridReuse, CredentialInv, IssuanceInv, TypeOK', Environment
  PROVE  IssuanceInv'
  <1> USE DEF CredentialInv, TypeOK
  <1>1. ASSUME NEW c \in late, NEW comment \in Comments(c.by), NEW inGroup \in BOOLEAN,
               LateCreate(c, comment, inGroup)
        PROVE  IssuanceInv'
    <2>1. PICK r \in Requests : /\ c.by = Nonce(r) /\ c.user = userid[r]
                                /\ pc[r] \in {"failed", "crashed"}
      BY DEF LateIsCovered
    <2> QED
      BY <1>1, <2>1, CreateIssuance DEF LateCreate
  <1>2. CASE (\E c \in late : LateDrop(c)) \/ ConfigWrite \/ ConfigDelete
    <2>1. UNCHANGED <<users, wal, pc, attempt, userid, mode, rb>>
      BY <1>2 DEF LateDrop, ConfigWrite, ConfigDelete, handler
    <2> QED
      BY <2>1, StutterIssuance
  <1>3. ASSUME NEW v \in UserIds, OperatorRemove(v)
        PROVE  IssuanceInv'
    <2>1. /\ \A u \in UserIds \ {v} : users'[u] = users[u]
          /\ users'[v].owner = users[v].owner /\ users'[v].comment = users[v].comment
          /\ users'[v].inGroup = users[v].inGroup /\ users'[v].token = users[v].token
          /\ users'[v].st = "removed"
      BY <1>3 DEF OperatorRemove, Users
    <2>2. UNCHANGED <<wal, pc, attempt, userid, mode, rb>>
      BY <1>3 DEF OperatorRemove, handler
    <2> QED
      BY <2>1, <2>2, OneUserIssuance
  <1>4. ASSUME NEW inflight \in SUBSET Requests, Crash(inflight)
        PROVE  IssuanceInv'
    <2>1. /\ UNCHANGED <<users, wal, attempt, userid, mode>>
          /\ rb'.pc = "idle"
          /\ \A q \in Requests : \/ pc'[q] = pc[q] /\ pc[q] \notin HandlerSteps
                                 \/ pc'[q] \in {"lost", "stranded", "crashed"}
      BY <1>4 DEF Crash, handler, NoRollback
    <2>2. \A q \in Requests : Nonce(q)' = Nonce(q)
      BY <2>1 DEF Nonce
    <2>3. ASSUME NEW q \in Requests, pc'[q] \in Forgotten
          PROVE  pc[q] \in {"respond"} \cup Forgotten \/ \A e \in wal : e.id # Nonce(q)
      <3>1. CASE pc[q] = "lastdelete" /\ Entry(q) \notin wal
        <4>1. Nonce(q) \in Attempts
          BY <3>1, NonceIsAttempt DEF HoldSteps
        <4> QED
          BY <3>1, <4>1, EntryIsOwn
      <3>2. CASE ~(pc[q] = "lastdelete" /\ Entry(q) \notin wal)
        BY <1>4, <2>3, <3>2 DEF Crash, Forgotten
      <3> QED
        BY <3>1, <3>2
    <2>4. CreatorKept'
      BY <2>1, <2>2 DEF IssuanceInv, CreatorKept, CreatedSteps, LeaseSteps
    <2>5. IssuedIsCommitted'
      BY <2>1, <2>2, <2>3 DEF IssuanceInv, IssuedIsCommitted, LeaseSteps, Forgotten
    <2>6. IssuanceChecked' /\ IssuedCredentialIntact'
      BY <2>1, <2>2 DEF IssuanceInv, IssuanceChecked, IssuedCredentialIntact,
         HandlerSteps, HoldSteps
    <2> QED
      BY <2>1, <2>4, <2>5, <2>6 DEF IssuanceInv, ProofStillHolds
  <1> QED
    BY <1>1, <1>2, <1>3, <1>4 DEF Environment

\* If no suffix is ever drawn twice, a handler past CreateUser works on the user
\* it created, a credential handed out has no WAL entry left, and a rollback
\* deletes only what it has proved to be the engine's.
THEOREM IssuanceInvariant ==
  ASSUME ~UseridReuse
  PROVE  Spec => []IssuanceInv
  <1>1. Init => IssuanceInv
    BY IssuanceInit
  <1>2. CredentialInv /\ CredentialInv' /\ IssuanceInv /\ [Next]_vars => IssuanceInv'
    <2> SUFFICES ASSUME CredentialInv, CredentialInv', IssuanceInv, [Next]_vars
                 PROVE  IssuanceInv'
      OBVIOUS
    <2>1. TypeOK'
      BY DEF CredentialInv
    <2>2. CASE UNCHANGED vars
      BY <2>2, StutterIssuance DEF vars
    <2>3. ASSUME NEW r \in Requests, Issue(r) \/ Lease(r)
          PROVE  IssuanceInv'
      <3>1. ASSUME NEW comment \in Comments(Nonce(r)), NEW inGroup \in BOOLEAN,
                   CreateUserOk(r, comment, inGroup)
            PROVE  IssuanceInv'
        BY <2>1, <3>1, CreateIssuance DEF CreateUserOk, Goto
      <3>2. CASE (\E u \in UserIds : PutWALOk(r, u)) \/ PutWALErr(r)
        BY <2>1, <3>2, MoveIssuance, PutWALIssuance DEF PutWALOk, PutWALErr
      <3> QED
        BY <2>1, <2>3, <3>1, <3>2, MoveIssuance, DeleteWALIssuance,
           UserStepIssuance DEF Issue, Lease
    <2> QED
      BY <2>1, <2>2, <2>3, RollbackIssuance, EnvironmentIssuance DEF Next
  <1> QED
    BY <1>1, <1>2, CredentialInvariant, PTL DEF Spec

\* If no suffix is ever drawn twice, an issued credential stays intact until its
\* lease is revoked: no other handler, cleanup, rollback or revocation touches it.
THEOREM CredentialsIntact ==
  ASSUME ~UseridReuse
  PROVE  Spec => []IssuedCredentialIntact
  <1>1. IssuanceInv => IssuedCredentialIntact
    BY DEF IssuanceInv
  <1> QED
    BY <1>1, IssuanceInvariant, PTL
=============================================================================
