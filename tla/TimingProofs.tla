---------------------------- MODULE TimingProofs ----------------------------
(***************************************************************************)
(* IssuanceTiming implements CredentialLifecycle where the minimum age is  *)
(* long enough, for any number of requests, userids, retries and crashes.  *)
(***************************************************************************)
EXTENDS IssuanceTiming, CredentialProofs

-----------------------------------------------------------------------------
(* What Aged is derived from *)

\* Every attempt that holds a WAL entry is one of the drawn attempts.
LEMMA HolderIsAttempt ==
  ASSUME CredentialInv, NEW r \in Requests, Holding(r)
  PROVE  Nonce(r) \in Attempts
  BY NonceIsAttempt DEF CredentialInv, Holding

\* Five steps are all that a handler takes over an entry.
LEMMA HolderIsYoung ==
  ASSUME CredentialInv, EntriesYoung, NEW r \in Requests, Holding(r)
  PROVE  age[Nonce(r)] \in Nat /\ age[Nonce(r)] <= 5 * StepLimit
  <1>1. age[Nonce(r)] \in Nat /\ spent[r] \in 0 .. StepLimit
    BY HolderIsAttempt, TimingAssumption DEF EntriesYoung, TimedTypeOK
  <1>2. age[Nonce(r)] <= Before(pc[r]) * StepLimit + spent[r]
    BY DEF EntriesYoung
  <1>3. \/ Before(pc[r]) = 0 \/ Before(pc[r]) = 1 \/ Before(pc[r]) = 2
        \/ Before(pc[r]) = 3 \/ Before(pc[r]) = 4
    BY DEF Before
  <1> QED
    BY <1>1, <1>2, <1>3, TimingAssumption

\* An entry that the framework takes to be old enough is used by nobody.
LEMMA OldEnoughIsAged ==
  ASSUME CredentialInv, EntriesYoung, MinAgeSuffices, NEW e \in wal, OldEnough(e)
  PROVE  Aged(e)
  <1>1. ASSUME NEW r \in Requests, Holds(r, e)
        PROVE  FALSE
    <2>1. Holding(r) /\ e.id = Nonce(r)
      BY <1>1 DEF Holds, Holding
    <2>2. e.id # LegacyId
      BY <2>1, HolderIsAttempt, TagAssumption
    <2> QED
      BY <2>1, <2>2, HolderIsYoung, TimingAssumption DEF OldEnough, MinAgeSuffices
  <1>2. ASSUME NEW c \in late, c.by = e.id
        PROVE  FALSE
    <2>1. c.by \in Attempts
      BY DEF CredentialInv, TypeOK, Creates
    <2>2. age[c.by] \in Nat
      BY <2>1, TimingAssumption DEF EntriesYoung, TimedTypeOK
    <2>3. age[c.by] <= PVELimit \/ age[c.by] <= StepLimit
      BY DEF EntriesYoung
    <2>4. e.id # LegacyId
      BY <1>2, <2>1, TagAssumption
    <2> QED
      BY <1>2, <2>2, <2>3, <2>4, TimingAssumption DEF OldEnough, MinAgeSuffices
  <1> QED
    BY <1>1, <1>2 DEF Aged

\* So a step on the clock is a step of CredentialLifecycle.
LEMMA TimedStepIsStep ==
  ASSUME CredentialInv, EntriesYoung, MinAgeSuffices, TimedStep
  PROVE  Next
  <1>1. ASSUME NEW e \in wal, SweepStart(e)
        PROVE  Next
    <2>1. RollbackStart(e)
      BY <1>1, OldEnoughIsAged DEF SweepStart, RollbackStart
    <2> QED
      BY <2>1 DEF Next, Rollback
  <1> QED
    BY <1>1 DEF TimedStep, TimedRollback, Next, Rollback

-----------------------------------------------------------------------------
(* What a step does to the handlers and their entries *)

\* How a step may move a handler: not at all, off its entry, on to a later step
\* with the same entry, or to a new entry, which it may not know of.
Moved(r) ==
  \/ attempt'[r] = attempt[r] /\ pc'[r] = pc[r]
  \/ attempt'[r] = attempt[r] /\ pc'[r] \notin HoldSteps
  \/ /\ attempt'[r] = attempt[r] /\ pc[r] \in HoldSteps
     /\ Before(pc'[r]) \in 1 .. 4 /\ Before(pc[r]) < Before(pc'[r])
  \/ /\ attempt'[r] = attempt[r] + 1 /\ pc'[r] \in {"create", "failed"} /\ pc[r] = "attempt"

\* The handler of the request that takes a step.
LEMMA IssueMoves ==
  ASSUME TypeOK, NEW r \in Requests, Issue(r) \/ Lease(r)
  PROVE  Moved(r)
  <1> USE DEF TypeOK, Moved, Before, HoldSteps, Goto
  <1>1. CASE Lease(r)
    BY <1>1 DEF Lease, Revoke, RevokeOk, RevokeErr, handler
  <1>2. CASE (\E u \in UserIds : PutWALOk(r, u)) \/ PutWALErr(r)
    BY <1>2 DEF PutWALOk, PutWALErr, LogAttempt, handler
  <1>3. CASE CollisionDeleteWALOk(r)
    BY <1>3 DEF CollisionDeleteWALOk, handler
  <1>4. CASE \/ Refuse(r) \/ \E m \in {"token", "password"} : Begin(r, m)
             \/ CreateUserErr(r) \/ CreateUserTimeout(r)
             \/ CollisionDeleteWALErr(r) \/ LastDelete(r) \/ CleanupErr(r)
             \/ CleanupDeleteWAL(r) \/ RegisterLease(r) \/ IssueDeleteWALOk(r)
    BY <1>4 DEF Refuse, Begin, CreateUserErr, CreateUserTimeout,
       CollisionDeleteWALErr, LastDelete, CleanupErr, CleanupDeleteWAL,
       RegisterLease, IssueDeleteWALOk, handler
  <1>5. CASE \/ \E comment \in Comments(Nonce(r)), inGroup \in BOOLEAN :
                  CreateUserOk(r, comment, inGroup)
             \/ CreateUserConflict(r) \/ ReadBackOk(r) \/ ReadBackErr(r)
             \/ CreateTokenOk(r) \/ CreateTokenErr(r) \/ IssueDeleteWALErr(r)
             \/ CleanupOk(r)
    BY <1>5 DEF CreateUserOk, CreateUserConflict, ReadBackOk, ReadBackErr,
       CreateTokenOk, CreateTokenErr, IssueDeleteWALErr, CleanupOk, handler
  <1> QED
    BY <1>1, <1>2, <1>3, <1>4, <1>5 DEF Issue

\* The handlers of the other requests stay where they are.
LEMMA OthersStay ==
  ASSUME TypeOK, NEW r \in Requests, Issue(r) \/ Lease(r), NEW q \in Requests, q # r
  PROVE  attempt'[q] = attempt[q] /\ pc'[q] = pc[q]
  BY DEF TypeOK, Goto, Lease, Revoke, RevokeOk, RevokeErr, handler, Issue, PutWALOk,
     CollisionDeleteWALOk, Refuse, Begin, PutWALErr, CreateUserErr, CreateUserTimeout,
     CollisionDeleteWALErr, LastDelete, CleanupErr, CleanupDeleteWAL,
     RegisterLease, IssueDeleteWALOk, CreateUserOk, CreateUserConflict, ReadBackOk,
     ReadBackErr, CreateTokenOk, CreateTokenErr, IssueDeleteWALErr, CleanupOk, LogAttempt

\* Every step moves every handler in one of these ways.
LEMMA StepMoves ==
  ASSUME TypeOK, Next, NEW r \in Requests
  PROVE  Moved(r)
  <1>1. CASE \E q \in Requests : Issue(q) \/ Lease(q)
    BY <1>1, IssueMoves, OthersStay DEF Moved
  <1>2. CASE Rollback
    BY <1>2 DEF Rollback, RollbackStart, RollbackGetUser, RollbackDeleteUser, RollbackErr,
       RollbackDropWAL, RollbackDropErr, Moved, handler
  <1>3. ASSUME NEW inflight \in SUBSET Requests, Crash(inflight)
        PROVE  Moved(r)
    <2>1. pc'[r] = pc[r] \/ pc'[r] \in {"lost", "stranded", "crashed"}
      BY <1>3 DEF Crash, TypeOK
    <2>2. attempt' = attempt
      BY <1>3 DEF Crash, handler
    <2> QED
      BY <2>1, <2>2 DEF Moved, HoldSteps
  <1>4. CASE Environment
    BY <1>3, <1>4 DEF Environment, LateCreate, LateDrop, OperatorRemove, ConfigWrite,
       ConfigDelete, Moved, handler
  <1> QED
    BY <1>1, <1>2, <1>4 DEF Next

\* A CreateUser is left to PVE by a handler that was about to make it.
LEMMA NewLate ==
  ASSUME TypeOK, Next, NEW c \in late', c \notin late
  PROVE  \E r \in Requests : pc[r] = "create" /\ c.by = Nonce(r)
  <1>1. ASSUME NEW r \in Requests, Issue(r) \/ Lease(r)
        PROVE  pc[r] = "create" /\ c.by = Nonce(r)
    <2>1. CASE CreateUserTimeout(r)
      BY <2>1 DEF CreateUserTimeout
    <2>2. CASE ~CreateUserTimeout(r)
      <3>1. late' = late
        BY <1>1, <2>2
        DEF Lease, Revoke, RevokeOk, RevokeErr, Issue, PutWALOk, CollisionDeleteWALOk,
            Refuse, Begin, PutWALErr, CreateUserErr, CollisionDeleteWALErr, LastDelete,
            CleanupErr, CleanupDeleteWAL, RegisterLease, IssueDeleteWALOk, CreateUserOk,
            CreateUserConflict, ReadBackOk, ReadBackErr, CreateTokenOk, CreateTokenErr,
            IssueDeleteWALErr, CleanupOk
      <3> QED
        BY <3>1
    <2> QED
      BY <2>1, <2>2
  <1>2. CASE Rollback
    BY <1>2 DEF Rollback, RollbackStart, RollbackGetUser, RollbackDeleteUser, RollbackErr,
       RollbackDropWAL, RollbackDropErr
  <1>3. CASE Environment
    BY <1>3 DEF Environment, LateCreate, LateDrop, OperatorRemove, ConfigWrite,
       ConfigDelete, Crash
  <1> QED
    BY <1>1, <1>2, <1>3 DEF Next

-----------------------------------------------------------------------------
(* The ages *)

\* A step of the engine makes no entry older and relies on no older one.
LEMMA StepKeepsYoung ==
  ASSUME CredentialInv, CredentialInv', EntriesYoung, Next, Restart, UNCHANGED age
  PROVE  EntriesYoung'
  <1> USE TimingAssumption
  <1>0. TypeOK /\ TypeOK'
    BY DEF CredentialInv
  <1>1. TimedTypeOK'
    BY DEF EntriesYoung, TimedTypeOK, Restart
  <1>2. ASSUME NEW a \in Attempts, ~Drawn(a)'
        PROVE  age'[a] = 0
    <2>1. a[1] \in Requests /\ a[2] \in Nat
      BY RetriesAssumption DEF Attempts
    <2>2. Moved(a[1])
      BY <1>0, <2>1, StepMoves
    <2>3. attempt[a[1]] \in Nat /\ attempt[a[1]] <= attempt'[a[1]]
      BY <1>0, <2>1, <2>2, RetriesAssumption DEF Moved, TypeOK
    <2>4. ~Drawn(a)
      BY <1>0, <1>2, <2>1, <2>3, RetriesAssumption DEF Drawn, TypeOK
    <2> QED
      BY <2>4 DEF EntriesYoung
  <1>3. ASSUME NEW r \in Requests, Holding(r)'
        PROVE  age'[Nonce(r)'] <= Before(pc'[r]) * StepLimit + spent'[r]
    <2>1. Moved(r)
      BY <1>0, StepMoves
    <2>2. CASE attempt'[r] = attempt[r] /\ pc'[r] = pc[r]
      <3>1. Holding(r) /\ Nonce(r)' = Nonce(r) /\ spent'[r] = spent[r]
        BY <1>3, <2>2 DEF Holding, Nonce, Restart
      <3> QED
        BY <2>2, <3>1 DEF EntriesYoung
    <2>3. CASE /\ attempt'[r] = attempt[r] /\ pc[r] \in HoldSteps
               /\ Before(pc'[r]) \in 1 .. 4 /\ Before(pc[r]) < Before(pc'[r])
      <3>1. Holding(r) /\ Nonce(r)' = Nonce(r)
        BY <2>3 DEF Holding, Nonce
      <3>2. age[Nonce(r)] <= Before(pc[r]) * StepLimit + spent[r]
        BY <3>1 DEF EntriesYoung
      <3>3. age[Nonce(r)] \in Nat /\ spent[r] \in 0 .. StepLimit /\ spent'[r] \in 0 .. StepLimit
        BY <3>1, HolderIsAttempt, <1>1 DEF EntriesYoung, TimedTypeOK
      <3>4. Before(pc[r]) \in 0 .. 4
        BY DEF Before
      <3>5. Before(pc[r]) * StepLimit + StepLimit <= Before(pc'[r]) * StepLimit
        <4> DEFINE b == Before(pc[r])
                   d == Before(pc'[r])
        <4>1. b \in 0 .. 4 /\ d \in 1 .. 4 /\ b < d
          BY <2>3, <3>4
        <4> HIDE DEF b, d
        <4>2. b * StepLimit + StepLimit <= d * StepLimit
          <5>1. (b = 0 \/ b = 1 \/ b = 2 \/ b = 3) /\ (d = 1 \/ d = 2 \/ d = 3 \/ d = 4)
            BY <4>1
          <5> QED
            BY <4>1, <5>1
        <4> QED
          BY <4>2 DEF b, d
      <3>6. Before(pc[r]) * StepLimit \in Nat /\ Before(pc'[r]) * StepLimit \in Nat
        BY <2>3, <3>4
      <3> QED
        BY <3>1, <3>2, <3>3, <3>5, <3>6
    <2>4. CASE attempt'[r] = attempt[r] + 1 /\ pc'[r] \in {"create", "failed"} /\ pc[r] = "attempt"
      <3>1. Nonce(r)' = <<r, attempt[r] + 1>> /\ attempt[r] \in Nat
        BY <1>0, <2>4, RetriesAssumption DEF Nonce, TypeOK
      <3>2. Nonce(r)' \in Attempts
        BY <1>0, <2>4, <3>1, RetriesAssumption DEF TypeOK, Attempts
      <3>3. age[Nonce(r)'] = 0
        BY <3>1, <3>2 DEF EntriesYoung, Drawn
      <3>4. spent'[r] \in Nat
        BY <1>1 DEF TimedTypeOK
      <3> QED
        BY <1>3, <2>4, <3>3, <3>4 DEF Before, Holding, HoldSteps
    <2> QED
      BY <1>3, <2>1, <2>2, <2>3, <2>4 DEF Moved, Holding
  <1>4. ASSUME NEW c \in late'
        PROVE  age'[c.by] <= PVELimit \/ age'[c.by] <= StepLimit
    <2>1. CASE c \in late
      BY <2>1 DEF EntriesYoung
    <2>2. CASE c \notin late
      <3>1. PICK r \in Requests : pc[r] = "create" /\ c.by = Nonce(r)
        BY <1>0, <2>2, NewLate
      <3>2. Holding(r) /\ Before(pc[r]) = 0
        BY <3>1 DEF Holding, HoldSteps, Before
      <3>3. age[Nonce(r)] <= 0 * StepLimit + spent[r]
        BY <3>2 DEF EntriesYoung
      <3>4. age[Nonce(r)] \in Nat /\ spent[r] \in 0 .. StepLimit
        BY <3>2, HolderIsAttempt DEF EntriesYoung, TimedTypeOK
      <3> QED
        BY <3>1, <3>3, <3>4
    <2> QED
      BY <2>1, <2>2
  <1> QED
    BY <1>1, <1>2, <1>3, <1>4 DEF EntriesYoung

\* Time makes entries older, but no step and no call outlasts its limit.
LEMMA TickKeepsYoung ==
  ASSUME CredentialInv, EntriesYoung, Tick
  PROVE  EntriesYoung'
  <1> USE TimingAssumption
  <1>0. /\ late' = late /\ attempt' = attempt /\ pc' = pc
        /\ age \in [Attempts -> 0 .. MinAge] /\ spent \in [Requests -> 0 .. StepLimit]
    BY DEF Tick, vars, EntriesYoung, TimedTypeOK
  <1>1. TimedTypeOK'
    BY <1>0 DEF Tick, TimedTypeOK, Older
  <1>2. ASSUME NEW a \in Attempts
        PROVE  /\ ~Drawn(a)' => age'[a] = 0
               /\ age[a] \in Nat /\ age'[a] \in Nat /\ age'[a] <= age[a] + 1
    BY <1>0 DEF Tick, Drawn, Older
  <1>3. ASSUME NEW r \in Requests, Holding(r)'
        PROVE  age'[Nonce(r)'] <= Before(pc'[r]) * StepLimit + spent'[r]
    <2>1. Holding(r) /\ Nonce(r)' = Nonce(r)
      BY <1>0, <1>3 DEF Holding, Nonce
    <2>2. spent'[r] = spent[r] + 1 /\ spent[r] \in Nat
      BY <1>0, <2>1 DEF Tick
    <2>3. age[Nonce(r)] <= Before(pc[r]) * StepLimit + spent[r]
      BY <2>1 DEF EntriesYoung
    <2>4. Nonce(r) \in Attempts
      BY <2>1, HolderIsAttempt
    <2>5. Before(pc[r]) * StepLimit \in Nat
      BY DEF Before
    <2> QED
      BY <1>0, <1>2, <2>1, <2>2, <2>3, <2>4, <2>5
  <1>4. ASSUME NEW c \in late'
        PROVE  age'[c.by] <= PVELimit \/ age'[c.by] <= StepLimit
    <2>1. c \in late /\ c.by \in Attempts
      BY <1>0 DEF CredentialInv, TypeOK, Creates
    <2>2. age[c.by] < PVELimit
      BY <2>1 DEF Tick
    <2> QED
      BY <1>2, <2>1, <2>2
  <1> QED
    BY <1>1, <1>2, <1>3, <1>4 DEF EntriesYoung

\* At first no entry is drawn and nothing is late.
LEMMA YoungInit == TimedInit => EntriesYoung
  BY TimingAssumption DEF TimedInit, Init, EntriesYoung, TimedTypeOK, Holding, HoldSteps

-----------------------------------------------------------------------------
(* The theorems *)

\* With a minimum age that covers five steps and PVE's delay, every step on the
\* clock preserves the bounds on ages, and is a step of CredentialLifecycle.
LEMMA TimedStepOk ==
  ASSUME MinAgeSuffices, CredentialInv, EntriesYoung, [TimedNext]_timedVars
  PROVE  CredentialInv' /\ EntriesYoung' /\ [Next]_vars
  <1>1. CASE TimedStep /\ Restart /\ UNCHANGED age
    <2>1. Next
      BY <1>1, TimedStepIsStep
    <2>2. CredentialInv'
      BY <2>1, NextSafe
    <2> QED
      BY <1>1, <2>1, <2>2, StepKeepsYoung
  <1>2. CASE Tick
    <2>1. UNCHANGED vars
      BY <1>2 DEF Tick
    <2> QED
      BY <1>2, <2>1, NextSafe, TickKeepsYoung
  <1>3. CASE UNCHANGED timedVars
    <2>1. UNCHANGED vars /\ UNCHANGED <<age, spent>>
      BY <1>3 DEF timedVars
    <2>2. EntriesYoung'
      BY <2>1 DEF vars, EntriesYoung, TimedTypeOK, Drawn, Holding, Nonce
    <2> QED
      BY <2>1, <2>2, NextSafe
  <1> QED
    BY <1>1, <1>2, <1>3 DEF TimedNext

\* No entry that a handler or PVE relies on grows old.
THEOREM EntriesStayYoung ==
  ASSUME MinAgeSuffices
  PROVE  TimedSpec => []EntriesYoung
  <1>1. TimedInit => CredentialInv /\ EntriesYoung
    BY TypeInit, SafeInit, YoungInit DEF TimedInit, Safe, CredentialInv
  <1>2. CredentialInv /\ EntriesYoung /\ [TimedNext]_timedVars
        => CredentialInv' /\ EntriesYoung'
    BY TimedStepOk
  <1> QED
    BY <1>1, <1>2, PTL DEF TimedSpec

\* The rollback that looks at nothing but the age of an entry implements the one
\* that knows who uses it: all that is proved of CredentialLifecycle holds of the
\* engine on a clock.
THEOREM ClockImplements ==
  ASSUME MinAgeSuffices
  PROVE  TimedSpec => Untimed
  <1>1. TimedInit => CredentialInv /\ EntriesYoung /\ Init
    BY TypeInit, SafeInit, YoungInit DEF TimedInit, Safe, CredentialInv
  <1>2. CredentialInv /\ EntriesYoung /\ [TimedNext]_timedVars
        => CredentialInv' /\ EntriesYoung' /\ [Next]_vars
    BY TimedStepOk
  <1> QED
    BY <1>1, <1>2, PTL DEF TimedSpec, Untimed, Spec

\* With real ages, no user of the engine is orphaned in other ways than the two that
\* NeverOrphaned names, no foreign account touched, and no user left by a revocation.
THEOREM TimedAccountsSafe ==
  ASSUME MinAgeSuffices
  PROVE  TimedSpec => [](NeverOrphaned /\ ForeignUntouched /\ RevokedIsGone)
  BY ClockImplements, NoOrphans, ForeignAccountsSafe, RevocationFinal, PTL DEF Untimed

\* With real ages and no suffix drawn twice, the rollback deletes no credential
\* that is out: WALRollbackMinAge is all that keeps it off.
THEOREM TimedCredentialsIntact ==
  ASSUME MinAgeSuffices, ~UseridReuse
  PROVE  TimedSpec => []IssuedCredentialIntact
  BY ClockImplements, CredentialsIntact, PTL DEF Untimed
=============================================================================
