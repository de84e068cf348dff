--------------------------- MODULE IssuanceTiming ---------------------------
(***************************************************************************)
(* CredentialLifecycle on a clock.  There, Aged says that the rollback     *)
(* meets no WAL entry whose handler is at work or whose CreateUser PVE may *)
(* still execute.  Here the rollback knows what the framework knows, the   *)
(* age of the entry (WALRollbackMinAge, backend.go), handlers take time    *)
(* over their steps, and Aged is a consequence.                            *)
(*                                                                         *)
(* A step of a handler takes at most StepLimit: 30 s for its HTTP call     *)
(* (httpTimeout), and what storage and a refresh of the client add.        *)
(***************************************************************************)
EXTENDS CredentialLifecycle

CONSTANTS
  StepLimit,   \* the longest a step of a handler takes
  PVELimit,    \* age of an entry by which PVE is done with its CreateUser
  MinAge       \* WALRollbackMinAge

ASSUME TimingAssumption == StepLimit \in Nat /\ PVELimit \in Nat /\ MinAge \in Nat

VARIABLES
  age,    \* per attempt: the time since its PutWAL, MinAge if it is more
  spent   \* per request: the time its current step has taken

timedVars == <<vars, age, spent>>

Holding(r) == pc[r] \in HoldSteps
Drawn(a) == a[2] <= attempt[a[1]]

TimedTypeOK ==
  /\ age \in [Attempts -> 0 .. MinAge]
  /\ spent \in [Requests -> 0 .. StepLimit]

TimedInit ==
  /\ Init
  /\ age = [a \in Attempts |-> 0]
  /\ spent = [r \in Requests |-> 0]

-----------------------------------------------------------------------------
\* Mutation: half the minimum age.
OldEnough_Half(e) == e.id # LegacyId => 2 * age[e.id] >= MinAge

-----------------------------------------------------------------------------
\* The framework passes over the entries that are younger than MinAge.
OldEnough(e) == e.id # LegacyId => age[e.id] >= MinAge

SweepStart(e) ==
  /\ rb.pc = "idle"
  /\ e \in wal
  /\ OldEnough(e)
  /\ rb' = [pc |-> "get", entry |-> e]
  /\ UNCHANGED <<users, late, wal, config, pc, handler, crashes>>

TimedRollback ==
  \/ \E e \in wal : SweepStart(e)
  \/ RollbackGetUser
  \/ RollbackDeleteUser
  \/ RollbackErr
  \/ RollbackDropWAL
  \/ RollbackDropErr

\* What the timed engine does: only the start of a rollback is another.
TimedStep ==
  \/ \E r \in Requests : Issue(r) \/ Lease(r)
  \/ TimedRollback
  \/ Environment

\* The time of a step is counted from the end of the one before.
Restart == spent' = [r \in Requests |-> IF pc'[r] = pc[r] THEN spent[r] ELSE 0]

Older(t) == IF t < MinAge THEN t + 1 ELSE MinAge

\* Time passes, but not past the limit of a step or of PVE.
Tick ==
  /\ \A r \in Requests : Holding(r) => spent[r] < StepLimit
  /\ \A c \in late : age[c.by] < PVELimit
  /\ age' = [a \in Attempts |-> IF Drawn(a) THEN Older(age[a]) ELSE 0]
  /\ spent' = [r \in Requests |-> IF Holding(r) THEN spent[r] + 1 ELSE 0]
  /\ UNCHANGED vars

TimedNext ==
  \/ TimedStep /\ Restart /\ UNCHANGED age
  \/ Tick

TimedSpec == TimedInit /\ [][TimedNext]_timedVars

\* Every call of a handler returns (30 s HTTP timeout), the rollback manager
\* sweeps periodically, PVE is done with a request at some time, a lease ends (at
\* max_ttl at the latest), and time passes.  PVE and the storage may fail any
\* number of times, but not for ever on a call that is repeated again and again.
TimedFairness ==
  LET Timed(step) == step /\ Restart /\ UNCHANGED age IN
  /\ \A r \in Requests : /\ WF_timedVars(Timed(pc[r] \in HandlerSteps /\ Issue(r)))
                         /\ WF_timedVars(Timed(Revoke(r)))
                         /\ SF_timedVars(Timed(RevokeOk(r)))
  /\ WF_timedVars(Timed(\E c \in late : LateDrop(c)))
  /\ WF_timedVars(Timed(TimedRollback))
  /\ SF_timedVars(Timed(RollbackGetUser))
  /\ SF_timedVars(Timed(RollbackDeleteUser))
  /\ SF_timedVars(Timed(RollbackDropWAL))
  /\ WF_timedVars(Tick)

FairTimedSpec == TimedSpec /\ TimedFairness

-----------------------------------------------------------------------------
(* Properties *)

\* The steps that a handler may have made since its PutWAL.
Before(step) ==
  IF step = "create" THEN 0
  ELSE IF step \in {"collision", "readback"} THEN 1
  ELSE IF step = "token" THEN 2
  ELSE IF step \in {"delwal", "cleanup"} THEN 3 ELSE 4

\* The minimum age is longer than the five steps that may follow a PutWAL, and
\* than PVE takes over a CreateUser.  With 5 minutes it is so for steps of less
\* than a minute, twice the HTTP timeout.
MinAgeSuffices == 5 * StepLimit < MinAge /\ PVELimit < MinAge

\* How old the entries are that somebody still relies on: no handler, however
\* many collisions it has seen and whatever cleanup it is in, works on an entry
\* older than the steps since that entry's own PutWAL.
EntriesYoung ==
  /\ TimedTypeOK
  /\ \A a \in Attempts : ~Drawn(a) => age[a] = 0
  /\ \A r \in Requests : Holding(r) =>
       age[Nonce(r)] <= Before(pc[r]) * StepLimit + spent[r]
  /\ \A c \in late : age[c.by] <= PVELimit \/ age[c.by] <= StepLimit

\* The engine on a clock is CredentialLifecycle: the age of the entry alone,
\* with no look at handlers or at PVE, keeps the rollback off everything that
\* is still in use, so what holds there holds with real ages as well.
Untimed == Spec
=============================================================================
