---------------------------- MODULE RootRotation ----------------------------
(***************************************************************************)
(* Rotation of the provisioner token the engine itself authenticates with: *)
(*                                                                         *)
(*   - rotateRoot and validateReplacement (path_rotate_root.go);           *)
(*   - the guarded recoverRotation an operator may ask for;                *)
(*   - walRollbackRotation and recoverRotationToken (wal.go);              *)
(*   - configWrite and configDelete (path_config.go), which store the same *)
(*     config without taking rotationLock;                                 *)
(*   - the cached client of getClient and invalidate (backend.go).         *)
(*                                                                         *)
(* The first three run under rotationLock, so there is at most one of them *)
(* at a time: op.  Each of its steps is one call to the storage or to PVE. *)
(* An error, a lost answer and a crash each cost one of MaxFaults.         *)
(***************************************************************************)
EXTENDS Naturals

CONSTANTS
  Tokens,              \* ids of API tokens of the provisioner user
  InitialToken,        \* the token of the first config
  SpareTokens,         \* further tokens an operator has created for the engine
  None,                \* no token
  MaxFaults,           \* bound: faults in one behaviour
  Overlap,             \* may a rotation start while a config write is under way?
  AmbiguousConfigPut   \* may storing the config fail and still take effect?

ASSUME TokenAssumption == /\ InitialToken \in Tokens
                          /\ SpareTokens \subseteq Tokens
                          /\ None \notin Tokens
ASSUME FaultAssumption == MaxFaults \in Nat
ASSUME FlagAssumption == Overlap \in BOOLEAN /\ AmbiguousConfigPut \in BOOLEAN

VARIABLES
  tok,      \* PVE: what has become of each token id
  late,     \* PVE: tokens of CreateToken calls still to be executed or dropped
  config,   \* storage: the token of the config, None without a config
  rot,      \* storage: the rotation state, at most one
  wal,      \* storage: the WAL entries of kind walTypeRotation
  cache,    \* memory: the token of the cached client, None without one
  op,       \* memory: the operation that holds rotationLock
  cw,       \* memory: the configWrite or configDelete in progress
  sweep,    \* memory: WAL entries whose rollback returned nil
  faults    \* faults so far

vars == <<tok, late, config, rot, wal, cache, op, cw, sweep, faults>>

-----------------------------------------------------------------------------
(* State. *)

MaybeToken == Tokens \cup {None}
Phases == {"provisioning", "validation-failed", "deleting-old"}

\* A rotation is known by its token pair; the new token also names its WAL id.
Pairs == [old : Tokens, new : Tokens]
States == [old : Tokens, new : Tokens, phase : Phases]
Pair(s) == [old |-> s.old, new |-> s.new]

\* "fresh" was never drawn, "drawn" not created so far.  A live token is the
\* engine's to account for when a rotation created it or put another in its
\* place, and an operator's when a config write put another in its place.
Fates == {"fresh", "drawn", "engine", "operator", "gone"}
Live(t) == t # None /\ tok[t] \in {"engine", "operator"}

Steps == {"putwal", "putstate", "checkold", "markfailed", "create", "validate",
          "putconfig", "invalidate", "putphase", "exists", "delete", "confirm",
          "delwal", "delstate"}
Free == [kind |-> "none", pc |-> "free", old |-> None, new |-> None,
         client |-> None, target |-> None]
Ops == {Free} \cup [kind : {"rotate", "recover", "rollback"}, pc : Steps,
                    old : Tokens, new : Tokens,
                    client : MaybeToken, target : MaybeToken]

ConfigOps == [pc : {"idle", "put", "invalidate"}, token : MaybeToken]
NoConfigOp == [pc |-> "idle", token |-> None]

TypeOK ==
  /\ tok \in [Tokens -> Fates]
  /\ late \subseteq Tokens
  /\ config \in MaybeToken
  /\ rot \subseteq States
  /\ wal \subseteq Pairs
  /\ cache \in MaybeToken
  /\ op \in Ops
  /\ cw \in ConfigOps
  /\ sweep \subseteq Pairs
  /\ faults \in 0 .. MaxFaults

Init ==
  /\ tok = [t \in Tokens |-> IF t \in SpareTokens \cup {InitialToken}
                             THEN "operator" ELSE "fresh"]
  /\ late = {}
  /\ config = InitialToken
  /\ rot = {}
  /\ wal = {}
  /\ cache = None
  /\ op = Free
  /\ cw = NoConfigOp
  /\ sweep = {}
  /\ faults = 0

-----------------------------------------------------------------------------
(* What the storage, PVE and the client cache do. *)

Fault == faults < MaxFaults /\ faults' = faults + 1
NoFault == faults' = faults
Goto(step) == op' = [op EXCEPT !.pc = step]
Unlock == op' = Free

\* getClient: the cached client, or a new one for the stored config.
ClientToken == IF cache # None THEN cache ELSE config
GetClient == ClientToken # None /\ cache' = ClientToken

CreateToken(t) == tok' = [tok EXCEPT ![t] = "engine"]
DeleteToken(t) == tok' = IF Live(t) THEN [tok EXCEPT ![t] = "gone"] ELSE tok

\* PVE answers 401 to a client whose token no longer exists.
Authenticated == Live(op.client)

putRotationState(s) == rot' = {s}

-----------------------------------------------------------------------------
(* Mutations: steps as a slip in the code would have them.  No action of   *)
(* Next uses them; each property is shown to fail with one of them in the  *)
(* place of the step it is named after.                                    *)

\* A rotation starts although another one is pending.
RotateStart_WhilePending(t) ==
  /\ op = Free
  /\ config # None
  /\ tok[t] = "fresh"
  /\ Overlap \/ cw.pc = "idle"
  /\ tok' = [tok EXCEPT ![t] = "drawn"]
  /\ op' = [kind |-> "rotate", pc |-> "putwal", old |-> config, new |-> t,
            client |-> None, target |-> None]
  /\ UNCHANGED <<late, config, rot, wal, cache, cw, sweep, faults>>

\* The cached client outlives the Put of the new config.
RotateInvalidate_Forgotten ==
  /\ op.pc = "invalidate"
  /\ cache' = cache
  /\ Goto("putphase")
  /\ UNCHANGED <<tok, late, config, rot, wal, cw, sweep, faults>>

\* The phase written is not one that rotationStatus knows.
RotatePutPhase_Unknown ==
  /\ op.pc = "putphase"
  /\ putRotationState([old |-> op.old, new |-> op.new, phase |-> "deleted-old"])
  /\ op' = [op EXCEPT !.pc = "delete", !.target = op.old]
  /\ UNCHANGED <<tok, late, config, wal, cache, cw, sweep, faults>>

\* A token that is gone already is an error.
TokenExists_MissingIsError ==
  /\ op.pc = "exists"
  /\ Authenticated
  /\ IF Live(op.target) THEN Goto("delete") ELSE Unlock
  /\ UNCHANGED <<tok, late, config, rot, wal, cache, cw, sweep, faults>>

\* Guarded recovery deletes whatever token the operator names.
RecoverStart_Unguarded(target) ==
  /\ op = Free
  /\ Overlap \/ cw.pc = "idle"
  /\ config # None
  /\ \E s \in rot :
       /\ target \in {s.old, s.new}
       /\ GetClient
       /\ op' = [kind |-> "recover", pc |-> "exists", old |-> s.old,
                 new |-> s.new, client |-> ClientToken, target |-> target]
  /\ UNCHANGED <<tok, late, config, rot, wal, cw, sweep, faults>>

\* An entry without a rotation state is an error, to be retried.
RollbackNothing_IsError(e) ==
  /\ op = Free
  /\ e \in wal
  /\ e.new \notin late
  /\ rot = {}
  /\ UNCHANGED vars

\* The rollback takes every rotation for one that did not reach its config.
RollbackStart_AlwaysNew(e) ==
  /\ op = Free
  /\ e \in wal
  /\ e.new \notin late
  /\ \E s \in rot : Pair(s) = e
  /\ config \in {e.old, e.new}
  /\ GetClient
  /\ op' = [kind |-> "rollback", pc |-> "exists", old |-> e.old, new |-> e.new,
            client |-> ClientToken, target |-> e.new]
  /\ UNCHANGED <<tok, late, config, rot, wal, cw, sweep, faults>>

\* A WALRollbackMinAge shorter than PVE may take to execute CreateToken.
RollbackStart_TooSoon(e) ==
  /\ op = Free
  /\ e \in wal
  /\ \E s \in rot : Pair(s) = e
  /\ config \in {e.old, e.new}
  /\ GetClient
  /\ op' = [kind |-> "rollback", pc |-> "exists", old |-> e.old, new |-> e.new,
            client |-> ClientToken,
            target |-> IF config = e.old THEN e.new ELSE e.old]
  /\ UNCHANGED <<tok, late, config, rot, wal, cw, sweep, faults>>

-----------------------------------------------------------------------------
(* rotateRoot *)

\* Takes the lock; expected_token_id is the configured token, no rotation is
\* pending, and a token id is drawn.
RotateStart(t) ==
  /\ op = Free
  /\ config # None
  /\ rot = {}
  /\ tok[t] = "fresh"
  /\ Overlap \/ cw.pc = "idle"
  /\ tok' = [tok EXCEPT ![t] = "drawn"]
  /\ op' = [kind |-> "rotate", pc |-> "putwal", old |-> config, new |-> t,
            client |-> None, target |-> None]
  /\ UNCHANGED <<late, config, rot, wal, cache, cw, sweep, faults>>

RotatePutWAL ==
  /\ op.pc = "putwal"
  /\ wal' = wal \cup {Pair(op)}
  /\ Goto("putstate")
  /\ UNCHANGED <<tok, late, config, rot, cache, cw, sweep, faults>>

RotatePutState ==
  /\ op.pc = "putstate"
  /\ putRotationState([old |-> op.old, new |-> op.new, phase |-> "provisioning"])
  /\ Goto("checkold")
  /\ UNCHANGED <<tok, late, config, wal, cache, cw, sweep, faults>>

\* getClient and TokenExists of the current token, which must be there.
RotateCheckOld ==
  /\ op.pc = "checkold"
  /\ GetClient
  /\ \/ /\ NoFault
        /\ op' = [op EXCEPT !.client = ClientToken,
                  !.pc = IF Live(ClientToken) /\ Live(op.old)
                         THEN "create" ELSE "markfailed"]
     \/ /\ Fault
        /\ Goto("markfailed")
  /\ UNCHANGED <<tok, late, config, rot, wal, cw, sweep>>

\* Without a client the rotation stays as it is.
RotateNoClient ==
  /\ op.pc = "checkold"
  /\ ClientToken = None
  /\ Unlock
  /\ UNCHANGED <<tok, late, config, rot, wal, cache, cw, sweep, faults>>

\* The phase is recorded as well as it can be.
RotateMarkFailed ==
  /\ op.pc = "markfailed"
  /\ \/ /\ NoFault
        /\ putRotationState([old |-> op.old, new |-> op.new,
                             phase |-> "validation-failed"])
     \/ Fault /\ rot' = rot
  /\ Unlock
  /\ UNCHANGED <<tok, late, config, wal, cache, cw, sweep>>

RotateCreateToken ==
  /\ op.pc = "create"
  /\ Authenticated
  /\ CreateToken(op.new)
  /\ Goto("validate")
  /\ UNCHANGED <<late, config, rot, wal, cache, cw, sweep, faults>>

\* The client gives up on the call, which PVE may still execute.
RotateCreateTimeout ==
  /\ op.pc = "create"
  /\ Authenticated
  /\ Fault
  /\ late' = late \cup {op.new}
  /\ Unlock
  /\ UNCHANGED <<tok, config, rot, wal, cache, cw, sweep>>

\* With the replacement's own client: version, token list, privileges.
validateReplacement ==
  /\ op.pc = "validate"
  /\ \/ /\ NoFault
        /\ op' = [op EXCEPT !.client = op.new,
                  !.pc = IF Live(op.new) /\ Live(op.old)
                         THEN "putconfig" ELSE "markfailed"]
     \/ Fault /\ Goto("markfailed")
  /\ UNCHANGED <<tok, late, config, rot, wal, cache, cw, sweep>>

\* The old config with the new token: whatever the config is by now.
RotatePutConfig ==
  /\ op.pc = "putconfig"
  /\ config' = op.new
  /\ tok' = IF Live(op.old) THEN [tok EXCEPT ![op.old] = "engine"] ELSE tok
  /\ \/ NoFault /\ Goto("invalidate")
     \/ AmbiguousConfigPut /\ Fault /\ Unlock
  /\ UNCHANGED <<late, rot, wal, cache, cw, sweep>>

RotateInvalidate ==
  /\ op.pc = "invalidate"
  /\ cache' = None
  /\ Goto("putphase")
  /\ UNCHANGED <<tok, late, config, rot, wal, cw, sweep, faults>>

RotatePutPhase ==
  /\ op.pc = "putphase"
  /\ putRotationState([old |-> op.old, new |-> op.new, phase |-> "deleting-old"])
  /\ op' = [op EXCEPT !.pc = "delete", !.target = op.old]
  /\ UNCHANGED <<tok, late, config, wal, cache, cw, sweep, faults>>

-----------------------------------------------------------------------------
(* Deleting a token: the end of rotateRoot, recoverRotation and             *)
(* recoverRotationToken.                                                    *)

\* Where an operation goes once its token is known to be gone.
Confirmed == IF op.kind = "rollback" THEN "delstate" ELSE "delwal"

TokenExists ==
  /\ op.pc = "exists"
  /\ Authenticated
  /\ Goto(IF Live(op.target) THEN "delete" ELSE Confirmed)
  /\ UNCHANGED <<tok, late, config, rot, wal, cache, cw, sweep, faults>>

DeleteTokenOk ==
  /\ op.pc = "delete"
  /\ Authenticated
  /\ DeleteToken(op.target)
  /\ Goto("confirm")
  /\ UNCHANGED <<late, config, rot, wal, cache, cw, sweep, faults>>

DeleteTokenLost ==
  /\ op.pc = "delete"
  /\ Authenticated
  /\ Fault
  /\ DeleteToken(op.target)
  /\ Unlock
  /\ UNCHANGED <<late, config, rot, wal, cache, cw, sweep>>

ConfirmDeleted ==
  /\ op.pc = "confirm"
  /\ Authenticated
  /\ IF Live(op.target) THEN Unlock ELSE Goto(Confirmed)
  /\ UNCHANGED <<tok, late, config, rot, wal, cache, cw, sweep, faults>>

\* rotateRoot and recoverRotation drop the WAL entry before the state.
DeleteRotationWAL ==
  /\ op.pc = "delwal"
  /\ wal' = wal \ {Pair(op)}
  /\ Goto("delstate")
  /\ UNCHANGED <<tok, late, config, rot, cache, cw, sweep, faults>>

\* walRollbackRotation leaves the entry to the framework.
DeleteRotationState ==
  /\ op.pc = "delstate"
  /\ rot' = {}
  /\ sweep' = IF op.kind = "rollback" THEN sweep \cup {Pair(op)} ELSE sweep
  /\ Unlock
  /\ UNCHANGED <<tok, late, config, wal, cache, cw, faults>>

\* A storage or PVE call fails without effect, or a client cannot be built, and
\* the operation returns.
Abort ==
  /\ op.pc \notin {"free", "markfailed", "invalidate"}
  /\ \/ Fault
     \/ NoFault /\ op.pc \in {"create", "exists", "delete", "confirm"} /\ ~Authenticated
  /\ Unlock
  /\ UNCHANGED <<tok, late, config, rot, wal, cache, cw, sweep>>

-----------------------------------------------------------------------------
(* recoverRotation: the operator names the token to delete *)

\* GET rotate-root; stale says that the state is older than rotationStaleAfter.
rotationStatus(s, stale) ==
  IF \/ s.phase = "validation-failed"
     \/ config = None
     \/ stale
     \/ ~(\/ config = s.old /\ s.phase = "provisioning"
          \/ config = s.new /\ s.phase = "deleting-old")
  THEN "recovery-required" ELSE "in-progress"

\* The runbook: only on "recovery-required".  Five minutes are longer than PVE
\* takes to come to an end with a call.
RecoveryAdvised(s) ==
  \E stale \in BOOLEAN : /\ stale => s.new \notin late
                        /\ rotationStatus(s, stale) = "recovery-required"

RecoverStart(target) ==
  /\ op = Free
  /\ Overlap \/ cw.pc = "idle"
  /\ \E s \in rot :
       /\ RecoveryAdvised(s)
       /\ config # None
       /\ target \in {s.old, s.new}
       /\ target # config
       /\ GetClient
       /\ op' = [kind |-> "recover", pc |-> "exists", old |-> s.old,
                 new |-> s.new, client |-> ClientToken, target |-> target]
  /\ UNCHANGED <<tok, late, config, rot, wal, cw, sweep, faults>>

-----------------------------------------------------------------------------
(* walRollbackRotation, called for entries older than WALRollbackMinAge *)

\* No rotation state: the framework may drop the entry.
RollbackNothing(e) ==
  /\ op = Free
  /\ e \in wal
  /\ e.new \notin late
  /\ rot = {}
  /\ sweep' = sweep \cup {e}
  /\ UNCHANGED <<tok, late, config, rot, wal, cache, op, cw, faults>>

\* The state is this entry's, and the config names one token of the pair: the
\* other one goes.  In every other case the rollback is an error, to be retried.
RollbackStart(e) ==
  /\ op = Free
  /\ e \in wal
  /\ e.new \notin late
  /\ \E s \in rot : Pair(s) = e
  /\ config \in {e.old, e.new}
  /\ GetClient
  /\ op' = [kind |-> "rollback", pc |-> "exists", old |-> e.old, new |-> e.new,
            client |-> ClientToken,
            target |-> IF config = e.old THEN e.new ELSE e.old]
  /\ UNCHANGED <<tok, late, config, rot, wal, cw, sweep, faults>>

\* The framework, outside rotationLock.
SweepWAL(e) ==
  /\ e \in sweep
  /\ sweep' = sweep \ {e}
  /\ \/ NoFault /\ wal' = wal \ {e}
     \/ Fault /\ wal' = wal
  /\ UNCHANGED <<tok, late, config, rot, cache, op, cw>>

-----------------------------------------------------------------------------
(* configWrite and configDelete: no rotationLock *)

\* The runbook: operators start no config change while a rotation is pending,
\* unless it is to write a config that is missing.
Quiet == op = Free /\ (rot = {} \/ config = None)

\* The token is validated against PVE (GetVersion, GetPermissions).
ConfigWriteStart(t) ==
  /\ cw.pc = "idle"
  /\ Quiet
  /\ Live(t)
  /\ cw' = [pc |-> "put", token |-> t]
  /\ UNCHANGED <<tok, late, config, rot, wal, cache, op, sweep, faults>>

ConfigDeleteStart ==
  /\ cw.pc = "idle"
  /\ Quiet
  /\ config # None
  /\ cw' = [pc |-> "put", token |-> None]
  /\ UNCHANGED <<tok, late, config, rot, wal, cache, op, sweep, faults>>

\* A token that the config no longer names is left to the operator.
StoreConfig ==
  /\ config' = cw.token
  /\ tok' = IF config # cw.token /\ Live(config)
            THEN [tok EXCEPT ![config] = "operator"] ELSE tok

ConfigPut ==
  /\ cw.pc = "put"
  /\ StoreConfig
  /\ cw' = [cw EXCEPT !.pc = "invalidate"]
  /\ UNCHANGED <<late, rot, wal, cache, op, sweep, faults>>

ConfigPutErr ==
  /\ cw.pc = "put"
  /\ Fault
  /\ \/ UNCHANGED <<tok, config>>
     \/ AmbiguousConfigPut /\ StoreConfig
  /\ cw' = NoConfigOp
  /\ UNCHANGED <<late, rot, wal, cache, op, sweep>>

ConfigInvalidate ==
  /\ cw.pc = "invalidate"
  /\ cache' = None
  /\ cw' = NoConfigOp
  /\ UNCHANGED <<tok, late, config, rot, wal, op, sweep, faults>>

-----------------------------------------------------------------------------
(* The environment *)

\* Any other request of the mount, which calls getClient.
UseClient ==
  /\ cache = None
  /\ GetClient
  /\ UNCHANGED <<tok, late, config, rot, wal, op, cw, sweep, faults>>

LateCreate(t) ==
  /\ t \in late
  /\ CreateToken(t)
  /\ late' = late \ {t}
  /\ UNCHANGED <<config, rot, wal, cache, op, cw, sweep, faults>>

LateDrop(t) ==
  /\ t \in late
  /\ late' = late \ {t}
  /\ UNCHANGED <<tok, config, rot, wal, cache, op, cw, sweep, faults>>

\* The process dies, with a CreateToken perhaps on the wire.
Crash ==
  /\ Fault
  /\ late' \in {late, IF op.pc = "create" THEN late \cup {op.new} ELSE late}
  /\ op' = Free
  /\ cw' = NoConfigOp
  /\ cache' = None
  /\ sweep' = {}
  /\ UNCHANGED <<tok, config, rot, wal>>

-----------------------------------------------------------------------------
\* The steps of the operation that holds rotationLock.
OpStep ==
  \/ RotatePutWAL \/ RotatePutState \/ RotateCheckOld \/ RotateNoClient
  \/ RotateMarkFailed \/ RotateCreateToken \/ RotateCreateTimeout
  \/ validateReplacement \/ RotatePutConfig \/ RotateInvalidate
  \/ RotatePutPhase \/ TokenExists \/ DeleteTokenOk \/ DeleteTokenLost
  \/ ConfirmDeleted \/ DeleteRotationWAL \/ DeleteRotationState \/ Abort

Rollback ==
  \/ \E e \in wal : RollbackNothing(e) \/ RollbackStart(e)
  \/ \E e \in sweep : SweepWAL(e)

ConfigStep == ConfigPut \/ ConfigPutErr \/ ConfigInvalidate

Next ==
  \/ \E t \in Tokens : RotateStart(t) \/ RecoverStart(t) \/ ConfigWriteStart(t)
  \/ OpStep
  \/ Rollback
  \/ ConfigDeleteStart
  \/ ConfigStep
  \/ UseClient
  \/ \E t \in late : LateCreate(t) \/ LateDrop(t)
  \/ Crash

Spec == Init /\ [][Next]_vars

-----------------------------------------------------------------------------
(* Safety *)

\* No step of a rotation, a guarded recovery or a rollback deletes the token
\* that the stored config names at that moment.
ActiveTokenKept == [][\A t \in Tokens : Live(t) /\ ~Live(t)' => config # t]_vars

\* Guarded recovery, as documented: "It never [...] deletes the active configured
\* token", not even one that became active after recoverRotation has compared it.
RecoveryKeepsActive ==
  [][\A t \in Tokens :
       op.kind = "recover" /\ Live(t) /\ ~Live(t)' => config # t]_vars

\* The engine never locks itself out: the stored config names a live token,
\* whichever step of a rotation or of its recovery failed or crashed.
ConfiguredTokenLive == config # None => Live(config)

\* No token is lost sight of: a live token that rotation has created, or that
\* it has replaced, is the configured one or one of the pair that the rotation
\* state (and so its recovery) names.
NoTokenLost ==
  \A t \in Tokens : tok[t] = "engine" =>
    t = config \/ \E s \in rot : t \in {s.old, s.new}

\* A request that calls getClient gets a client of the stored config, except
\* in the moment between a Put of the config and its invalidate.
CacheCoherent ==
  cache \in {None, config} \/ op.pc = "invalidate" \/ cw.pc = "invalidate"

-----------------------------------------------------------------------------
(* The inductive invariant behind these properties, where no config change *)
(* overlaps a rotation                                                     *)

BeforePersist == {"putwal", "putstate", "checkold", "markfailed", "create",
                  "validate", "putconfig"}
DeleteSteps == {"exists", "delete", "confirm", "delwal", "delstate"}

\* The holder of rotationLock: until the config is stored it names the old
\* token, from there on the new one; what is to be deleted is the one of the
\* pair that the config does not name, and nobody else changes any of this.
LockHolderSafe ==
  op.pc # "free" =>
    /\ op.old # op.new
    /\ late = {} /\ cw.pc = "idle"
    /\ IF op.pc \in {"putwal", "putstate"}
       THEN rot = {}
       ELSE \E s \in rot :
              /\ s.old = op.old /\ s.new = op.new
              /\ op.pc \in {"checkold", "create"} => s.phase = "provisioning"
    /\ op.pc \in BeforePersist => config = op.old
    /\ op.pc = "putconfig" => Live(op.new)
    /\ op.pc \in {"invalidate", "putphase"} => config = op.new
    /\ op.pc \in DeleteSteps => /\ {config, op.target} = {op.old, op.new}
                               /\ op.target # config
    /\ op.pc \in {"delwal", "delstate"} => ~Live(op.target)

\* There is one pending rotation at most, and the config names one of its pair.
PendingSafe ==
  \A s \in rot : /\ s.old # s.new
                /\ config \in {s.old, s.new}
                /\ rot = {s}

\* A CreateToken still to be executed is that of the pending rotation, whose
\* status is not "recovery-required" before it is stale.
LateTokenSafe ==
  \A t \in late :
    \E s \in rot : t = s.new /\ s.phase = "provisioning" /\ config = s.old

\* A config change has the mount for itself, and stores a live token.
ConfigChangeSafe ==
  cw.pc # "idle" => /\ op.pc = "free" /\ rot = {}
                    /\ cw.pc = "put" /\ cw.token # None => Live(cw.token)

RotationInv ==
  /\ TypeOK
  /\ LockHolderSafe
  /\ PendingSafe
  /\ LateTokenSafe
  /\ ConfigChangeSafe
  /\ ConfiguredTokenLive
  /\ NoTokenLost

-----------------------------------------------------------------------------
(* Liveness *)

\* Every call returns, the rollback manager sweeps, PVE comes to an end with
\* every call.  Nothing is assumed of operators.
Fairness ==
  /\ WF_vars(OpStep)
  /\ WF_vars(Rollback)
  /\ WF_vars(ConfigStep)
  /\ WF_vars(\E t \in late : LateDrop(t))

FairSpec == Spec /\ Fairness

\* The operator follows the runbook to its end: guarded recovery is asked for
\* as long as the status advises it and a recorded token is not the active one.
OperatorSpec == FairSpec /\ SF_vars(\E t \in Tokens : RecoverStart(t))

\* No operation under rotationLock and config change are ever under way at once.
NoOverlap == [](op = Free \/ cw.pc = "idle")

\* A rotation that was begun comes to an end, and rotate-root is usable again,
\* where no config change overlaps a rotation.
RotationResolves == NoOverlap => (rot # {} ~> rot = {})

\* The rotation WAL does not fill up, where no config change overlaps a rotation.
RotationWalDrains == NoOverlap => (wal # {} ~> wal = {})
=============================================================================
