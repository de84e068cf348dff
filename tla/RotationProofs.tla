--------------------------- MODULE RotationProofs ---------------------------
(***************************************************************************)
(* Proofs about RootRotation, for any set of tokens and any number of      *)
(* faults.                                                                 *)
(***************************************************************************)
EXTENDS RootRotation, TLAPS

-----------------------------------------------------------------------------
(* The record of the operation that holds rotationLock *)

\* An operation in progress is a record with a pair of tokens.
LEMMA OpFields ==
  ASSUME op \in Ops, op.pc # "free"
  PROVE  /\ op \in [kind : {"rotate", "recover", "rollback"}, pc : Steps,
                    old : Tokens, new : Tokens,
                    client : MaybeToken, target : MaybeToken]
         /\ op.old \in Tokens /\ op.new \in Tokens
  BY DEF Ops, Free

\* Going on to another call leaves the rest of an operation as it is.
LEMMA GotoFields ==
  ASSUME op \in Ops, op.pc # "free", NEW step \in Steps, Goto(step)
  PROVE  /\ op' \in Ops
         /\ op'.pc = step /\ op'.kind = op.kind
         /\ op'.old = op.old /\ op'.new = op.new
         /\ op'.client = op.client /\ op'.target = op.target
  BY OpFields DEF Goto, Ops

\* The end of an operation frees the lock.
LEMMA UnlockFields ==
  ASSUME Unlock
  PROVE  op' \in Ops /\ op'.pc = "free"
  BY DEF Unlock, Ops, Free

\* Nothing but the lock's holder is in a step of an operation.
LEMMA FreePc == Free.pc = "free" /\ "free" \notin Steps
  BY DEF Free, Steps

-----------------------------------------------------------------------------
(* Types *)

\* The first state is typed.
LEMMA TypeInit == Init => TypeOK
  BY TokenAssumption, FaultAssumption
  DEF Init, TypeOK, MaybeToken, Fates, Ops, ConfigOps, NoConfigOp

\* A fault and its absence keep the count within its bound.
LEMMA FaultTyped ==
  ASSUME faults \in 0 .. MaxFaults, Fault \/ NoFault
  PROVE  faults' \in 0 .. MaxFaults
  BY FaultAssumption DEF Fault, NoFault

\* The fate of one token may change at a time.
LEMMA TokTyped ==
  ASSUME tok \in [Tokens -> Fates], NEW t, NEW fate \in Fates
  PROVE  [tok EXCEPT ![t] = fate] \in [Tokens -> Fates]
  OBVIOUS

\* getClient caches the token of the cache or of the config.
LEMMA GetClientTyped ==
  ASSUME TypeOK, GetClient
  PROVE  cache' \in MaybeToken /\ ClientToken \in MaybeToken
  BY DEF TypeOK, GetClient, ClientToken, MaybeToken

\* The steps of the operation that holds rotationLock are typed.
LEMMA OpStepTyped == TypeOK /\ OpStep => TypeOK'
  <1> SUFFICES ASSUME TypeOK, OpStep PROVE TypeOK'
    OBVIOUS
  <1> USE DEF TypeOK
  <1>1. CASE RotatePutWAL
    BY <1>1, GotoFields, OpFields DEF RotatePutWAL, Steps, Pairs, Pair
  <1>2. CASE RotatePutState
    BY <1>2, GotoFields, OpFields DEF RotatePutState, putRotationState, Steps, States, Phases
  <1>3. CASE RotateCheckOld
    <2>1. op.pc # "free" /\ cache' \in MaybeToken /\ ClientToken \in MaybeToken
      BY <1>3, GetClientTyped DEF RotateCheckOld
    <2>2. op' \in Ops
      BY <1>3, <2>1, OpFields, GotoFields DEF RotateCheckOld, Ops, Steps
    <2> QED
      BY <1>3, <2>1, <2>2, FaultTyped DEF RotateCheckOld
  <1>4. CASE RotateNoClient
    BY <1>4, UnlockFields DEF RotateNoClient
  <1>5. CASE RotateMarkFailed
    BY <1>5, UnlockFields, OpFields, FaultTyped
    DEF RotateMarkFailed, putRotationState, States, Phases
  <1>6. CASE RotateCreateToken
    BY <1>6, GotoFields, TokTyped DEF RotateCreateToken, CreateToken, Steps, Fates
  <1>7. CASE RotateCreateTimeout
    BY <1>7, UnlockFields, OpFields, FaultTyped DEF RotateCreateTimeout
  <1>8. CASE validateReplacement
    <2>1. op' \in Ops
      BY <1>8, OpFields, GotoFields DEF validateReplacement, Ops, Steps, MaybeToken
    <2> QED
      BY <1>8, <2>1, FaultTyped DEF validateReplacement
  <1>9. CASE RotatePutConfig
    BY <1>9, OpFields, GotoFields, UnlockFields, FaultTyped, TokTyped
    DEF RotatePutConfig, Steps, MaybeToken, Fates
  <1>10. CASE RotateInvalidate
    BY <1>10, GotoFields DEF RotateInvalidate, Steps, MaybeToken
  <1>11. CASE RotatePutPhase
    <2>1. op' \in Ops
      BY <1>11, OpFields DEF RotatePutPhase, Ops, Steps, MaybeToken
    <2> QED
      BY <1>11, <2>1, OpFields DEF RotatePutPhase, putRotationState, States, Phases
  <1>12. CASE TokenExists
    BY <1>12, GotoFields DEF TokenExists, Confirmed, Steps
  <1>13. CASE DeleteTokenOk
    BY <1>13, GotoFields, TokTyped DEF DeleteTokenOk, DeleteToken, Steps, Fates
  <1>14. CASE DeleteTokenLost
    BY <1>14, UnlockFields, TokTyped, FaultTyped DEF DeleteTokenLost, DeleteToken, Fates
  <1>15. CASE ConfirmDeleted
    BY <1>15, GotoFields, UnlockFields DEF ConfirmDeleted, Confirmed, Steps
  <1>16. CASE DeleteRotationWAL
    BY <1>16, GotoFields DEF DeleteRotationWAL, Steps
  <1>17. CASE DeleteRotationState
    BY <1>17, UnlockFields, OpFields DEF DeleteRotationState, Pairs, Pair
  <1>18. CASE Abort
    BY <1>18, UnlockFields, FaultTyped DEF Abort
  <1> QED
    BY <1>1, <1>2, <1>3, <1>4, <1>5, <1>6, <1>7, <1>8, <1>9, <1>10, <1>11,
       <1>12, <1>13, <1>14, <1>15, <1>16, <1>17, <1>18
    DEF OpStep

\* Every step of the engine, of operators and of PVE is typed.
LEMMA TypeNext == TypeOK /\ [Next]_vars => TypeOK'
  <1> SUFFICES ASSUME TypeOK, [Next]_vars PROVE TypeOK'
    OBVIOUS
  <1> USE DEF TypeOK
  <1>1. CASE OpStep
    BY <1>1, OpStepTyped
  <1>2. CASE \E t \in Tokens : RotateStart(t)
    BY <1>2, TokTyped DEF RotateStart, Fates, Ops, Steps, MaybeToken
  <1>3. CASE \E t \in Tokens : RecoverStart(t)
    BY <1>3, GetClientTyped DEF RecoverStart, Ops, Steps, MaybeToken, States
  <1>4. CASE \E t \in Tokens : ConfigWriteStart(t)
    BY <1>4 DEF ConfigWriteStart, ConfigOps, MaybeToken
  <1>5. CASE \E e \in wal : RollbackNothing(e)
    BY <1>5 DEF RollbackNothing
  <1>6. CASE \E e \in wal : RollbackStart(e)
    BY <1>6, GetClientTyped DEF RollbackStart, Ops, Steps, MaybeToken, Pairs
  <1>7. CASE \E e \in sweep : SweepWAL(e)
    BY <1>7, FaultTyped DEF SweepWAL
  <1>8. CASE ConfigDeleteStart
    BY <1>8 DEF ConfigDeleteStart, ConfigOps, MaybeToken
  <1>9. CASE ConfigStep
    BY <1>9, FaultTyped, TokTyped
    DEF ConfigStep, ConfigPut, ConfigPutErr, StoreConfig, ConfigInvalidate,
        ConfigOps, NoConfigOp, MaybeToken, Fates
  <1>10. CASE UseClient
    BY <1>10, GetClientTyped DEF UseClient
  <1>11. CASE \E t \in late : LateCreate(t) \/ LateDrop(t)
    BY <1>11, TokTyped DEF LateCreate, LateDrop, CreateToken, Fates
  <1>12. CASE Crash
    <2>1. late' \subseteq Tokens
      BY <1>12, OpFields DEF Crash
    <2> QED
      BY <1>12, <2>1, FaultTyped
      DEF Crash, Ops, ConfigOps, NoConfigOp, MaybeToken
  <1>13. CASE UNCHANGED vars
    BY <1>13 DEF vars
  <1> QED
    BY <1>1, <1>2, <1>3, <1>4, <1>5, <1>6, <1>7, <1>8, <1>9, <1>10, <1>11,
       <1>12, <1>13
    DEF Next, Rollback

\* The state of the engine, of the storage and of PVE is always typed; in
\* particular the operation under rotationLock always has a pair of tokens.
THEOREM RotationTypeCorrect == Spec => []TypeOK
  BY TypeInit, TypeNext, PTL DEF Spec

-----------------------------------------------------------------------------
(* Safety, where no config change overlaps a rotation *)

\* The invariant holds at first.
LEMMA SafeInit == Init => RotationInv
  BY TypeInit, TokenAssumption
  DEF Init, RotationInv, LockHolderSafe, PendingSafe, LateTokenSafe,
      ConfigChangeSafe, ConfiguredTokenLive, NoTokenLost, Live, Free, NoConfigOp

\* A step of an operation that moves on, and changes neither a token, a late
\* call, the config nor the rotation state, keeps what does not depend on it.
LEMMA QuietStepSafe ==
  ASSUME RotationInv, op.pc # "free", UNCHANGED <<tok, late, config, rot, cw>>,
         op'.pc # "free" => op'.old = op.old /\ op'.new = op.new
  PROVE  /\ PendingSafe' /\ LateTokenSafe' /\ ConfigChangeSafe'
         /\ ConfiguredTokenLive' /\ NoTokenLost'
  BY DEF RotationInv, PendingSafe, LateTokenSafe, ConfigChangeSafe,
         ConfiguredTokenLive, NoTokenLost, Live, LockHolderSafe

\* From putRotationState on, the rotation state is that of the operation.
LEMMA HeldState ==
  ASSUME RotationInv, op.pc \notin {"free", "putwal", "putstate"}
  PROVE  \E s \in States : /\ rot = {s}
                           /\ s.old = op.old /\ s.new = op.new
                           /\ op.pc \in {"checkold", "create"} => s.phase = "provisioning"
  BY DEF RotationInv, TypeOK, LockHolderSafe, PendingSafe

\* The steps of an operation keep the invariant.
LEMMA OpStepSafe ==
  ASSUME RotationInv, OpStep
  PROVE  RotationInv'
  <1>h. op.pc \notin {"free", "putwal", "putstate"} =>
          \E s \in States : /\ rot = {s}
                            /\ s.old = op.old /\ s.new = op.new
                            /\ op.pc \in {"checkold", "create"} => s.phase = "provisioning"
    BY HeldState
  <1> USE DEF RotationInv
  <1>0. TypeOK' /\ op \in Ops
    BY OpStepTyped DEF TypeOK
  <1>1. CASE RotatePutWAL
    <2>1. op.pc # "free" /\ Goto("putstate") /\ "putstate" \in Steps
      BY <1>1 DEF RotatePutWAL, Steps
    <2>2. LockHolderSafe'
      BY <1>0, <1>1, <2>1, GotoFields
      DEF RotatePutWAL, LockHolderSafe, BeforePersist, DeleteSteps
    <2> QED
      BY <1>0, <1>1, <2>1, <2>2, GotoFields, QuietStepSafe DEF RotatePutWAL
  <1>2. CASE RotatePutState
    <2>1. op.pc # "free" /\ Goto("checkold") /\ "checkold" \in Steps
      BY <1>2 DEF RotatePutState, Steps
    <2>2. LockHolderSafe'
      BY <1>0, <1>2, <2>1, GotoFields
      DEF RotatePutState, putRotationState, LockHolderSafe, BeforePersist, DeleteSteps, Pair
    <2> QED
      BY <1>0, <1>2, <2>1, <2>2, GotoFields
      DEF RotatePutState, putRotationState, LockHolderSafe, PendingSafe,
          LateTokenSafe, ConfigChangeSafe, ConfiguredTokenLive, NoTokenLost, Live, BeforePersist
  <1>3. CASE RotateCheckOld
    <2>1. /\ op.pc = "checkold" /\ op'.pc \in {"create", "markfailed"}
          /\ op'.old = op.old /\ op'.new = op.new
      BY <1>0, <1>3, OpFields DEF RotateCheckOld, Goto
    <2>2. LockHolderSafe'
      BY <1>0, <1>3, <2>1
      DEF RotateCheckOld, LockHolderSafe, BeforePersist, DeleteSteps, Pair
    <2> QED
      BY <1>0, <1>3, <2>1, <2>2, QuietStepSafe DEF RotateCheckOld
  <1>4. CASE RotateNoClient
    <2>1. op.pc = "checkold" /\ op'.pc = "free"
      BY <1>4, UnlockFields DEF RotateNoClient
    <2> QED
      BY <1>0, <1>4, <2>1, QuietStepSafe DEF RotateNoClient, LockHolderSafe
  <1>5. CASE RotateMarkFailed
    <2>1. op.pc = "markfailed" /\ op'.pc = "free"
      BY <1>5, UnlockFields DEF RotateMarkFailed
    <2>2. PICK s \in States : rot = {s} /\ s.old = op.old /\ s.new = op.new
      BY <1>h, <2>1
    <2>3. /\ UNCHANGED <<tok, late, config, cw>>
          /\ late = {} /\ cw.pc = "idle" /\ config = op.old /\ op.old # op.new
      BY <1>5, <2>1 DEF RotateMarkFailed, LockHolderSafe, BeforePersist
    <2>4. PICK z : rot' = {z} /\ z.old = op.old /\ z.new = op.new
      <3> DEFINE f == [old |-> op.old, new |-> op.new, phase |-> "validation-failed"]
      <3>1. f.old = op.old /\ f.new = op.new
        OBVIOUS
      <3>2. rot' = {f} \/ rot' = rot
        BY <1>5 DEF RotateMarkFailed, putRotationState
      <3> HIDE DEF f
      <3> QED
        BY <2>2, <3>1, <3>2
    <2>5. NoTokenLost'
      BY <2>2, <2>3, <2>4 DEF NoTokenLost
    <2> QED
      BY <1>0, <2>1, <2>3, <2>4, <2>5
      DEF LockHolderSafe, PendingSafe, LateTokenSafe, ConfigChangeSafe,
          ConfiguredTokenLive, Live
  <1>6. CASE RotateCreateToken
    <2>1. op.pc = "create" /\ Goto("validate") /\ "validate" \in Steps
      BY <1>6 DEF RotateCreateToken, Steps
    <2>2. op.old \in Tokens /\ op.new \in Tokens /\ tok \in [Tokens -> Fates]
      BY <1>0, <2>1, OpFields DEF TypeOK
    <2>3. LockHolderSafe'
      BY <1>0, <1>6, <2>1, GotoFields
      DEF RotateCreateToken, LockHolderSafe, BeforePersist, DeleteSteps, Pair
    <2>4. PICK s \in States : rot = {s} /\ s.old = op.old /\ s.new = op.new
      BY <1>h, <2>1
    <2> QED
      BY <1>0, <1>6, <2>1, <2>2, <2>3, <2>4, GotoFields
      DEF RotateCreateToken, CreateToken, LockHolderSafe, PendingSafe, LateTokenSafe,
          ConfigChangeSafe, ConfiguredTokenLive, NoTokenLost, Live, BeforePersist, Pair
  <1>7. CASE RotateCreateTimeout
    <2>1. op.pc = "create" /\ op'.pc = "free"
      BY <1>7, UnlockFields DEF RotateCreateTimeout
    <2>2. PICK s \in States : /\ rot = {s} /\ s.phase = "provisioning"
                              /\ s.old = op.old /\ s.new = op.new
      BY <1>h, <2>1
    <2> QED
      BY <1>0, <1>7, <2>1, <2>2
      DEF RotateCreateTimeout, LockHolderSafe, PendingSafe, LateTokenSafe,
          ConfigChangeSafe, ConfiguredTokenLive, NoTokenLost, Live, BeforePersist
  <1>8. CASE validateReplacement
    <2>1. /\ op.pc = "validate" /\ op'.pc \in {"putconfig", "markfailed"}
          /\ op'.old = op.old /\ op'.new = op.new
          /\ op'.pc = "putconfig" => Live(op.new)
      BY <1>0, <1>8, OpFields DEF validateReplacement, Goto
    <2>2. LockHolderSafe'
      BY <1>0, <1>8, <2>1
      DEF validateReplacement, LockHolderSafe, BeforePersist, DeleteSteps, Pair, Live
    <2> QED
      BY <1>0, <1>8, <2>1, <2>2, QuietStepSafe DEF validateReplacement
  <1>9. CASE RotatePutConfig
    <2>1. op.pc = "putconfig" /\ op'.pc \in {"invalidate", "free"}
      BY <1>0, <1>9, UnlockFields, GotoFields DEF RotatePutConfig, Steps
    <2>2. op.old \in Tokens /\ op.new \in Tokens /\ tok \in [Tokens -> Fates]
      BY <1>0, <2>1, OpFields DEF TypeOK
    <2>3. LockHolderSafe'
      BY <1>0, <1>9, <2>1, GotoFields, UnlockFields
      DEF RotatePutConfig, LockHolderSafe, BeforePersist, DeleteSteps, Pair, Steps
    <2>4. PICK s \in States : rot = {s} /\ s.old = op.old /\ s.new = op.new
      BY <1>h, <2>1
    <2> QED
      BY <1>0, <1>9, <2>1, <2>2, <2>3, <2>4
      DEF RotatePutConfig, LockHolderSafe, PendingSafe, LateTokenSafe,
          ConfigChangeSafe, ConfiguredTokenLive, NoTokenLost, Live, BeforePersist, Pair
  <1>10. CASE RotateInvalidate
    <2>1. op.pc = "invalidate" /\ Goto("putphase") /\ "putphase" \in Steps
      BY <1>10 DEF RotateInvalidate, Steps
    <2>2. LockHolderSafe'
      BY <1>0, <1>10, <2>1, GotoFields
      DEF RotateInvalidate, LockHolderSafe, BeforePersist, DeleteSteps, Pair
    <2> QED
      BY <1>0, <1>10, <2>1, <2>2, GotoFields, QuietStepSafe DEF RotateInvalidate
  <1>11. CASE RotatePutPhase
    <2>1. /\ op.pc = "putphase" /\ op'.pc = "delete" /\ op'.target = op.old
          /\ op'.old = op.old /\ op'.new = op.new
      BY <1>0, <1>11, OpFields DEF RotatePutPhase
    <2>2. LockHolderSafe'
      BY <1>0, <1>11, <2>1
      DEF RotatePutPhase, putRotationState, LockHolderSafe, BeforePersist, DeleteSteps, Pair
    <2>3. PICK s \in States : rot = {s} /\ s.old = op.old /\ s.new = op.new
      BY <1>h, <2>1
    <2> QED
      BY <1>0, <1>11, <2>1, <2>2, <2>3
      DEF RotatePutPhase, putRotationState, LockHolderSafe, PendingSafe,
          LateTokenSafe, ConfigChangeSafe, ConfiguredTokenLive, NoTokenLost, Live, Pair
  <1>12. CASE TokenExists
    <2>1. /\ op.pc = "exists" /\ op'.pc \in {"delete", "delwal", "delstate"}
          /\ op'.old = op.old /\ op'.new = op.new /\ op'.target = op.target
          /\ op'.pc # "delete" => ~Live(op.target)
      BY <1>0, <1>12, GotoFields DEF TokenExists, Confirmed, Steps
    <2>2. LockHolderSafe'
      BY <1>0, <1>12, <2>1
      DEF TokenExists, LockHolderSafe, BeforePersist, DeleteSteps, Pair, Live
    <2> QED
      BY <1>0, <1>12, <2>1, <2>2, QuietStepSafe DEF TokenExists
  <1>13. CASE DeleteTokenOk
    <2>1. op.pc = "delete" /\ Goto("confirm") /\ "confirm" \in Steps
      BY <1>13 DEF DeleteTokenOk, Steps
    <2>2. LockHolderSafe'
      BY <1>0, <1>13, <2>1, GotoFields
      DEF DeleteTokenOk, LockHolderSafe, BeforePersist, DeleteSteps, Pair
    <2> QED
      BY <1>0, <1>13, <2>1, <2>2, GotoFields
      DEF DeleteTokenOk, DeleteToken, LockHolderSafe, PendingSafe, LateTokenSafe,
          ConfigChangeSafe, ConfiguredTokenLive, NoTokenLost, Live, DeleteSteps, TypeOK
  <1>14. CASE DeleteTokenLost
    <2>1. op.pc = "delete" /\ op'.pc = "free"
      BY <1>14, UnlockFields DEF DeleteTokenLost
    <2> QED
      BY <1>0, <1>14, <2>1
      DEF DeleteTokenLost, DeleteToken, LockHolderSafe, PendingSafe, LateTokenSafe,
          ConfigChangeSafe, ConfiguredTokenLive, NoTokenLost, Live, DeleteSteps, TypeOK
  <1>15. CASE ConfirmDeleted
    <2>1. /\ op.pc = "confirm" /\ op'.pc \in {"free", "delwal", "delstate"}
          /\ op'.pc # "free" => /\ op'.old = op.old /\ op'.new = op.new
                                /\ op'.target = op.target /\ ~Live(op.target)
      BY <1>0, <1>15, GotoFields, UnlockFields DEF ConfirmDeleted, Confirmed, Steps
    <2>2. LockHolderSafe'
      BY <1>0, <1>15, <2>1
      DEF ConfirmDeleted, LockHolderSafe, BeforePersist, DeleteSteps, Pair, Live
    <2> QED
      BY <1>0, <1>15, <2>1, <2>2, QuietStepSafe DEF ConfirmDeleted
  <1>16. CASE DeleteRotationWAL
    <2>1. op.pc = "delwal" /\ Goto("delstate") /\ "delstate" \in Steps
      BY <1>16 DEF DeleteRotationWAL, Steps
    <2>2. LockHolderSafe'
      BY <1>0, <1>16, <2>1, GotoFields
      DEF DeleteRotationWAL, LockHolderSafe, BeforePersist, DeleteSteps, Pair, Live
    <2> QED
      BY <1>0, <1>16, <2>1, <2>2, GotoFields, QuietStepSafe DEF DeleteRotationWAL
  <1>17. CASE DeleteRotationState
    <2>1. op.pc = "delstate" /\ op'.pc = "free"
      BY <1>17, UnlockFields DEF DeleteRotationState
    <2>2. PICK s \in States : rot = {s} /\ s.old = op.old /\ s.new = op.new
      BY <1>h, <2>1
    <2>3. /\ UNCHANGED <<tok, late, config, cw>> /\ rot' = {}
          /\ late = {} /\ cw.pc = "idle" /\ ~Live(op.target)
          /\ {config, op.target} = {op.old, op.new}
      BY <1>17, <2>1 DEF DeleteRotationState, LockHolderSafe, DeleteSteps
    <2>4. \A t \in {op.old, op.new} : t = config \/ t = op.target
      BY <2>3
    <2>5. NoTokenLost'
      BY <2>2, <2>3, <2>4, TokenAssumption DEF NoTokenLost, Live
    <2> QED
      BY <1>0, <2>1, <2>3, <2>5
      DEF LockHolderSafe, PendingSafe, LateTokenSafe, ConfigChangeSafe,
          ConfiguredTokenLive, Live
  <1>18. CASE Abort
    <2>1. op.pc # "free" /\ op'.pc = "free"
      BY <1>18, UnlockFields DEF Abort
    <2> QED
      BY <1>0, <1>18, <2>1, QuietStepSafe DEF Abort, LockHolderSafe
  <1> QED
    BY <1>1, <1>2, <1>3, <1>4, <1>5, <1>6, <1>7, <1>8, <1>9, <1>10, <1>11,
       <1>12, <1>13, <1>14, <1>15, <1>16, <1>17, <1>18
    DEF OpStep

\* Taking the lock, a config change and what PVE, other requests and crashes do
\* keep the invariant, provided that no config change overlaps a rotation.
LEMMA OtherStepSafe ==
  ASSUME RotationInv, TypeOK', ~Overlap,
         \/ \E t \in Tokens : RotateStart(t) \/ RecoverStart(t) \/ ConfigWriteStart(t)
         \/ Rollback \/ ConfigDeleteStart \/ ConfigStep \/ UseClient \/ Crash
         \/ \E t \in late : LateCreate(t) \/ LateDrop(t)
         \/ UNCHANGED vars
  PROVE  RotationInv'
  <1> USE DEF RotationInv
  <1>0. op \in Ops /\ tok \in [Tokens -> Fates] /\ late \subseteq Tokens
    BY DEF TypeOK
  <1>1. ASSUME NEW t \in Tokens, RotateStart(t) PROVE RotationInv'
    <2>1. /\ op'.pc = "putwal" /\ op'.old = config /\ op'.new = t
          /\ config \in Tokens /\ tok[t] = "fresh" /\ rot = {} /\ cw.pc = "idle"
          /\ UNCHANGED <<late, config, rot, cw>>
      BY <1>1 DEF RotateStart, TypeOK, MaybeToken
    <2>2. config # t /\ late = {}
      BY <2>1, TokenAssumption DEF ConfiguredTokenLive, Live, LateTokenSafe
    <2>3. LockHolderSafe'
      BY <2>1, <2>2 DEF LockHolderSafe, BeforePersist, DeleteSteps
    <2>4. ConfiguredTokenLive' /\ NoTokenLost'
      BY <1>0, <1>1, <2>1, <2>2 DEF RotateStart, ConfiguredTokenLive, NoTokenLost, Live
    <2> QED
      BY <2>1, <2>2, <2>3, <2>4 DEF PendingSafe, LateTokenSafe, ConfigChangeSafe
  <1>2. ASSUME NEW t \in Tokens, RecoverStart(t) PROVE RotationInv'
    <2>1. PICK s \in rot : /\ RecoveryAdvised(s)
                           /\ op'.pc = "exists" /\ op'.target = t
                           /\ op'.old = s.old /\ op'.new = s.new
                           /\ t \in {s.old, s.new} /\ t # config /\ config # None
      BY <1>2 DEF RecoverStart
    <2>2. cw.pc = "idle" /\ UNCHANGED <<tok, late, config, rot, cw>>
      BY <1>2 DEF RecoverStart
    <2>3. s.old # s.new /\ config \in {s.old, s.new} /\ rot = {s}
      BY <2>1 DEF PendingSafe
    <2>4. late = {}
      BY <2>1, <2>3 DEF RecoveryAdvised, rotationStatus, LateTokenSafe
    <2>5. {config, t} = {s.old, s.new}
      BY <2>1, <2>3
    <2>6. LockHolderSafe'
      BY <2>1, <2>2, <2>3, <2>4, <2>5 DEF LockHolderSafe, BeforePersist, DeleteSteps
    <2> QED
      BY <2>2, <2>6
      DEF PendingSafe, LateTokenSafe, ConfigChangeSafe, ConfiguredTokenLive,
          NoTokenLost, Live
  <1>3. ASSUME NEW t \in Tokens, ConfigWriteStart(t) PROVE RotationInv'
    BY <1>3, FreePc, TokenAssumption
    DEF ConfigWriteStart, Quiet, LockHolderSafe, PendingSafe, LateTokenSafe,
        ConfigChangeSafe, ConfiguredTokenLive, NoTokenLost, Live, States, TypeOK
  <1>4. ASSUME NEW e \in wal, RollbackNothing(e) PROVE RotationInv'
    BY <1>4
    DEF RollbackNothing, LockHolderSafe, PendingSafe, LateTokenSafe,
        ConfigChangeSafe, ConfiguredTokenLive, NoTokenLost, Live
  <1>5. ASSUME NEW e \in wal, RollbackStart(e) PROVE RotationInv'
    <2>1. PICK s \in rot : Pair(s) = e
      BY <1>5 DEF RollbackStart
    <2>2. s.old = e.old /\ s.new = e.new
      BY <2>1 DEF Pair
    <2>3. s.old # s.new /\ rot = {s} /\ config \in {s.old, s.new}
      BY <2>1 DEF PendingSafe
    <2>4. /\ UNCHANGED <<tok, late, config, rot, cw>> /\ e.new \notin late
          /\ op'.pc = "exists" /\ op'.old = e.old /\ op'.new = e.new
          /\ op'.target = IF config = e.old THEN e.new ELSE e.old
      BY <1>5 DEF RollbackStart
    <2>5. late = {} /\ cw.pc = "idle"
      BY <2>2, <2>3, <2>4 DEF LateTokenSafe, ConfigChangeSafe
    <2>6. {config, op'.target} = {op'.old, op'.new} /\ op'.target # config
      BY <2>2, <2>3, <2>4
    <2>7. LockHolderSafe'
      BY <2>2, <2>3, <2>4, <2>5, <2>6 DEF LockHolderSafe, BeforePersist, DeleteSteps
    <2> QED
      BY <2>4, <2>5, <2>7
      DEF PendingSafe, LateTokenSafe, ConfigChangeSafe, ConfiguredTokenLive,
          NoTokenLost, Live
  <1>6. ASSUME NEW e \in sweep, SweepWAL(e) PROVE RotationInv'
    BY <1>6
    DEF SweepWAL, LockHolderSafe, PendingSafe, LateTokenSafe,
        ConfigChangeSafe, ConfiguredTokenLive, NoTokenLost, Live
  <1>7. CASE ConfigDeleteStart
    BY <1>7, FreePc, TokenAssumption
    DEF ConfigDeleteStart, Quiet, LockHolderSafe, PendingSafe, LateTokenSafe,
        ConfigChangeSafe, ConfiguredTokenLive, NoTokenLost, Live, States, TypeOK
  <1>8. CASE ConfigStep /\ StoreConfig /\ cw.pc = "put"
    <2>1. /\ op.pc = "free" /\ rot = {} /\ late = {} /\ cw'.pc # "put"
          /\ UNCHANGED <<late, rot, op>>
      BY <1>8
      DEF ConfigStep, ConfigPut, ConfigPutErr, ConfigInvalidate, NoConfigOp,
          ConfigChangeSafe, LateTokenSafe, TypeOK, ConfigOps
    <2>2. ConfiguredTokenLive'
      BY <1>0, <1>8 DEF StoreConfig, ConfigChangeSafe, ConfiguredTokenLive, Live
    <2>3. NoTokenLost'
      <3> SUFFICES ASSUME NEW t \in Tokens, tok'[t] = "engine" PROVE t = cw.token
        BY <1>8 DEF StoreConfig, NoTokenLost
      <3>1. tok[t] = "engine"
        BY <1>0, <1>8 DEF StoreConfig
      <3>2. t = config /\ Live(config)
        BY <2>1, <3>1, TokenAssumption DEF NoTokenLost, Live
      <3> QED
        BY <1>0, <1>8, <3>2 DEF StoreConfig
    <2> QED
      BY <2>1, <2>2, <2>3
      DEF LockHolderSafe, PendingSafe, LateTokenSafe, ConfigChangeSafe
  <1>9. CASE ConfigStep /\ ~(StoreConfig /\ cw.pc = "put")
    <2>1. cw'.pc = "idle" /\ UNCHANGED <<tok, late, config, rot, op>>
      BY <1>9 DEF ConfigStep, ConfigPut, ConfigPutErr, ConfigInvalidate, NoConfigOp
    <2> QED
      BY <2>1
      DEF LockHolderSafe, PendingSafe, LateTokenSafe, ConfigChangeSafe,
          ConfiguredTokenLive, NoTokenLost, Live
  <1>10. CASE UseClient \/ UNCHANGED vars
    BY <1>10
    DEF UseClient, vars, LockHolderSafe, PendingSafe, LateTokenSafe,
        ConfigChangeSafe, ConfiguredTokenLive, NoTokenLost, Live
  <1>11. ASSUME NEW t \in late, LateCreate(t) \/ LateDrop(t) PROVE RotationInv'
    <2>1. op.pc = "free" /\ UNCHANGED <<config, rot, op, cw>> /\ late' = late \ {t}
      BY <1>11 DEF LateCreate, LateDrop, LockHolderSafe
    <2>2. PICK s \in rot : t = s.new /\ s.phase = "provisioning" /\ config = s.old
      BY <1>11 DEF LateTokenSafe
    <2>3. cw.pc = "idle" /\ config # t
      BY <2>2 DEF ConfigChangeSafe, PendingSafe
    <2>4. tok' = tok \/ tok' = [tok EXCEPT ![t] = "engine"]
      BY <1>11 DEF LateCreate, LateDrop, CreateToken
    <2>5. ConfiguredTokenLive'
      BY <1>0, <2>1, <2>3, <2>4 DEF ConfiguredTokenLive, Live, TypeOK, MaybeToken
    <2>6. NoTokenLost'
      BY <1>0, <2>1, <2>2, <2>4 DEF NoTokenLost
    <2> QED
      BY <2>1, <2>3, <2>5, <2>6
      DEF LockHolderSafe, PendingSafe, LateTokenSafe, ConfigChangeSafe
  <1>12. CASE Crash
    <2>1. /\ op'.pc = "free" /\ cw'.pc = "idle" /\ UNCHANGED <<tok, config, rot>>
      BY <1>12, FreePc DEF Crash, NoConfigOp
    <2>2. LateTokenSafe'
      <3>1. CASE op.pc = "create" /\ late' = late \cup {op.new}
        BY <2>1, <3>1, HeldState DEF LateTokenSafe, LockHolderSafe, BeforePersist
      <3>2. CASE late' = late
        BY <2>1, <3>2 DEF LateTokenSafe
      <3> QED
        BY <1>12, <3>1, <3>2 DEF Crash
    <2> QED
      BY <2>1, <2>2
      DEF LockHolderSafe, PendingSafe, ConfigChangeSafe, ConfiguredTokenLive,
          NoTokenLost, Live
  <1> QED
    BY <1>1, <1>2, <1>3, <1>4, <1>5, <1>6, <1>7, <1>8, <1>9, <1>10, <1>11, <1>12
    DEF Rollback, ConfigStep

\* The inductive invariant of rotation: from any fault, at any step, the config
\* names one token of the pending pair, and only the other one is ever deleted.
THEOREM RotationInvariant ==
  ASSUME ~Overlap
  PROVE  Spec => []RotationInv
  <1>1. RotationInv /\ [Next]_vars => RotationInv'
    <2> SUFFICES ASSUME RotationInv, [Next]_vars PROVE RotationInv'
      OBVIOUS
    <2>1. TypeOK'
      BY TypeNext DEF RotationInv
    <2>2. CASE OpStep
      BY <2>2, OpStepSafe
    <2>3. CASE ~OpStep
      BY <2>1, <2>3, OtherStepSafe DEF Next
    <2> QED
      BY <2>2, <2>3
  <1> QED
    BY <1>1, SafeInit, PTL DEF Spec

\* The engine never locks itself out: where no config change overlaps a
\* rotation, the stored config names a live token after every fault.
THEOREM NeverLockedOut ==
  ASSUME ~Overlap
  PROVE  Spec => []ConfiguredTokenLive
  BY RotationInvariant, PTL DEF RotationInv

\* No token that a rotation created or replaced is lost sight of.
THEOREM NoTokenLeaks ==
  ASSUME ~Overlap
  PROVE  Spec => []NoTokenLost
  BY RotationInvariant, PTL DEF RotationInv

\* No step deletes the token that the config names at that moment.
THEOREM ActiveTokenSafe ==
  ASSUME ~Overlap
  PROVE  Spec => ActiveTokenKept
  <1>1. RotationInv /\ [Next]_vars =>
          [\A t \in Tokens : Live(t) /\ ~Live(t)' => config # t]_vars
    <2> SUFFICES ASSUME RotationInv, [Next]_vars, ~(UNCHANGED vars),
                        NEW t \in Tokens, Live(t), ~Live(t)'
                 PROVE  config # t
      OBVIOUS
    <2>1. tok \in [Tokens -> Fates]
      BY DEF RotationInv, TypeOK
    <2>2. tok'[t] # tok[t]
      BY TokenAssumption DEF Live
    <2>3. CASE DeleteTokenOk \/ DeleteTokenLost
      BY <2>1, <2>2, <2>3
      DEF DeleteTokenOk, DeleteTokenLost, DeleteToken, RotationInv, LockHolderSafe, DeleteSteps
    <2>4. CASE ~(DeleteTokenOk \/ DeleteTokenLost)
      <3>1. CASE OpStep
        BY <2>1, <2>2, <2>4, <3>1, TokenAssumption
        DEF OpStep, RotatePutWAL, RotatePutState, RotateCheckOld, RotateNoClient,
            RotateMarkFailed, RotateCreateToken, CreateToken, RotateCreateTimeout,
            validateReplacement, RotatePutConfig, RotateInvalidate, RotatePutPhase,
            TokenExists, ConfirmDeleted, DeleteRotationWAL, DeleteRotationState,
            Abort, Live
      <3>2. CASE ~OpStep
        BY <2>1, <2>2, <3>2, TokenAssumption
        DEF Next, RotateStart, RecoverStart, ConfigWriteStart, Rollback,
            RollbackNothing, RollbackStart, SweepWAL, ConfigDeleteStart, ConfigStep,
            ConfigPut, ConfigPutErr, StoreConfig, ConfigInvalidate, UseClient,
            LateCreate, CreateToken, LateDrop, Crash, Live
      <3> QED
        BY <3>1, <3>2
    <2> QED
      BY <2>3, <2>4
  <1> QED
    BY <1>1, RotationInvariant, PTL DEF Spec, ActiveTokenKept

-----------------------------------------------------------------------------
(* The client cache *)

\* Where a failed Put leaves the config alone, getClient serves the stored
\* config, except between a Put and its invalidate; overlaps or not.
THEOREM ClientCacheCoherent ==
  ASSUME ~AmbiguousConfigPut
  PROVE  Spec => []CacheCoherent
  <1>1. Init => CacheCoherent
    BY DEF Init, CacheCoherent
  <1>2. TypeOK /\ CacheCoherent /\ [Next]_vars => CacheCoherent'
    <2> SUFFICES ASSUME TypeOK, CacheCoherent, [Next]_vars PROVE CacheCoherent'
      OBVIOUS
    <2>1. op \in Ops /\ cw \in ConfigOps
      BY DEF TypeOK
    <2>2. CASE OpStep
      <3>1. CASE RotatePutConfig
        BY <2>1, <3>1, GotoFields DEF RotatePutConfig, CacheCoherent, Steps
      <3>2. CASE RotateInvalidate
        BY <3>2 DEF RotateInvalidate, CacheCoherent
      <3>3. CASE RotateCheckOld
        BY <3>3 DEF RotateCheckOld, GetClient, ClientToken, CacheCoherent
      <3>4. CASE ~(RotatePutConfig \/ RotateInvalidate \/ RotateCheckOld)
        <4>1. op.pc # "invalidate" /\ UNCHANGED <<cache, config, cw>>
          BY <2>2, <3>4
          DEF OpStep, RotatePutWAL, RotatePutState, RotateNoClient, RotateMarkFailed,
              RotateCreateToken, RotateCreateTimeout, validateReplacement,
              RotatePutPhase, TokenExists, DeleteTokenOk, DeleteTokenLost,
              ConfirmDeleted, DeleteRotationWAL, DeleteRotationState, Abort
        <4> QED
          BY <4>1 DEF CacheCoherent
      <3> QED
        BY <3>1, <3>2, <3>3, <3>4
    <2>3. CASE ~OpStep
      <3>1. CASE ConfigPut
        BY <2>1, <3>1 DEF ConfigPut, CacheCoherent, ConfigOps
      <3>2. CASE ConfigInvalidate \/ Crash
        BY <3>2 DEF ConfigInvalidate, Crash, CacheCoherent
      <3>3. CASE ~(ConfigPut \/ ConfigInvalidate \/ Crash)
        BY <2>3, <3>3, FreePc
        DEF Next, vars, RotateStart, RecoverStart, ConfigWriteStart, Rollback,
            RollbackNothing, RollbackStart, SweepWAL, ConfigDeleteStart, ConfigStep,
            ConfigPutErr, UseClient, LateCreate, LateDrop, GetClient, ClientToken,
            CacheCoherent
      <3> QED
        BY <3>1, <3>2, <3>3
    <2> QED
      BY <2>2, <2>3
  <1> QED
    BY <1>1, <1>2, RotationTypeCorrect, PTL DEF Spec
=============================================================================
