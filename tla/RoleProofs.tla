----------------------------- MODULE RoleProofs -----------------------------
(***************************************************************************)
(* Proofs about the role store, for any number of threads, names, requests *)
(* and operators: every stored role is usable, no role becomes a password  *)
(* role past the gate, and the store implements RoleContract.              *)
(*                                                                         *)
(* The inductive invariant RoleInv says that a thread between its load and *)
(* its Put holds roleLock, so that the role it merged with is still the    *)
(* stored one when it writes.                                              *)
(***************************************************************************)
EXTENDS RoleStore, CacheProofs, PermissionProofs

-----------------------------------------------------------------------------
(* What the rules of a role compute *)

LEMMA DecodedIsRole ==
  ASSUME NEW r \in Roles \cup {NoRole}
  PROVE  /\ Decoded(r) \in Roles \cup {NoRole}
         /\ IsPassword(Decoded(r)) <=> IsPassword(r)
  BY RulesAssumption DEF Decoded, Roles, IsPassword, Modes, ModeValues

LEMMA MergeIsRole ==
  ASSUME NEW req \in Requests \cup {EmptyRequest}, NEW existing \in Roles \cup {NoRole}
  PROVE  Merge(req, existing) \in Roles
  <1>1. req \in AllRequests
    <2>1. EmptyRequest \in AllRequests
      BY DEF AllRequests, EmptyRequest
    <2> QED
      BY <2>1, RulesAssumption
  <1>2. Defaults \in Roles
    BY RulesAssumption DEF Defaults, Roles, Modes, ModeValues
  <1> DEFINE base == IF existing # NoRole THEN existing ELSE Defaults
  <1>3. base \in Roles
    BY <1>2
  <1> HIDE DEF base
  <1> DEFINE m == Merge(req, existing)
  <1>4. /\ m = [group |-> m.group, user_prefix |-> m.user_prefix, realm |-> m.realm,
                ttl |-> m.ttl, max_ttl |-> m.max_ttl, mode |-> m.mode]
        /\ m.group \in {req.group, base.group} \ {Omitted}
        /\ m.user_prefix \in ({req.user_prefix, base.user_prefix} \ {Omitted}) \cup {"vault"}
        /\ m.realm \in ({req.realm, base.realm} \ {Omitted}) \cup {"pve"}
        /\ m.ttl \in {req.ttl, base.ttl} \ {Omitted}
        /\ m.max_ttl \in {req.max_ttl, base.max_ttl} \ {Omitted}
        /\ m.mode \in ({req.mode, base.mode} \ {Omitted}) \cup {"token"}
    BY <1>3, RulesAssumption DEF Merge, base, Roles
  <1> HIDE DEF m
  <1>5. m \in Roles
    BY <1>1, <1>3, <1>4, RulesAssumption DEF Roles, AllRequests, Modes, ModeValues
  <1> QED
    BY <1>5 DEF m

\* What validation accepts, issuance can use.
LEMMA ValidIsUsable ==
  ASSUME NEW name \in Names, NEW r \in Roles, Valid(name, r)
  PROVE  Usable(name, r)
  <1> DEFINE id == buildUserID(r.user_prefix, name, Suffix, r.realm)
  <1>1. /\ id[1] = r.user_prefix /\ id[2] = "-" /\ id[3] = name /\ id[4] = "-"
        /\ id[5] = Suffix /\ id[6] = "@" /\ id[7] = r.realm
    BY DEF buildUserID
  <1>2. /\ Length[r.user_prefix] \in Nat /\ Length[name] \in Nat /\ Length[r.realm] \in Nat
        /\ r.ttl \in Int /\ r.max_ttl \in Int
    BY RulesAssumption DEF Roles
  <1>3. Length[r.user_prefix] + 1 + Length[name] + 1 + 8 + 1 + Length[r.realm] <= PVELimit
    BY DEF Valid, validateLengthBudget
  <1> HIDE DEF id
  <1>4. UseridLength(id) <= PVELimit
    BY <1>1, <1>2, <1>3, RulesAssumption DEF UseridLength, PVELimit
  <1>5. r.ttl = 0 \/ r.max_ttl = 0 \/ r.ttl \in 1..r.max_ttl
    <2>1. /\ r.ttl >= 0 /\ r.max_ttl >= 0
          /\ (r.ttl > 0 /\ r.max_ttl > 0) => r.ttl <= r.max_ttl
      BY DEF Valid
    <2> QED
      BY <2>1, <1>2
  <1> QED
    BY <1>1, <1>4, <1>5 DEF Valid, Usable, id

-----------------------------------------------------------------------------
(* The invariant *)

LEMMA RoleInit == Init => RoleInv
  <1> SUFFICES ASSUME Init PROVE RoleInv
    OBVIOUS
  <1>1. CacheInv
    BY CacheInitInv DEF Init
  <1>2. NoOp \in Ops
    BY DEF NoOp, Ops, Held
  <1>3. RoleTypeOK
    BY <1>2, StoreAssumption DEF Init, RoleTypeOK
  <1>4. ASSUME NEW t \in Threads PROVE OpInv(t)
    <2>1. w[t] = NoOp /\ roleLock = Nobody /\ call[t].pc = "idle" /\ t # Nobody
      BY CacheAssumption, StoreAssumption DEF Init, CacheInit, NoCall
    <2>2. w[t].pc = "idle"
      BY <2>1 DEF NoOp
    <2> QED
      BY <2>1, <2>2 DEF OpInv, Held, Merged
  <1>5. StoredRoleUsable
    BY StoreAssumption DEF Init, StoredRoleUsable
  <1>6. PasswordOptInGated
    BY DEF Init, PasswordOptInGated
  <1> QED
    BY <1>1, <1>3, <1>4, <1>5, <1>6 DEF RoleInv

\* A step leaves the operations of other threads as they were: either it leaves
\* the roles alone, or its thread holds roleLock.
LEMMA OtherOps ==
  ASSUME RoleInv, NEW s \in Threads,
         w'[s] = w[s], call'[s] = call[s],
         roleLock' = s <=> roleLock = s,
         roles' = roles \/ roleLock # s
  PROVE  OpInv(s)'
  <1>1. OpInv(s)
    BY DEF RoleInv
  <1>2. w[s].pc \in Merged => roles' = roles
    BY <1>1 DEF OpInv, Merged, Held
  <1> QED
    BY <1>1, <1>2 DEF OpInv, New

\* A step of thread t's handler that leaves the roles alone preserves the
\* invariant if it leaves an operation that satisfies it.
LEMMA HandlerFrame ==
  ASSUME RoleInv, CacheInv', NEW t \in Threads, NEW o \in Ops,
         w' = [w EXCEPT ![t] = o],
         \A s \in Threads \ {t} : call'[s] = call[s],
         roleLock' \in Threads \cup {Nobody},
         \A s \in Threads \ {t} : roleLock' = s <=> roleLock = s,
         UNCHANGED <<roles, verified>>,
         OpInv(t)'
  PROVE  RoleInv'
  <1>1. RoleTypeOK'
    BY DEF RoleInv, RoleTypeOK
  <1>2. ASSUME NEW s \in Threads PROVE OpInv(s)'
    <2>1. CASE s = t
      BY <2>1
    <2>2. CASE s # t
      BY <2>2, OtherOps DEF RoleInv, RoleTypeOK
    <2> QED
      BY <2>1, <2>2
  <1>3. StoredRoleUsable' /\ PasswordOptInGated'
    BY DEF RoleInv, StoredRoleUsable, PasswordOptInGated
  <1> QED
    BY <1>1, <1>2, <1>3 DEF RoleInv

LEMMA SameCache == CacheInv /\ UNCHANGED cacheVars => CacheInv'
  BY DEF cacheVars, CacheInv, CacheTypeOK, NoStaleClient

\* The operation that a handler leaves behind.
LEMMA OverIsOp ==
  ASSUME NEW o \in Ops, NEW answer \in {"done", "lost", "failed"}
  PROVE  /\ Over(o, answer) \in Ops
         /\ Over(o, answer).pc = answer /\ Over(o, answer).name = o.name
         /\ Over(o, answer).kind = o.kind /\ Over(o, answer).req = o.req
  BY DEF Over, Ops, Held

\* A handler that ends holds roleLock until it returns.
LEMMA EndInv ==
  ASSUME RoleInv, CacheInv', NEW t \in Threads, NEW answer \in {"done", "lost", "failed"},
         End(t, answer), w[t].pc \in Held, call'[t].pc = "idle",
         \A s \in Threads \ {t} : call'[s] = call[s],
         UNCHANGED <<roles, verified, roleLock>>
  PROVE  RoleInv'
  <1>1. w[t] \in Ops /\ w \in [Threads -> Ops] /\ OpInv(t) /\ roleLock \in Threads \cup {Nobody}
    BY DEF RoleInv, RoleTypeOK
  <1> DEFINE o == Over(w[t], answer)
  <1>2. o \in Ops /\ o.pc = answer /\ o.name = w[t].name
    BY <1>1, OverIsOp
  <1>3. w' = [w EXCEPT ![t] = o]
    BY DEF End
  <1> HIDE DEF o
  <1>4. w'[t] = o
    BY <1>1, <1>3
  <1>5. OpInv(t)'
    BY <1>1, <1>2, <1>4 DEF OpInv, Held, Merged
  <1> QED
    BY <1>1, <1>2, <1>3, <1>5, HandlerFrame

\* A request arrives.
LEMMA AskInv ==
  ASSUME RoleInv, NEW t \in Threads, NEW name \in Names,
         (\E req \in Requests : RoleWrite(t, name, req)) \/ RoleDelete(t, name)
  PROVE  RoleInv'
  <1>1. PICK kind \in {"write", "delete"}, req \in Requests \cup {EmptyRequest} :
          /\ w[t].pc = "idle"
          /\ w' = [w EXCEPT ![t] =
                [pc |-> "lock", name |-> name, kind |-> kind, req |-> req,
                 existing |-> NoRole, granted |-> FALSE, checked |-> FALSE]]
          /\ UNCHANGED <<roles, verified, roleLock, cacheVars>>
    BY DEF RoleWrite, RoleDelete, NoOp
  <1> DEFINE o == [pc |-> "lock", name |-> name, kind |-> kind, req |-> req,
                   existing |-> NoRole, granted |-> FALSE, checked |-> FALSE]
  <1>2. o \in Ops /\ o.pc = "lock" /\ o.name = name /\ o.kind = kind
    BY DEF Ops
  <1>3. w \in [Threads -> Ops] /\ OpInv(t) /\ roleLock \in Threads \cup {Nobody}
        /\ CacheInv' /\ UNCHANGED <<call, roles, verified, roleLock>>
        /\ w' = [w EXCEPT ![t] = o]
    BY <1>1, SameCache DEF RoleInv, RoleTypeOK, cacheVars
  <1> HIDE DEF o
  <1>4. OpInv(t)'
    BY <1>1, <1>2, <1>3 DEF OpInv, Held, Merged
  <1> QED
    BY <1>2, <1>3, <1>4, HandlerFrame

LEMMA LockRoleInv ==
  ASSUME RoleInv, NEW t \in Threads, Lock(t)
  PROVE  RoleInv'
  <1> DEFINE o == [w[t] EXCEPT !.pc = IF w[t].kind = "write" THEN "load" ELSE "delete"]
  <1>1. /\ w \in [Threads -> Ops] /\ w[t] \in Ops /\ OpInv(t) /\ CacheInv'
        /\ w' = [w EXCEPT ![t] = o]
        /\ roleLock = Nobody /\ roleLock' = t /\ w[t].pc = "lock"
        /\ UNCHANGED <<call, roles, verified>>
    BY SameCache DEF Lock, Goto, RoleInv, RoleTypeOK, cacheVars
  <1>2. o \in Ops /\ o.name = w[t].name /\ o.kind = w[t].kind
        /\ o.pc = IF w[t].kind = "write" THEN "load" ELSE "delete"
    BY <1>1 DEF Ops, Held
  <1> HIDE DEF o
  <1>3. OpInv(t)'
    BY <1>1, <1>2 DEF OpInv, Held, Merged
  <1>4. Nobody \notin Threads
    BY CacheAssumption, StoreAssumption
  <1> QED
    BY <1>1, <1>2, <1>3, <1>4, HandlerFrame

\* getRole, merge and validation.
LEMMA LoadInv ==
  ASSUME RoleInv, NEW t \in Threads, Load(t)
  PROVE  RoleInv'
  <1> DEFINE existing == Decoded(roles[w[t].name])
             o == [w[t] EXCEPT !.existing = existing, !.pc = "config"]
  <1>1. /\ w \in [Threads -> Ops] /\ w[t] \in Ops /\ OpInv(t) /\ CacheInv'
        /\ roles \in [Names -> Roles \cup {NoRole}] /\ roleLock \in Threads \cup {Nobody}
        /\ w[t].pc = "load"
        /\ UNCHANGED <<call, roles, verified, roleLock>>
    BY SameCache DEF Load, RoleInv, RoleTypeOK, cacheVars
  <1>2. w[t].name \in Names /\ w[t].kind = "write" /\ call[t].pc = "idle" /\ roleLock = t
    BY <1>1 DEF OpInv, Held
  <1>3. CASE Valid(w[t].name, Merge(w[t].req, existing))
    <2>1. w' = [w EXCEPT ![t] = o]
      BY <1>3 DEF Load
    <2>2. existing \in Roles \cup {NoRole}
      BY <1>1, <1>2, DecodedIsRole
    <2>3. /\ o \in Ops /\ o.name = w[t].name /\ o.kind = w[t].kind
          /\ o.req = w[t].req /\ o.existing = existing /\ o.pc = "config"
      BY <1>1, <2>2 DEF Ops, Held
    <2> HIDE DEF o
    <2>4. w'[t] = o
      BY <1>1, <2>1
    <2>5. OpInv(t)'
      BY <1>1, <1>2, <1>3, <2>3, <2>4 DEF OpInv, New, Held, Merged
    <2> QED
      BY <1>1, <2>1, <2>3, <2>5, HandlerFrame
  <1>4. CASE ~Valid(w[t].name, Merge(w[t].req, existing))
    BY <1>1, <1>2, <1>4, EndInv DEF Load, End, Held
  <1> QED
    BY <1>3, <1>4

\* A step from one check of the merged role to the next.
LEMMA CheckInv ==
  ASSUME RoleInv, CacheInv', NEW t \in Threads,
         w[t].pc \in Merged, NEW pc \in Merged, NEW granted \in BOOLEAN,
         NEW checked \in BOOLEAN,
         w' = [w EXCEPT ![t] = [@ EXCEPT !.pc = pc, !.granted = granted, !.checked = checked]],
         pc = "put" /\ OptingIn(w[t].existing, New(t)) => checked,
         pc # "client" => call'[t].pc = "idle",
         \A s \in Threads \ {t} : call'[s] = call[s],
         UNCHANGED <<roles, verified, roleLock>>
  PROVE  RoleInv'
  <1> DEFINE o == [w[t] EXCEPT !.pc = pc, !.granted = granted, !.checked = checked]
  <1>1. /\ w \in [Threads -> Ops] /\ w[t] \in Ops /\ OpInv(t)
        /\ roleLock \in Threads \cup {Nobody}
    BY DEF RoleInv, RoleTypeOK
  <1>2. /\ o \in Ops /\ o.name = w[t].name /\ o.kind = w[t].kind /\ o.req = w[t].req
        /\ o.existing = w[t].existing /\ o.pc = pc /\ o.checked = checked
    BY <1>1 DEF Ops, Held, Merged
  <1>3. w' = [w EXCEPT ![t] = o]
    OBVIOUS
  <1> HIDE DEF o
  <1>4. w'[t] = o
    BY <1>1, <1>3
  <1>5. OpInv(t)'
    BY <1>1, <1>2, <1>4 DEF OpInv, New, Held, Merged
  <1> QED
    BY <1>1, <1>2, <1>3, <1>5, HandlerFrame

\* The same for a step that only moves on, to a check other than the Put.
LEMMA MoveInv ==
  ASSUME RoleInv, CacheInv', NEW t \in Threads,
         w[t].pc \in Merged, NEW pc \in Merged \ {"put"}, Goto(t, pc),
         pc # "client" => call'[t].pc = "idle",
         \A s \in Threads \ {t} : call'[s] = call[s],
         UNCHANGED <<roles, verified, roleLock>>
  PROVE  RoleInv'
  <1>1. w \in [Threads -> Ops] /\ w[t] \in Ops
    BY DEF RoleInv, RoleTypeOK
  <1>2. [w[t] EXCEPT !.pc = pc]
          = [w[t] EXCEPT !.pc = pc, !.granted = w[t].granted, !.checked = w[t].checked]
    BY <1>1 DEF Ops
  <1>3. w' = [w EXCEPT ![t] =
                [@ EXCEPT !.pc = pc, !.granted = w[t].granted, !.checked = w[t].checked]]
    BY <1>2 DEF Goto
  <1>4. w[t].granted \in BOOLEAN /\ w[t].checked \in BOOLEAN
    BY <1>1 DEF Ops
  <1> QED
    BY <1>3, <1>4, CheckInv

LEMMA LoadConfigInv ==
  ASSUME RoleInv, NEW t \in Threads, LoadConfig(t)
  PROVE  RoleInv'
  <1>1. call[t].pc = "idle" /\ w[t].pc = "config" /\ Goto(t, "client")
        /\ UNCHANGED <<roles, verified, roleLock>>
    BY DEF LoadConfig, RoleInv, OpInv
  <1>2. UseClient(t) /\ t \in Callers
    BY <1>1, StoreAssumption DEF LoadConfig, UseClient
  <1>3. CacheInv'
    BY <1>2, UseInv DEF RoleInv
  <1>4. \A s \in Threads \ {t} : call'[s] = call[s]
    BY <1>2, StoreAssumption DEF UseClient, GetClientBegin, RoleInv, CacheInv, CacheTypeOK
  <1> QED
    BY <1>1, <1>3, <1>4, MoveInv DEF Merged

LEMMA HaveClientInv ==
  ASSUME RoleInv, NEW t \in Threads, HaveClient(t)
  PROVE  RoleInv'
  <1>1. UsedClient(t) /\ t \in Callers /\ w[t].pc = "client"
        /\ UNCHANGED <<roles, verified, roleLock>>
    BY StoreAssumption DEF HaveClient, UsedClient
  <1>2. CacheInv'
    BY <1>1, UseInv DEF RoleInv
  <1>3. call'[t].pc = "idle" /\ \A s \in Threads \ {t} : call'[s] = call[s]
    BY <1>1, StoreAssumption DEF UsedClient, NoCall, RoleInv, CacheInv, CacheTypeOK
  <1>4. CASE Goto(t, "group")
    BY <1>1, <1>2, <1>3, <1>4, MoveInv DEF Merged
  <1>5. CASE End(t, "failed")
    BY <1>1, <1>2, <1>3, <1>5, EndInv DEF Held
  <1> QED
    BY <1>4, <1>5 DEF HaveClient

\* The steps that touch neither the roles nor the cache.
LEMMA PVEInv ==
  ASSUME RoleInv, NEW t \in Threads,
         \/ Fail(t) \/ GetGroup(t) \/ GetVersionInfo(t) \/ StoreErr(t)
         \/ \E tree \in Trees : GetPermissions(t, tree)
  PROVE  RoleInv'
  <1>1. /\ UNCHANGED <<roles, verified, roleLock, call>> /\ CacheInv'
        /\ w \in [Threads -> Ops] /\ w[t] \in Ops /\ OpInv(t)
    BY SameCache DEF Fail, GetGroup, GetVersionInfo, StoreErr, GetPermissions,
         RoleInv, RoleTypeOK, cacheVars
  <1>2. call[t].pc = "idle"
    BY <1>1 DEF Fail, GetGroup, GetVersionInfo, StoreErr, GetPermissions, OpInv
  <1>3. CASE Fail(t) \/ StoreErr(t)
    BY <1>1, <1>2, <1>3, EndInv DEF Fail, StoreErr, Held
  <1>4. CASE GetGroup(t)
    BY <1>1, <1>2, <1>4, MoveInv DEF GetGroup, Merged
  <1>5. CASE GetVersionInfo(t)
    <2>1. w[t].granted \in BOOLEAN
      BY <1>1 DEF Ops
    <2>2. [w[t] EXCEPT !.pc = "put", !.checked = TRUE]
            = [w[t] EXCEPT !.pc = "put", !.granted = w[t].granted, !.checked = TRUE]
      BY <1>1 DEF Ops
    <2>3. w' = [w EXCEPT ![t] =
                  [@ EXCEPT !.pc = "put", !.granted = w[t].granted, !.checked = TRUE]]
      BY <1>5, <2>2 DEF GetVersionInfo
    <2> QED
      BY <1>1, <1>2, <1>5, <2>1, <2>3, CheckInv DEF GetVersionInfo, Merged
  <1>6. ASSUME NEW tree \in Trees, GetPermissions(t, tree)
        PROVE  RoleInv'
    <2> DEFINE pc == IF OptingIn(w[t].existing, New(t)) THEN "version" ELSE "put"
               granted == /\ Effective(tree, RealmPath(t), "Realm.AllocateUser")
                          /\ Effective(tree, PerGroupPath(t), "User.Modify")
    <2>1. \/ End(t, "failed")
          \/ w' = [w EXCEPT ![t] = [@ EXCEPT !.pc = pc, !.granted = granted]]
      BY <1>6 DEF GetPermissions
    <2>2. w[t].pc = "perms"
      BY <1>6 DEF GetPermissions
    <2>3. CASE End(t, "failed")
      BY <1>1, <1>2, <2>2, <2>3, EndInv DEF Held
    <2>4. CASE w' = [w EXCEPT ![t] = [@ EXCEPT !.pc = pc, !.granted = granted]]
      <3>1. granted \in BOOLEAN /\ w[t].checked \in BOOLEAN
        BY <1>1 DEF Ops, Effective
      <3>2. pc \in Merged /\ (pc = "put" => ~OptingIn(w[t].existing, New(t)))
            /\ pc # "client"
        BY DEF Merged
      <3> HIDE DEF pc, granted
      <3>3. [w[t] EXCEPT !.pc = pc, !.granted = granted]
              = [w[t] EXCEPT !.pc = pc, !.granted = granted, !.checked = w[t].checked]
        BY <1>1 DEF Ops
      <3>4. w' = [w EXCEPT ![t] =
                    [@ EXCEPT !.pc = pc, !.granted = granted, !.checked = w[t].checked]]
        BY <2>4, <3>3
      <3>5. w[t].pc \in Merged
        BY <2>2 DEF Merged
      <3> QED
        BY <1>1, <1>2, <3>1, <3>2, <3>4, <3>5, CheckInv
    <2> QED
      BY <2>1, <2>3, <2>4
  <1> QED
    BY <1>3, <1>4, <1>5, <1>6

\* Put and Delete.
LEMMA WriteInv ==
  ASSUME RoleInv, NEW t \in Threads, NEW answer \in {"done", "lost"},
         Put(t, answer) \/ Delete(t, answer)
  PROVE  RoleInv'
  <1> DEFINE name == w[t].name
             stored == IF w[t].pc = "put" THEN New(t) ELSE NoRole
             o == Over(w[t], answer)
  <1>1. /\ w \in [Threads -> Ops] /\ w[t] \in Ops /\ OpInv(t) /\ CacheInv'
        /\ roles \in [Names -> Roles \cup {NoRole}] /\ verified \in [Names -> BOOLEAN]
        /\ roleLock \in Threads \cup {Nobody}
        /\ w[t].pc \in {"put", "delete"}
        /\ w' = [w EXCEPT ![t] = o]
        /\ UNCHANGED <<call, roleLock>>
        /\ Write(t, stored)
    BY SameCache DEF Put, Delete, End, RoleInv, RoleTypeOK, cacheVars
  <1>2. name \in Names /\ call[t].pc = "idle" /\ roleLock = t
    BY <1>1 DEF OpInv, Held
  <1>3. stored \in Roles \cup {NoRole} /\ (stored # NoRole => Usable(name, stored))
    <2>1. CASE w[t].pc = "put"
      <3>1. w[t].existing \in Roles \cup {NoRole} /\ w[t].req \in Requests \cup {EmptyRequest}
        BY <1>1 DEF Ops
      <3>2. New(t) \in Roles
        BY <3>1, MergeIsRole DEF New
      <3>3. Valid(name, New(t))
        BY <1>1, <2>1 DEF OpInv, Merged
      <3> QED
        BY <2>1, <3>2, <3>3, <1>2, ValidIsUsable
    <2>2. CASE w[t].pc = "delete"
      BY <2>2
    <2> QED
      BY <1>1, <2>1, <2>2
  <1>4. IsPassword(stored) => w[t].checked \/ (IsPassword(roles[name]) /\ verified[name])
    <2> SUFFICES ASSUME IsPassword(stored), ~w[t].checked
                 PROVE  IsPassword(roles[name]) /\ verified[name]
      OBVIOUS
    <2>1. w[t].pc = "put" /\ stored = New(t) /\ stored.mode = "password"
      BY <1>1 DEF IsPassword
    <2>2. ~OptingIn(w[t].existing, New(t)) /\ w[t].existing = Decoded(roles[name])
      BY <1>1, <2>1 DEF OpInv, Merged
    <2>3. IsPassword(w[t].existing)
      BY <2>1, <2>2 DEF OptingIn, IsPassword
    <2>4. IsPassword(roles[name])
      BY <2>2, <2>3, <1>1, <1>2, DecodedIsRole
    <2> QED
      BY <2>4, <1>2 DEF RoleInv, PasswordOptInGated
  <1>5. /\ o \in Ops /\ o.pc = answer /\ o.name = name
    BY <1>1, OverIsOp
  <1> DEFINE ok == IsPassword(stored) => w[t].checked \/ (IsPassword(roles[name]) /\ verified[name])
  <1>6. roles' = [roles EXCEPT ![name] = stored] /\ verified' = [verified EXCEPT ![name] = ok]
    BY <1>1, <1>2 DEF Write
  <1>7. ok = TRUE
    BY <1>4 DEF IsPassword
  <1> HIDE DEF stored, o, name, ok
  <1>8. RoleTypeOK'
    BY <1>1, <1>2, <1>3, <1>5, <1>6, <1>7 DEF RoleTypeOK
  <1>9. ASSUME NEW s \in Threads PROVE OpInv(s)'
    <2>1. CASE s = t
      <3>1. w'[t] = o
        BY <1>1
      <3> QED
        BY <2>1, <3>1, <1>1, <1>2, <1>5 DEF OpInv, Held, Merged
    <2>2. CASE s # t
      <3>1. w'[s] = w[s]
        BY <2>2, <1>1
      <3> QED
        BY <2>2, <3>1, <1>1, <1>2, OtherOps
    <2> QED
      BY <2>1, <2>2
  <1>10. StoredRoleUsable'
    <2>1. ASSUME NEW n \in Names, roles'[n] # NoRole PROVE Usable(n, roles'[n])
      <3>1. CASE n = name
        BY <3>1, <2>1, <1>1, <1>3, <1>6
      <3>2. CASE n # name
        BY <3>2, <2>1, <1>1, <1>6 DEF RoleInv, StoredRoleUsable
      <3> QED
        BY <3>1, <3>2
    <2> QED
      BY <2>1 DEF StoredRoleUsable
  <1>11. PasswordOptInGated'
    BY <1>1, <1>2, <1>6, <1>7 DEF RoleInv, PasswordOptInGated
  <1> QED
    BY <1>1, <1>8, <1>9, <1>10, <1>11 DEF RoleInv

LEMMA ReturnInv ==
  ASSUME RoleInv, NEW t \in Threads, Return(t)
  PROVE  RoleInv'
  <1>1. /\ w \in [Threads -> Ops] /\ OpInv(t) /\ CacheInv'
        /\ w[t].pc \in {"done", "lost", "failed"} /\ w' = [w EXCEPT ![t] = NoOp]
        /\ roleLock' = Nobody /\ UNCHANGED <<call, roles, verified>>
    BY SameCache DEF Return, RoleInv, RoleTypeOK, cacheVars
  <1>2. roleLock = t /\ call[t].pc = "idle" /\ Nobody \notin Threads
    BY <1>1, CacheAssumption, StoreAssumption DEF OpInv, Held
  <1>3. NoOp \in Ops /\ NoOp.pc = "idle"
    BY DEF NoOp, Ops
  <1>4. OpInv(t)'
    BY <1>1, <1>2, <1>3 DEF OpInv, Held, Merged
  <1> QED
    BY <1>1, <1>2, <1>3, <1>4, HandlerFrame

\* The cache works for a thread only while the thread waits for it.
LEMMA CacheStepInv ==
  ASSUME RoleInv, CacheNext, UNCHANGED storeVars
  PROVE  RoleInv'
  <1>1. CacheInv'
    BY CacheNextInv DEF RoleInv
  <1>2. RoleTypeOK' /\ StoredRoleUsable' /\ PasswordOptInGated'
    BY DEF RoleInv, RoleTypeOK, StoredRoleUsable, PasswordOptInGated, storeVars
  <1>3. ASSUME NEW t \in Threads, call[t].pc = "idle"
        PROVE  call'[t] = call[t]
    <2>1. call \in [Callers -> Calls] /\ t \in Callers /\ t \notin Users
      BY StoreAssumption DEF RoleInv, CacheInv, CacheTypeOK
    <2>2. ASSUME NEW s \in Callers, GetClient(s) PROVE call'[t] = call[t]
      BY <1>3, <2>1, <2>2 DEF GetClient, GetClientFast, GetClientLock, GetClientRead,
           GetClientReadErr, GetClientStore
    <2>3. ASSUME NEW u \in Users, UseClient(u) \/ UsedClient(u) PROVE call'[t] = call[t]
      BY <2>1, <2>3 DEF UseClient, UsedClient, GetClientBegin
    <2>4. ASSUME NEW c \in Operators,
                 (\E tree \in Trees : ConfigWrite(c, tree)) \/ ConfigDelete(c) \/ ConfigStep(c)
          PROVE  call'[t] = call[t]
      BY <2>4 DEF ConfigWrite, ConfigDelete, ConfigStep, ConfigStored, ConfigStoreErr,
           ConfigInvalidate
    <2> QED
      BY <2>2, <2>3, <2>4 DEF CacheNext
  <1>4. ASSUME NEW t \in Threads PROVE OpInv(t)'
    <2>1. OpInv(t) /\ UNCHANGED <<roles, w, roleLock>>
      BY DEF RoleInv, storeVars
    <2>2. w[t].pc # "client" => call'[t].pc = "idle"
      BY <2>1, <1>3 DEF OpInv
    <2> QED
      BY <2>1, <2>2 DEF OpInv, New
  <1> QED
    BY <1>1, <1>2, <1>4 DEF RoleInv

LEMMA RoleNextInv == RoleInv /\ [Next]_vars => RoleInv'
  <1> SUFFICES ASSUME RoleInv, [Next]_vars PROVE RoleInv'
    OBVIOUS
  <1>1. CASE UNCHANGED vars
    <2>1. UNCHANGED <<storeVars, cacheVars>>
      BY <1>1 DEF vars, storeVars, cacheVars
    <2>2. CacheInv'
      BY <2>1, SameCache DEF RoleInv
    <2> QED
      BY <1>1, <2>2 DEF vars, RoleInv, RoleTypeOK, OpInv, New, StoredRoleUsable, PasswordOptInGated
  <1>2. ASSUME NEW t \in Threads,
               \/ \E name \in Names, req \in Requests : RoleWrite(t, name, req)
               \/ \E name \in Names : RoleDelete(t, name)
        PROVE  RoleInv'
    BY <1>2, AskInv
  <1>3. ASSUME NEW t \in Threads, RoleStep(t)
        PROVE  RoleInv'
    BY <1>3, LoadInv, LoadConfigInv, HaveClientInv, PVEInv, WriteInv, ReturnInv DEF RoleStep
  <1> QED
    BY <1>1, <1>2, <1>3, LockRoleInv, CacheStepInv DEF Next

-----------------------------------------------------------------------------
(* The theorems *)

\* A thread between its load and its answer holds roleLock, and the role it has
\* merged with is the stored one until it writes.
THEOREM RoleInvariant == Spec => []RoleInv
  BY RoleInit, RoleNextInv, PTL DEF Spec

\* Whatever partial writes are merged in whatever order, a stored role has a
\* userid within PVE's limit, a realm its mode works in and TTLs in order.
THEOREM StoredRolesUsable == Spec => []StoredRoleUsable
  <1>1. RoleInv => StoredRoleUsable
    BY DEF RoleInv
  <1> QED
    BY <1>1, RoleInvariant, PTL

\* No sequence of writes and deletes takes a role to password mode without a
\* look at the PVE build.
THEOREM PasswordGate == Spec => []PasswordOptInGated
  <1>1. RoleInv => PasswordOptInGated
    BY DEF RoleInv
  <1> QED
    BY <1>1, RoleInvariant, PTL

\* The getClient of a role write returns a fresh client, as those of issuance,
\* renewal, revocation and rollback do.
THEOREM RoleClientsAreFresh == Spec => []NoStaleClient
  <1>1. RoleInv => NoStaleClient
    BY DEF RoleInv, CacheInv
  <1> QED
    BY <1>1, RoleInvariant, PTL

-----------------------------------------------------------------------------
(* The privileges *)

\* The two halves of PrivilegesGranted.
RolesGranted == \A t \in Threads : w[t].pc \in {"version", "put"} => w[t].granted
ConfigsGranted == \A c \in Operators : cw[c].pc = "put" => cw[c].granted

\* A config is accepted by a walk that is right.
LEMMA ConfigGrantedKept ==
  ASSUME CacheInv, ConfigsGranted, CacheNext
  PROVE  ConfigsGranted'
  <1>1. cw \in [Operators -> ConfigOps]
    BY DEF CacheInv, CacheTypeOK
  <1>2. ASSUME NEW t \in Callers, GetClient(t)
        PROVE  ConfigsGranted'
    BY <1>2 DEF GetClient, GetClientFast, GetClientLock, GetClientRead, GetClientReadErr,
       GetClientStore, ConfigsGranted
  <1>3. ASSUME NEW u \in Users, UseClient(u) \/ UsedClient(u)
        PROVE  ConfigsGranted'
    BY <1>3 DEF UseClient, UsedClient, ConfigsGranted
  <1>4. ASSUME NEW c \in Operators, NEW op, cw' = [cw EXCEPT ![c] = op],
               op.pc = "put" => op.granted
        PROVE  ConfigsGranted'
    <2>1. \A o \in Operators : cw'[o] = IF o = c THEN op ELSE cw[o]
      BY <1>1, <1>4
    <2> QED
      BY <1>4, <2>1 DEF ConfigsGranted
  <1>5. ASSUME NEW c \in Operators, NEW tree \in Trees, ConfigWrite(c, tree)
        PROVE  ConfigsGranted'
    <2> DEFINE granted == /\ Effective(tree, GroupsPath, "User.Modify")
                          /\ Effective(tree, GroupsPath, "Sys.Audit")
    <2>1. GroupsPath \in Seq({"access", "groups"})
      BY DEF GroupsPath
    <2>2. granted
      BY <1>5, <2>1, WalkIsRight DEF ConfigWrite
    <2>3. cw' = [cw EXCEPT ![c] = [pc |-> "put", n |-> 0, granted |-> granted]]
      BY <1>5 DEF ConfigWrite
    <2> HIDE DEF granted
    <2> QED
      BY <1>4, <2>2, <2>3
  <1>6. ASSUME NEW c \in Operators, ConfigDelete(c) \/ ConfigStep(c)
        PROVE  ConfigsGranted'
    <2>1. PICK op \in {[cw[c] EXCEPT !.pc = "delete"], NoConfigOp,
                       [cw[c] EXCEPT !.pc = "invalidate", !.n = config.n + 1]} :
            cw' = [cw EXCEPT ![c] = op]
      BY <1>6 DEF ConfigDelete, ConfigStep, ConfigStored, ConfigStoreErr, ConfigInvalidate
    <2>2. cw[c] \in ConfigOps
      BY <1>1
    <2>3. /\ [cw[c] EXCEPT !.pc = "delete"].pc = "delete"
          /\ [cw[c] EXCEPT !.pc = "invalidate", !.n = config.n + 1].pc = "invalidate"
          /\ NoConfigOp.pc = "idle"
      BY <2>2 DEF ConfigOps, NoConfigOp
    <2> QED
      BY <1>4, <2>1, <2>3
  <1> QED
    BY <1>2, <1>3, <1>5, <1>6 DEF CacheNext

\* A step of thread t that leaves a granted operation, or one that is not yet or
\* no longer checked.
LEMMA OpGranted ==
  ASSUME RoleTypeOK, RolesGranted, NEW t \in Threads, NEW op, w' = [w EXCEPT ![t] = op],
         op.pc \in {"version", "put"} => op.granted
  PROVE  RolesGranted'
  <1>1. \A s \in Threads : w'[s] = IF s = t THEN op ELSE w[s]
    BY DEF RoleTypeOK
  <1> QED
    BY <1>1 DEF RolesGranted

\* So is a role: the walk is right for the realm and for the group of the role.
LEMMA RoleGrantedKept ==
  ASSUME RoleTypeOK, RolesGranted, NEW t \in Threads, RoleStep(t)
  PROVE  RolesGranted'
  <1>1. w[t] \in Ops
    BY DEF RoleTypeOK
  <1>2. ASSUME NEW answer \in {"done", "lost", "failed"}, End(t, answer)
        PROVE  RolesGranted'
    <2>1. Over(w[t], answer).pc = answer
      BY <1>1, OverIsOp
    <2> QED
      BY <1>2, <2>1, OpGranted DEF End
  <1>3. ASSUME NEW pc \in {"client", "group", "perms"}, Goto(t, pc)
        PROVE  RolesGranted'
    <2>1. [w[t] EXCEPT !.pc = pc].pc = pc
      BY <1>1 DEF Ops
    <2> QED
      BY <1>3, <2>1, OpGranted DEF Goto
  <1>4. CASE Load(t)
    <2> DEFINE op == [w[t] EXCEPT !.existing = Decoded(roles[w[t].name]), !.pc = "config"]
    <2>1. End(t, "failed") \/ w' = [w EXCEPT ![t] = op]
      BY <1>4 DEF Load, End
    <2>2. op.pc = "config"
      BY <1>1 DEF Ops
    <2> HIDE DEF op
    <2> QED
      BY <1>2, <2>1, <2>2, OpGranted
  <1>5. ASSUME NEW tree \in Trees, GetPermissions(t, tree)
        PROVE  RolesGranted'
    <2> DEFINE pc == IF OptingIn(w[t].existing, New(t)) THEN "version" ELSE "put"
               granted == /\ Effective(tree, RealmPath(t), "Realm.AllocateUser")
                          /\ Effective(tree, PerGroupPath(t), "User.Modify")
               op == [w[t] EXCEPT !.pc = pc, !.granted = granted]
    <2>1. \/ End(t, "failed")
          \/ /\ HasPrivilege(tree, RealmPath(t), "Realm.AllocateUser")
             /\ HasPrivilege(tree, PerGroupPath(t), "User.Modify")
             /\ w' = [w EXCEPT ![t] = op]
      BY <1>5 DEF GetPermissions
    <2>2. /\ RealmPath(t) \in Seq({"access", "realm", New(t).realm})
          /\ PerGroupPath(t) \in Seq({"access", "groups", New(t).group})
      BY DEF RealmPath, PerGroupPath
    <2>3. End(t, "failed") \/ (granted /\ w' = [w EXCEPT ![t] = op])
      BY <2>1, <2>2, WalkIsRight
    <2> HIDE DEF pc, granted
    <2>4. op.granted = granted
      BY <1>1 DEF Ops
    <2> HIDE DEF op
    <2> QED
      BY <1>2, <2>3, <2>4, OpGranted
  <1>6. CASE GetVersionInfo(t)
    <2> DEFINE op == [w[t] EXCEPT !.pc = "put", !.checked = TRUE]
    <2>1. w[t].granted /\ w' = [w EXCEPT ![t] = op]
      BY <1>6 DEF GetVersionInfo, RolesGranted
    <2>2. op.granted = w[t].granted
      BY <1>1 DEF Ops
    <2> HIDE DEF op
    <2> QED
      BY <2>1, <2>2, OpGranted
  <1>7. CASE Return(t)
    <2>1. NoOp.pc = "idle"
      BY DEF NoOp
    <2> QED
      BY <1>7, <2>1, OpGranted DEF Return
  <1> QED
    BY <1>2, <1>3, <1>4, <1>5, <1>6, <1>7 DEF RoleStep, Fail, LoadConfig, HaveClient, GetGroup,
       Put, Delete, StoreErr

LEMMA GrantedKept ==
  ASSUME RoleInv, PrivilegesGranted, [Next]_vars
  PROVE  PrivilegesGranted'
  <1>1. RolesGranted /\ ConfigsGranted /\ RoleTypeOK /\ CacheInv
    BY DEF PrivilegesGranted, RolesGranted, ConfigsGranted, RoleInv
  <1>2. CASE UNCHANGED vars
    BY <1>1, <1>2 DEF vars, RolesGranted, ConfigsGranted, PrivilegesGranted
  <1>3. CASE CacheNext /\ UNCHANGED storeVars
    BY <1>1, <1>3, ConfigGrantedKept DEF storeVars, RolesGranted, ConfigsGranted, PrivilegesGranted
  <1>4. ASSUME NEW t \in Threads, NEW name \in Names,
               (\E req \in Requests : RoleWrite(t, name, req)) \/ RoleDelete(t, name)
        PROVE  RolesGranted' /\ cw' = cw
    <2>1. cw' = cw
      BY <1>4 DEF RoleWrite, RoleDelete, cacheVars
    <2>2. ASSUME NEW req \in Requests, RoleWrite(t, name, req)
          PROVE  RolesGranted'
      <3> DEFINE op == [NoOp EXCEPT !.pc = "lock", !.kind = "write", !.name = name, !.req = req]
      <3>1. op.pc = "lock" /\ w' = [w EXCEPT ![t] = op]
        BY <2>2 DEF NoOp, RoleWrite
      <3> HIDE DEF op
      <3> QED
        BY <1>1, <3>1, OpGranted
    <2>3. CASE RoleDelete(t, name)
      <3> DEFINE op == [NoOp EXCEPT !.pc = "lock", !.kind = "delete", !.name = name]
      <3>1. op.pc = "lock" /\ w' = [w EXCEPT ![t] = op]
        BY <2>3 DEF NoOp, RoleDelete
      <3> HIDE DEF op
      <3> QED
        BY <1>1, <2>1, <3>1, OpGranted
    <2> QED
      BY <1>4, <2>1, <2>2, <2>3
  <1>5. ASSUME NEW t \in Threads, Lock(t)
        PROVE  RolesGranted' /\ cw' = cw
    <2> DEFINE op == [w[t] EXCEPT !.pc = IF w[t].kind = "write" THEN "load" ELSE "delete"]
    <2>1. op.pc \in {"load", "delete"} /\ w' = [w EXCEPT ![t] = op]
      BY <1>1, <1>5 DEF Lock, Goto, RoleTypeOK, Ops
    <2> HIDE DEF op
    <2> QED
      BY <1>1, <1>5, <2>1, OpGranted DEF Lock, cacheVars
  <1>6. ASSUME NEW t \in Threads, RoleStep(t)
        PROVE  RolesGranted' /\ cw' = cw
    BY <1>1, <1>6, RoleGrantedKept DEF RoleStep, Load, Fail, LoadConfig, HaveClient, GetGroup,
       GetPermissions, GetVersionInfo, Put, Delete, StoreErr, Return, cacheVars
  <1>7. (RolesGranted' /\ cw' = cw) => PrivilegesGranted'
    BY <1>1 DEF RolesGranted, ConfigsGranted, PrivilegesGranted
  <1> QED
    BY <1>2, <1>3, <1>4, <1>5, <1>6, <1>7 DEF Next

\* No role and no config is accepted without the privileges the engine will need,
\* whatever tree PVE shows: no flag and no level of it misleads the walk.
THEOREM AcceptedIsGranted == Spec => []PrivilegesGranted
  <1>1. Init => PrivilegesGranted
    BY DEF Init, CacheInit, PrivilegesGranted, NoOp, NoConfigOp
  <1> QED
    BY <1>1, GrantedKept, RoleInvariant, PTL DEF Spec

-----------------------------------------------------------------------------
(* The store implements its contract *)

LEMMA SameRules ==
  /\ Contract!EmptyRequest = EmptyRequest
  /\ \A req, r : Contract!Merge(req, r) = Merge(req, r)
  /\ \A r : Contract!Decoded(r) = Decoded(r)
  /\ \A n, r : Contract!Valid(n, r) = Valid(n, r)
  <1>1. \A p, n, r : Contract!validateLengthBudget(p, n, r) = validateLengthBudget(p, n, r)
    BY DEF Contract!validateLengthBudget, validateLengthBudget, Contract!PVELimit, PVELimit
  <1>2. \A n, r : Contract!Valid(n, r) = Valid(n, r)
    BY <1>1 DEF Contract!Valid, Valid, Contract!Modes, Modes
  <1> QED
    BY <1>2 DEF Contract!EmptyRequest, EmptyRequest, Contract!Merge, Merge,
         Contract!Defaults, Defaults, Contract!Decoded, Decoded

LEMMA ContractBegins == Init => Contract!ContractInit
  <1> SUFFICES ASSUME Init PROVE Contract!ContractInit
    OBVIOUS
  <1>1. \A t \in Threads : OpOf(t) = Contract!Quiet
    BY SameRules DEF Init, NoOp, OpOf, Contract!Quiet
  <1> QED
    BY <1>1 DEF Init, Contract!ContractInit

\* A step of thread t changes the abstract operation of t only.
LEMMA OpChanges ==
  ASSUME RoleInv, NEW t \in Threads, NEW o \in Ops, w' = [w EXCEPT ![t] = o]
  PROVE  /\ w'[t] = o /\ w[t] \in Ops
         /\ [s \in Threads |-> OpOf(s)]' = [[s \in Threads |-> OpOf(s)] EXCEPT ![t] = OpOf(t)']
  <1>1. w \in [Threads -> Ops]
    BY DEF RoleInv, RoleTypeOK
  <1>2. w'[t] = o /\ w[t] \in Ops /\ \A s \in Threads \ {t} : w'[s] = w[s]
    BY <1>1
  <1>3. \A s \in Threads \ {t} : OpOf(s)' = OpOf(s)
    BY <1>2 DEF OpOf
  <1> QED
    BY <1>2, <1>3

\* The abstract operation, by the stage of the handler.
LEMMA OpStages ==
  ASSUME NEW t \in Threads
  PROVE  LET Op(st, ok) == [st |-> st, kind |-> w[t].kind, name |-> w[t].name,
                            req |-> w[t].req, ok |-> ok]
         IN  /\ w[t].pc = "idle" => OpOf(t) = Op("idle", FALSE)
             /\ w[t].pc = "done" => OpOf(t) = Op("answer", TRUE)
             /\ w[t].pc \in {"lost", "failed"} => OpOf(t) = Op("answer", FALSE)
             /\ w[t].pc \notin {"idle", "done", "lost", "failed"} => OpOf(t) = Op("asked", FALSE)
  <1>1. (w[t].pc = "done") = TRUE \/ (w[t].pc = "done") = FALSE
    OBVIOUS
  <1> QED
    BY <1>1 DEF OpOf

\* The steps of t before it writes that only move on.
LEMMA Moves ==
  ASSUME RoleInv, NEW t \in Threads, NEW o \in Ops, w' = [w EXCEPT ![t] = o],
         {w[t].pc, o.pc} \cap {"idle", "done", "lost", "failed"} = {},
         o.kind = w[t].kind, o.name = w[t].name, o.req = w[t].req, UNCHANGED roles
  PROVE  UNCHANGED Contract!contractVars
  <1>1. OpOf(t)' = OpOf(t)
    BY OpChanges DEF OpOf
  <1> QED
    BY <1>1, OpChanges DEF Contract!contractVars

LEMMA Goes ==
  ASSUME RoleInv, NEW t \in Threads, NEW pc \in Held \ {"done", "lost", "failed"},
         Goto(t, pc), w[t].pc \notin {"idle", "done", "lost", "failed"}, UNCHANGED roles
  PROVE  UNCHANGED Contract!contractVars
  <1> DEFINE o == [w[t] EXCEPT !.pc = pc]
  <1>1. w \in [Threads -> Ops] /\ w[t] \in Ops /\ w' = [w EXCEPT ![t] = o]
    BY DEF RoleInv, RoleTypeOK, Goto
  <1>2. o \in Ops /\ o.pc = pc /\ o.kind = w[t].kind /\ o.name = w[t].name /\ o.req = w[t].req
    BY <1>1 DEF Ops
  <1> HIDE DEF o
  <1> QED
    BY <1>1, <1>2, Moves DEF Held

\* A handler that ends without a write refuses.
LEMMA Refuses ==
  ASSUME RoleInv, NEW t \in Threads, End(t, "failed"),
         w[t].pc \notin {"idle", "done", "lost", "failed"}, UNCHANGED roles
  PROVE  Contract!Refuse(t)
  <1> DEFINE o == Over(w[t], "failed")
  <1>1. w[t] \in Ops /\ w' = [w EXCEPT ![t] = o]
    BY DEF RoleInv, RoleTypeOK, End
  <1>2. /\ o \in Ops /\ o.pc = "failed"
        /\ o.kind = w[t].kind /\ o.name = w[t].name /\ o.req = w[t].req
    BY <1>1, OverIsOp
  <1> HIDE DEF o
  <1>3. OpOf(t)' = Contract!Answered(OpOf(t), FALSE) /\ OpOf(t).st = "asked"
    <2>1. OpOf(t) = [st |-> "asked", kind |-> w[t].kind, name |-> w[t].name,
                     req |-> w[t].req, ok |-> FALSE]
      BY OpStages
    <2>2. OpOf(t)' = [st |-> "answer", kind |-> w[t].kind, name |-> w[t].name,
                      req |-> w[t].req, ok |-> FALSE]
      BY <1>1, <1>2, OpChanges DEF OpOf
    <2> QED
      BY <2>1, <2>2 DEF Contract!Answered
  <1> QED
    BY <1>1, <1>2, <1>3, OpChanges DEF Contract!Refuse

\* Put and Delete are the instant at which the operation takes effect: roleLock
\* is what makes the loaded role the stored one.
LEMMA Applies ==
  ASSUME RoleInv, NEW t \in Threads, NEW answer \in {"done", "lost"},
         Put(t, answer) \/ Delete(t, answer)
  PROVE  Contract!Apply(t, answer = "done")
  <1> DEFINE o == Over(w[t], answer)
             stored == IF w[t].pc = "put" THEN New(t) ELSE NoRole
  <1>1. w[t] \in Ops /\ w' = [w EXCEPT ![t] = o] /\ OpInv(t) /\ w[t].pc \in {"put", "delete"}
        /\ roles' = [roles EXCEPT ![w[t].name] = stored]
        /\ roles \in [Names -> Roles \cup {NoRole}]
    BY DEF RoleInv, RoleTypeOK, Put, Delete, End, Write
  <1>2. /\ o \in Ops /\ o.pc = answer
        /\ o.kind = w[t].kind /\ o.name = w[t].name /\ o.req = w[t].req
    BY <1>1, OverIsOp
  <1> HIDE DEF o
  <1>3. /\ OpOf(t)' = Contract!Answered(OpOf(t), answer = "done")
        /\ OpOf(t).st = "asked" /\ OpOf(t).kind = w[t].kind
        /\ OpOf(t).name = w[t].name /\ OpOf(t).req = w[t].req
    <2>1. OpOf(t) = [st |-> "asked", kind |-> w[t].kind, name |-> w[t].name,
                     req |-> w[t].req, ok |-> FALSE]
      BY <1>1, OpStages
    <2>2. OpOf(t)' = [st |-> "answer", kind |-> w[t].kind, name |-> w[t].name,
                      req |-> w[t].req, ok |-> answer = "done"]
      BY <1>1, <1>2, OpChanges DEF OpOf
    <2> QED
      BY <2>1, <2>2 DEF Contract!Answered
  <1>4. /\ w[t].name \in Names
        /\ w[t].pc = "put" => /\ w[t].kind = "write" /\ Valid(w[t].name, New(t))
                              /\ New(t) = Merge(w[t].req, Decoded(roles[w[t].name]))
        /\ w[t].pc = "delete" => w[t].kind = "delete"
    BY <1>1 DEF OpInv, Merged, New
  <1>5. stored = Contract!Effect(w[t].kind, w[t].req, roles[w[t].name])
    BY <1>1, <1>4, SameRules DEF Contract!Effect
  <1>6. w[t].kind = "write" => Contract!Valid(w[t].name, stored)
    BY <1>1, <1>4, SameRules
  <1>7. roles'[w[t].name] = stored
    BY <1>1, <1>4
  <1> HIDE DEF stored
  <1> QED
    BY <1>1, <1>2, <1>3, <1>5, <1>6, <1>7, OpChanges DEF Contract!Apply

LEMMA Answers ==
  ASSUME RoleInv, NEW t \in Threads, Return(t)
  PROVE  Contract!Answer(t)
  <1>1. NoOp \in Ops /\ w' = [w EXCEPT ![t] = NoOp] /\ UNCHANGED roles
        /\ w[t].pc \in {"done", "lost", "failed"}
    BY DEF Return, NoOp, Ops
  <1>2. OpOf(t)' = Contract!Quiet /\ OpOf(t).st = "answer"
    <2>1. w'[t] = NoOp
      BY <1>1, OpChanges
    <2>2. OpOf(t)' = [st |-> "idle", kind |-> "none", name |-> "none", req |-> EmptyRequest,
                      ok |-> FALSE]
      <3>1. /\ NoOp.pc = "idle" /\ NoOp.kind = "none" /\ NoOp.name = "none"
            /\ NoOp.req = EmptyRequest
        BY DEF NoOp
      <3>2. (w'[t].pc = "done") = FALSE
        BY <2>1, <3>1
      <3> QED
        BY <2>1, <3>1, <3>2 DEF OpOf
    <2>3. OpOf(t).st = "answer"
      BY <1>1 DEF OpOf
    <2> QED
      BY <2>2, <2>3, SameRules DEF Contract!Quiet
  <1> QED
    BY <1>1, <1>2, OpChanges DEF Contract!Answer

LEMMA Asks ==
  ASSUME RoleInv, NEW t \in Threads, NEW name \in Names,
         NEW kind \in {"write", "delete"}, NEW req \in Requests \cup {EmptyRequest},
         w[t].pc = "idle", UNCHANGED roles,
         w' = [w EXCEPT ![t] = [NoOp EXCEPT !.pc = "lock", !.kind = kind,
                                            !.name = name, !.req = req]]
  PROVE  Contract!Ask(t, kind, name, req)
  <1> DEFINE o == [NoOp EXCEPT !.pc = "lock", !.kind = kind, !.name = name, !.req = req]
  <1>1. o \in Ops /\ o.pc = "lock" /\ o.kind = kind /\ o.name = name /\ o.req = req
    BY DEF NoOp, Ops
  <1> HIDE DEF o
  <1>2. /\ OpOf(t)' = [st |-> "asked", kind |-> kind, name |-> name, req |-> req, ok |-> FALSE]
        /\ OpOf(t).st = "idle"
    BY <1>1, OpChanges DEF OpOf, o
  <1> QED
    BY <1>1, <1>2, OpChanges DEF Contract!Ask, o

\* Every step of a handler is a step of the contract, or none.
LEMMA HandlerSteps ==
  ASSUME RoleInv, NEW t \in Threads, RoleStep(t)
  PROVE  [Contract!ContractNext]_Contract!contractVars
  <1> USE DEF Held
  <1>1. w \in [Threads -> Ops] /\ w[t] \in Ops /\ OpInv(t)
    BY DEF RoleInv, RoleTypeOK
  <1>2. Contract!Refuse(t) \/ Contract!Answer(t) => Contract!ContractNext
    BY DEF Contract!ContractNext
  <1>3. CASE Load(t)
    <2> DEFINE o == [w[t] EXCEPT !.existing = Decoded(roles[w[t].name]), !.pc = "config"]
    <2>1. UNCHANGED roles /\ w[t].pc = "load"
      BY <1>3 DEF Load
    <2>2. End(t, "failed") \/ w' = [w EXCEPT ![t] = o]
      BY <1>3 DEF Load, End
    <2>3. CASE End(t, "failed")
      BY <2>1, <2>3, <1>2, Refuses
    <2>4. CASE w' = [w EXCEPT ![t] = o]
      <3>1. Decoded(roles[w[t].name]) \in Roles \cup {NoRole}
        BY <1>1, <2>1, DecodedIsRole DEF OpInv, RoleInv, RoleTypeOK
      <3>2. /\ o \in Ops /\ o.pc = "config" /\ o.kind = w[t].kind
            /\ o.name = w[t].name /\ o.req = w[t].req
        BY <1>1, <3>1 DEF Ops
      <3> HIDE DEF o
      <3> QED
        BY <2>1, <2>4, <3>2, Moves
    <2> QED
      BY <2>2, <2>3, <2>4
  <1>4. CASE Fail(t) \/ StoreErr(t)
    BY <1>4, <1>2, Refuses DEF Fail, StoreErr
  <1>5. CASE LoadConfig(t) \/ GetGroup(t)
    BY <1>5, Goes DEF LoadConfig, GetGroup
  <1>6. CASE HaveClient(t)
    BY <1>6, <1>2, Goes, Refuses DEF HaveClient
  <1>7. ASSUME NEW tree \in Trees, GetPermissions(t, tree)
        PROVE  [Contract!ContractNext]_Contract!contractVars
    <2> DEFINE pc == IF OptingIn(w[t].existing, New(t)) THEN "version" ELSE "put"
               granted == /\ Effective(tree, RealmPath(t), "Realm.AllocateUser")
                          /\ Effective(tree, PerGroupPath(t), "User.Modify")
               o == [w[t] EXCEPT !.pc = pc, !.granted = granted]
    <2>1. /\ UNCHANGED roles /\ w[t].pc = "perms"
          /\ End(t, "failed") \/ w' = [w EXCEPT ![t] = o]
      BY <1>7 DEF GetPermissions
    <2>2. granted \in BOOLEAN /\ pc \in {"version", "put"}
      BY DEF Effective
    <2> HIDE DEF pc, granted
    <2>3. /\ o \in Ops /\ o.pc = pc /\ o.kind = w[t].kind
          /\ o.name = w[t].name /\ o.req = w[t].req
      BY <1>1, <2>2 DEF Ops
    <2> HIDE DEF o
    <2>4. CASE End(t, "failed")
      BY <2>1, <2>4, <1>2, Refuses
    <2>5. CASE w' = [w EXCEPT ![t] = o]
      BY <2>1, <2>2, <2>3, <2>5, Moves
    <2> QED
      BY <2>1, <2>4, <2>5
  <1>8. CASE GetVersionInfo(t)
    <2> DEFINE o == [w[t] EXCEPT !.pc = "put", !.checked = TRUE]
    <2>1. UNCHANGED roles /\ w[t].pc = "version" /\ w' = [w EXCEPT ![t] = o]
      BY <1>8 DEF GetVersionInfo
    <2>2. /\ o \in Ops /\ o.pc = "put" /\ o.kind = w[t].kind
          /\ o.name = w[t].name /\ o.req = w[t].req
      BY <1>1 DEF Ops
    <2> HIDE DEF o
    <2> QED
      BY <2>1, <2>2, Moves
  <1>9. ASSUME NEW answer \in {"done", "lost"}, Put(t, answer) \/ Delete(t, answer)
        PROVE  Contract!ContractNext
    <2>1. Contract!Apply(t, answer = "done") /\ (answer = "done") \in BOOLEAN
      BY <1>9, Applies
    <2> QED
      BY <2>1 DEF Contract!ContractNext
  <1>10. CASE Return(t)
    BY <1>10, <1>2, Answers
  <1> QED
    BY <1>3, <1>4, <1>5, <1>6, <1>7, <1>8, <1>9, <1>10 DEF RoleStep

LEMMA ContractSteps ==
  ASSUME RoleInv, [Next]_vars
  PROVE  [Contract!ContractNext]_Contract!contractVars
  <1>1. CASE UNCHANGED <<roles, w>>
    BY <1>1 DEF Contract!contractVars, OpOf
  <1>2. ASSUME NEW t \in Threads, NEW name \in Names, NEW req \in Requests,
               RoleWrite(t, name, req)
        PROVE  Contract!ContractNext
    <2>1. Contract!Ask(t, "write", name, req)
      BY <1>2, Asks DEF RoleWrite
    <2> QED
      BY <2>1 DEF Contract!ContractNext
  <1>3. ASSUME NEW t \in Threads, NEW name \in Names, RoleDelete(t, name)
        PROVE  Contract!ContractNext
    <2>1. [NoOp EXCEPT !.pc = "lock", !.kind = "delete", !.name = name]
            = [NoOp EXCEPT !.pc = "lock", !.kind = "delete", !.name = name, !.req = EmptyRequest]
      <3> HIDE DEF EmptyRequest
      <3>1. NoOp \in Ops /\ NoOp.req = EmptyRequest
        BY DEF NoOp, Ops
      <3> QED
        BY <3>1 DEF Ops
    <2>2. Contract!Ask(t, "delete", name, EmptyRequest)
      BY <1>3, <2>1, Asks DEF RoleDelete
    <2> QED
      BY <2>2, SameRules DEF Contract!ContractNext
  <1>4. ASSUME NEW t \in Threads, Lock(t)
        PROVE  UNCHANGED Contract!contractVars
    BY <1>4, Goes DEF Lock, Held
  <1>5. CASE CacheNext /\ UNCHANGED storeVars
    BY <1>1, <1>5 DEF storeVars
  <1>6. CASE UNCHANGED vars
    BY <1>1, <1>6 DEF vars
  <1> QED
    BY <1>2, <1>3, <1>4, <1>5, <1>6, HandlerSteps DEF Next

\* Role writes and deletes are linearizable: the store with its lock, its calls
\* to PVE and its failures implements the contract in which each takes effect
\* at one instant and merges with the role of that instant.
THEOREM StoreImplementsContract == Spec => Linearizable
  <1>1. Init => Contract!ContractInit
    BY ContractBegins
  <1>2. RoleInv /\ [Next]_vars => [Contract!ContractNext]_Contract!contractVars
    BY ContractSteps
  <1> QED
    BY <1>1, <1>2, RoleInvariant, PTL DEF Spec, Linearizable, Contract!ContractSpec
=============================================================================
