---------------------------- MODULE LeaseProofs ----------------------------
(***************************************************************************)
(* Proofs about LeaseRenewal, for any number of renewals in flight and any *)
(* durations, defaults, maxima, increments and call times.                 *)
(***************************************************************************)
EXTENDS LeaseRenewal, TLAPS

-----------------------------------------------------------------------------
(* The durations *)

\* CalculateTTL never grants time past the maximum counted from the start, and
\* without an increment never more than the backend asks for.
LEMMA CalculateTTLBound ==
  ASSUME NEW s \in [default : Nat \ {0}, max : Nat \ {0}],
         NEW i \in Nat, NEW b \in Nat, NEW m \in Nat, NEW t0 \in Nat, NEW t \in Nat
  PROVE  LET g == CalculateTTL(s, i, b, m, t0, t) IN
         /\ g \in Nat
         /\ g > 0 => t + g <= t0 + s.max
         /\ g > 0 /\ m > 0 => t + g <= t0 + m
         /\ i = 0 /\ b > 0 => g <= b
  <1> DEFINE max == IF m > 0 /\ m < s.max THEN m ELSE s.max
             asked == IF i > 0 THEN i ELSE IF b > 0 THEN b ELSE s.default
  <1>1. max \in Nat /\ max <= s.max /\ (m > 0 => max <= m)
    OBVIOUS
  <1>2. asked \in Nat /\ (i = 0 /\ b > 0 => asked = b)
    <2>1. CASE i > 0 BY <2>1
    <2>2. CASE i = 0 /\ b > 0 BY <2>2
    <2>3. CASE i = 0 /\ b = 0 BY <2>3
    <2> QED BY <2>1, <2>2, <2>3
  <1>3. CalculateTTL(s, i, b, m, t0, t)
          = IF t0 + max <= t THEN 0 ELSE IF asked < t0 + max - t THEN asked ELSE t0 + max - t
    BY DEF CalculateTTL, Smaller
  <1> HIDE DEF max, asked
  <1> QED BY <1>1, <1>2, <1>3

\* The ceiling stored in the lease is the least of the limits that are set.
LEMMA CappedIsCeiling ==
  ASSUME NEW role \in Roles, NEW cfg \in Configs, NEW s \in Systems
  PROVE  /\ cappedMaxTTL(ttls(role, cfg).max, s.max) = Ceiling(role, cfg, s)
         /\ cappedMaxTTL(ttls(role, cfg).max, s.max) \in 1 .. s.max
         /\ ttls(role, cfg).max # 0 =>
              cappedMaxTTL(ttls(role, cfg).max, s.max) <= ttls(role, cfg).max
  <1> DEFINE m == IF role.max > 0 THEN role.max ELSE cfg.max
             set == {n \in {m, s.max} : n > 0}
             least == IF m = 0 \/ s.max <= m THEN s.max ELSE m
  <1>1. m \in Nat /\ s.max \in Nat \ {0} /\ ttls(role, cfg).max = m
    BY SettingAssumption DEF ttls
  <1>2. cappedMaxTTL(ttls(role, cfg).max, s.max) = least
    <2>1. CASE m = 0 BY <1>1, <2>1 DEF cappedMaxTTL
    <2>2. CASE m # 0 BY <1>1, <2>2 DEF cappedMaxTTL, Smaller
    <2> QED BY <2>1, <2>2
  <1>3. Ceiling(role, cfg, s) = CHOOSE n \in set : \A k \in set : n <= k
    BY DEF Ceiling
  <1>4. least \in set /\ \A k \in set : least <= k
    BY <1>1
  <1>5. set \subseteq Nat
    BY <1>1
  <1> HIDE DEF set, least, m
  <1>6. \A n \in set : (\A k \in set : n <= k) => n = least
    BY <1>4, <1>5
  <1>7. (CHOOSE n \in set : \A k \in set : n <= k) = least
    BY <1>4, <1>6
  <1> QED BY <1>1, <1>2, <1>3, <1>7 DEF least

Extended(l, t, e, x) == [l EXCEPT !.ttl = t, !.end = e, !.expire = x]

\* What a completed renewal makes of a lease is a lease.
LEMMA ExtendedLease ==
  ASSUME NEW l \in Leases, NEW t \in Nat, NEW e \in Nat, NEW x \in Nat
  PROVE  Extended(l, t, e, x) \in Leases
  BY DEF Leases, Extended

-----------------------------------------------------------------------------
(* Type correctness *)

\* The clock, the lease, the user and the renewals keep their types.
LEMMA LeaseTypeStep == TypeOK /\ [Next]_vars => TypeOK'
  <1> SUFFICES ASSUME TypeOK, [Next]_vars PROVE TypeOK'
    OBVIOUS
  <1> USE DurationAssumption, SettingAssumption
  <1>s. sys \in [default : Nat \ {0}, max : Nat \ {0}] /\ now \in Nat
    BY DEF TypeOK
  <1>n. NoRenewal \in RenewalRecs /\ NoRenewal.spent = 0
    BY DEF NoRenewal, RenewalRecs
  <1>e. ASSUME NEW r \in Renewals, End(r)
        PROVE ren' \in [Renewals -> RenewalRecs] /\ \A q \in Renewals : ren'[q].spent <= CallTimeout
    BY <1>e, <1>n DEF TypeOK, End
  <1>g. ASSUME NEW r \in Renewals, NEW step \in {"get", "put", "check"}, Goto(r, step)
        PROVE ren' \in [Renewals -> RenewalRecs] /\ \A q \in Renewals : ren'[q].spent <= CallTimeout
    <2>1. [ren[r] EXCEPT !.pc = step, !.spent = 0] \in RenewalRecs
      <3>1. ren[r] \in RenewalRecs BY DEF TypeOK
      <3>2. [ren[r] EXCEPT !.pc = step] \in RenewalRecs BY <3>1 DEF RenewalRecs
      <3> QED BY <3>2 DEF RenewalRecs
    <2>2. [ren[r] EXCEPT !.pc = step, !.spent = 0].spent = 0
      BY DEF TypeOK, RenewalRecs
    <2> QED BY <1>g, <2>1, <2>2 DEF TypeOK, Goto
  <1>u. ASSUME NEW e \in Nat, UpdateUser(e, lease.group) PROVE user' \in UserRecs
    BY <1>u DEF TypeOK, UpdateUser, UserRecs, Leases
  <1>1. ASSUME NEW role \in Roles, NEW cfg \in Configs, NEW delay \in 0 .. IssueDelay,
               Issue(role, cfg, delay)
        PROVE TypeOK'
    <2> DEFINE t == ttls(role, cfg)
               ttl == CalculateTTL(sys, 0, t.ttl, t.max, now, now)
    <2>1. t.ttl \in Nat /\ t.max \in Nat BY DEF ttls
    <2>2. ttl \in Nat BY <2>1, <1>s, CalculateTTLBound
    <2>3. cappedMaxTTL(t.max, sys.max) \in Nat /\ Ceiling(role, cfg, sys) \in Nat
      BY CappedIsCeiling DEF TypeOK
    <2> HIDE DEF ttl, t
    <2>4. user' \in UserRecs BY <1>1, <1>s, <2>2 DEF Issue, UserRecs, ttl, t
    <2>5. lease' \in Leases
      <3>1. lease' = [st |-> "active", group |-> role.group,
               max |-> cappedMaxTTL(t.max, sys.max),
               expire |-> now + ttl + Grace, ttl |-> ttl,
               issue |-> now + delay, end |-> now + delay + ttl,
               ceiling |-> Ceiling(role, cfg, sys)]
        BY <1>1 DEF Issue, ttl, t
      <3> QED BY <3>1, <1>s, <2>2, <2>3 DEF Leases
    <2>6. now' \in 0 .. MaxTime BY <1>1, <1>s DEF Issue
    <2> QED BY <1>1, <2>4, <2>5, <2>6 DEF Issue, TypeOK
  <1>2. ASSUME NEW r \in Renewals, NEW role \in Roles \cup {NoRole}, NEW cfg \in Configs,
               NEW increment \in Increments, RenewStart(r, role, cfg, increment)
        PROVE TypeOK'
    <2> DEFINE b == IF role = NoRole THEN lease.ttl ELSE ttls(role, cfg).ttl
               ttl == Granted(increment, b)
    <2>1. b \in Nat BY DEF ttls, TypeOK, Leases
    <2>2. ttl \in Nat BY <2>1, <1>s, CalculateTTLBound DEF Granted, TypeOK, Leases
    <2> HIDE DEF ttl, b
    <2>3. NewExpire(ttl) \in Nat BY <2>2, <1>s DEF NewExpire
    <2>4. ren' = [q \in Renewals |->
               IF q = r
               THEN [pc |-> "get", ttl |-> ttl, expire |-> NewExpire(ttl),
                     spent |-> 0, alone |-> Quiet]
               ELSE [ren[q] EXCEPT !.alone = @ /\ ~InFlight(q)]]
      BY <1>2 DEF RenewStart, ttl, b
    <2>5. ASSUME NEW q \in Renewals
          PROVE ren'[q] \in RenewalRecs /\ ren'[q].spent <= CallTimeout
      <3>1. CASE q = r BY <2>2, <2>3, <2>4, <3>1 DEF RenewalRecs, Quiet
      <3>2. CASE q # r BY <2>4, <3>2 DEF RenewalRecs, TypeOK
      <3> QED BY <3>1, <3>2
    <2>6. ren' \in [Renewals -> RenewalRecs] /\ \A q \in Renewals : ren'[q].spent <= CallTimeout
      <3>1. ren' = [q \in Renewals |-> ren'[q]] BY <2>4
      <3> QED BY <2>5, <3>1
    <2> QED BY <1>2, <2>6 DEF RenewStart, TypeOK
  <1>3. ASSUME NEW r \in Renewals, RenewGetUserOk(r) PROVE TypeOK'
    BY <1>3, <1>g DEF RenewGetUserOk, TypeOK
  <1>4. ASSUME NEW r \in Renewals, RenewGetUserErr(r) PROVE TypeOK'
    BY <1>4, <1>e DEF RenewGetUserErr, TypeOK
  <1>5. ASSUME NEW r \in Renewals, RenewUpdateUserOk(r) PROVE TypeOK'
    <2>1. ren[r].expire \in Nat BY DEF TypeOK, RenewalRecs
    <2> QED BY <1>5, <2>1, <1>g, <1>u DEF RenewUpdateUserOk, TypeOK
  <1>6. ASSUME NEW r \in Renewals, RenewUpdateUserErr(r) PROVE TypeOK'
    <2>1. ren[r].expire \in Nat BY DEF TypeOK, RenewalRecs
    <2> QED BY <1>6, <2>1, <1>e, <1>u DEF RenewUpdateUserErr, TypeOK
  <1>7. ASSUME NEW r \in Renewals, RenewUpdateUserTimeout(r) PROVE TypeOK'
    <2>1. ren[r].expire \in Nat BY DEF TypeOK, RenewalRecs
    <2> QED BY <1>7, <2>1, <1>e DEF RenewUpdateUserTimeout, TypeOK
  <1>8. ASSUME NEW r \in Renewals, RenewReadBackOk(r) PROVE TypeOK'
    <2> DEFINE ttl == CalculateTTL(sys, 0, ren[r].ttl, lease.max, lease.issue, now)
    <2>1. ren[r].expire \in Nat /\ ren[r].ttl \in Nat /\ ren[r].alone \in BOOLEAN
      BY DEF TypeOK, RenewalRecs
    <2>2. ttl \in Nat BY <2>1, <1>s, CalculateTTLBound DEF TypeOK, Leases
    <2> HIDE DEF ttl
    <2>3. lease' = [lease EXCEPT !.ttl = ttl, !.end = now + ttl, !.expire = ren[r].expire]
      BY <1>8 DEF RenewReadBackOk, ttl
    <2>4. lease' \in Leases
      <3>1. now + ttl \in Nat /\ lease \in Leases BY <2>2, <1>s DEF TypeOK
      <3>2. lease' = Extended(lease, ttl, now + ttl, ren[r].expire) BY <2>3 DEF Extended
      <3> QED BY <2>1, <2>2, <3>1, <3>2, ExtendedLease
    <2> QED BY <1>8, <2>1, <2>4, <1>e DEF RenewReadBackOk, TypeOK
  <1>9. ASSUME NEW r \in Renewals, RenewReadBackErr(r) PROVE TypeOK'
    BY <1>9, <1>e DEF RenewReadBackErr, TypeOK
  <1>10. CASE RevokeOk BY <1>10 DEF RevokeOk, TypeOK, Leases, UserRecs
  <1>11. CASE RevokeErr BY <1>11 DEF RevokeErr, TypeOK, UserRecs
  <1>12. ASSUME NEW e \in late, LateUpdate(e) PROVE TypeOK'
    <2>1. e \in Nat BY DEF TypeOK
    <2> QED BY <1>12, <1>u, <2>1 DEF LateUpdate, TypeOK
  <1>13. CASE OperatorDisable BY <1>13 DEF OperatorDisable, TypeOK, UserRecs
  <1>14. CASE OperatorUngroup BY <1>14 DEF OperatorUngroup, TypeOK, UserRecs
  <1>15. CASE Tick
    <2>1. ASSUME NEW r \in Renewals
          PROVE ren'[r] \in RenewalRecs /\ ren'[r].spent <= CallTimeout
      BY <1>15 DEF Tick, TypeOK, RenewalRecs
    <2>2. ren' \in [Renewals -> RenewalRecs]
      BY <1>15, <2>1 DEF Tick
    <2> QED BY <1>15, <2>1, <2>2 DEF Tick, TypeOK
  <1>16. CASE UNCHANGED vars BY <1>16 DEF vars, TypeOK
  <1> QED
    BY <1>1, <1>2, <1>3, <1>4, <1>5, <1>6, <1>7, <1>8, <1>9, <1>10, <1>11, <1>12, <1>13,
       <1>14, <1>15, <1>16 DEF Next, Renew

-----------------------------------------------------------------------------
(* The invariant *)

Rest == LeaseBounded /\ RenewalsBounded /\ AloneIsAlone /\ InStep /\ PrivilegesFrozen

\* The invariant holds of the lease that is not yet issued.
LEMMA LeaseInvInit == Init => LeaseInv
  <1> SUFFICES ASSUME Init PROVE LeaseInv
    OBVIOUS
  <1> USE DurationAssumption, SettingAssumption
  <1>1. TypeOK
    <2>1. (CHOOSE g \in Groups : TRUE) \in Groups BY SettingAssumption
    <2>2. lease \in Leases BY <2>1 DEF Init, Leases
    <2>3. ren \in [Renewals -> RenewalRecs] /\ \A r \in Renewals : ren[r].spent = 0
      BY DEF Init, NoRenewal, RenewalRecs
    <2>4. user \in UserRecs BY DEF Init, UserRecs
    <2>5. now \in 0 .. MaxTime BY DEF Init
    <2>6. sys \in Systems /\ late \subseteq Nat BY DEF Init
    <2>7. torn \in BOOLEAN BY DEF Init
    <2> QED BY <2>2, <2>3, <2>4, <2>5, <2>6, <2>7 DEF TypeOK
  <1>2. \A r \in Renewals : ~InFlight(r)
    BY DEF Init, InFlight, NoRenewal
  <1>3. LeaseBounded BY DEF Init, LeaseBounded
  <1> QED BY <1>1, <1>2, <1>3 DEF LeaseInv, RenewalsBounded, AloneIsAlone, InStep,
        PrivilegesFrozen, Init

\* Issuance starts the lease within the ceiling, and behind the backstop if
\* the grace covers the time it took.
LEMMA IssueStep ==
  ASSUME LeaseInv, NEW role \in Roles, NEW cfg \in Configs, NEW delay \in 0 .. IssueDelay,
         Issue(role, cfg, delay)
  PROVE  Rest'
  <1> USE DurationAssumption, SettingAssumption
  <1> DEFINE t == ttls(role, cfg)
             ttl == CalculateTTL(sys, 0, t.ttl, t.max, now, now)
             max == cappedMaxTTL(t.max, sys.max)
  <1>1. t.ttl \in Nat /\ t.max \in Nat BY DEF ttls
  <1>2. sys \in [default : Nat \ {0}, max : Nat \ {0}] /\ now \in Nat
    BY DEF LeaseInv, TypeOK
  <1>a. /\ ttl \in Nat
        /\ ttl > 0 => now + ttl <= now + sys.max
        /\ ttl > 0 /\ t.max > 0 => now + ttl <= now + t.max
    <2> HIDE DEF t
    <2> QED BY <1>1, <1>2, CalculateTTLBound
  <1>b. ttl > 0 BY DEF Issue
  <1>3. ttl \in Nat /\ ttl > 0 /\ ttl <= sys.max /\ (t.max > 0 => ttl <= t.max)
    <2> HIDE DEF t, ttl
    <2> QED BY <1>a, <1>b, <1>1, <1>2
  <1>4. max = Ceiling(role, cfg, sys) /\ max \in 1 .. sys.max
    BY CappedIsCeiling DEF LeaseInv, TypeOK
  <1>5. ttl <= max
    BY <1>1, <1>2, <1>3 DEF cappedMaxTTL, Smaller
  <1>6. /\ lease.st = "none"
        /\ now' = now + delay /\ ren' = ren /\ late' = late /\ torn' = torn /\ sys' = sys
        /\ user' = [st |-> "present", enabled |-> TRUE, groups |-> {role.group},
                    expire |-> now + ttl + Grace]
        /\ lease' = [st |-> "active", group |-> role.group, max |-> max,
                     expire |-> now + ttl + Grace, ttl |-> ttl,
                     issue |-> now + delay, end |-> now + delay + ttl,
                     ceiling |-> Ceiling(role, cfg, sys)]
    BY DEF Issue
  <1> HIDE DEF ttl, max, t
  <1>7. late = {} /\ \A r \in Renewals : ~InFlight(r) /\ ~InFlight(r)'
    BY <1>6 DEF LeaseInv, LeaseBounded, RenewalsBounded, InFlight
  <1>8. LeaseBounded'
    BY <1>2, <1>3, <1>4, <1>5, <1>6, <1>7 DEF LeaseBounded, GraceSuffices
  <1>9. InStep'
    BY <1>6, <1>7 DEF InStep, InFlight
  <1> QED BY <1>6, <1>7, <1>8, <1>9 DEF Rest, RenewalsBounded, AloneIsAlone, PrivilegesFrozen

\* A renewal that begins has an expiry within the ceiling.
LEMMA RenewStartStep ==
  ASSUME LeaseInv, NEW r \in Renewals, NEW role \in Roles \cup {NoRole}, NEW cfg \in Configs,
         NEW increment \in Increments, RenewStart(r, role, cfg, increment)
  PROVE  Rest'
  <1> USE DurationAssumption, SettingAssumption
  <1> DEFINE b == IF role = NoRole THEN lease.ttl ELSE ttls(role, cfg).ttl
             ttl == Granted(increment, b)
             x == NewExpire(ttl)
  <1>1. /\ sys \in [default : Nat \ {0}, max : Nat \ {0}] /\ now \in Nat
        /\ lease \in Leases /\ ren \in [Renewals -> RenewalRecs]
    BY DEF LeaseInv, TypeOK
  <1>2. b \in Nat BY <1>1 DEF ttls, Leases
  <1>3. lease.st = "active" /\ lease.max \in Nat /\ lease.max > 0 /\ lease.issue \in Nat
    BY <1>1 DEF RenewStart, LeaseInv, LeaseBounded, Leases
  <1>4. ttl \in Nat /\ ttl > 0 /\ now + ttl <= lease.issue + lease.max
    BY <1>1, <1>2, <1>3, CalculateTTLBound DEF Granted, RenewStart
  <1>5. /\ UNCHANGED <<now, sys, lease, user, late, torn>>
        /\ ren' = [q \in Renewals |->
               IF q = r
               THEN [pc |-> "get", ttl |-> ttl, expire |-> x,
                     spent |-> 0, alone |-> Quiet]
               ELSE [ren[q] EXCEPT !.alone = @ /\ ~InFlight(q)]]
        /\ ~InFlight(r)
    BY DEF RenewStart
  <1>6. x \in Nat /\ x = now + ttl + Grace
    BY <1>1, <1>4 DEF NewExpire
  <1> HIDE DEF x, ttl, b
  <1>7. /\ ren'[r].pc = "get" /\ ren'[r].ttl = ttl /\ ren'[r].expire = x /\ ren'[r].spent = 0
        /\ ren'[r].alone = Quiet
    BY <1>5
  <1>8. ASSUME NEW q \in Renewals, q # r
        PROVE /\ ren'[q].pc = ren[q].pc /\ ren'[q].ttl = ren[q].ttl
              /\ ren'[q].expire = ren[q].expire /\ ren'[q].spent = ren[q].spent
              /\ InFlight(q) => ~ren'[q].alone
    BY <1>1, <1>5, <1>8 DEF RenewalRecs
  <1>9. LeaseBounded' BY <1>5 DEF LeaseInv, LeaseBounded, GraceSuffices
  <1>10. RenewalsBounded'
    <2> SUFFICES ASSUME NEW q \in Renewals, InFlight(q)'
                 PROVE (/\ lease.st # "none"
                        /\ ren[q].ttl > 0
                        /\ ren[q].expire \in 1 .. lease.issue + lease.max + Grace
                        /\ now + ren[q].ttl + Grace
                             <= ren[q].expire + CallTime(ren[q].pc) + ren[q].spent)'
      BY DEF RenewalsBounded
    <2>1. CASE q = r
      BY <1>1, <1>3, <1>4, <1>5, <1>6, <1>7, <2>1 DEF CallTime
    <2>2. CASE q # r
      <3>1. InFlight(q) BY <1>8, <2>2 DEF InFlight
      <3> QED BY <1>5, <1>8, <2>2, <3>1 DEF LeaseInv, RenewalsBounded, CallTime
    <2> QED BY <2>1, <2>2
  <1>11. AloneIsAlone'
    <2> SUFFICES ASSUME NEW q \in Renewals, InFlight(q)', (ren[q].alone)'
                 PROVE (late = {} /\ \A p \in Renewals : p # q => ~InFlight(p))'
      BY DEF AloneIsAlone
    <2>1. CASE q = r
      <3>1. Quiet BY <1>7, <2>1
      <3> QED BY <1>5, <1>8, <2>1, <3>1 DEF Quiet, InFlight
    <2>2. CASE q # r
      BY <1>8, <2>2 DEF InFlight
    <2> QED BY <2>1, <2>2
  <1>12. InStep'
    <2>1. \A q \in Renewals : ren'[q].pc = "check" => q # r /\ ren[q].pc = "check" /\ ~ren'[q].alone
      BY <1>7, <1>8 DEF InFlight
    <2>2. (\A q \in Renewals : ren'[q].pc # "check") => \A q \in Renewals : ren[q].pc # "check"
      BY <1>5, <1>8 DEF InFlight
    <2> QED BY <1>5, <2>1, <2>2 DEF LeaseInv, InStep
  <1> QED BY <1>5, <1>9, <1>10, <1>11, <1>12 DEF Rest, LeaseInv, PrivilegesFrozen

\* A renewal leaves flight and has touched nothing.
LEMMA RenewEndStep ==
  ASSUME LeaseInv, NEW r \in Renewals, End(r), ren[r].pc \in {"get", "put"},
         UNCHANGED <<now, sys, lease, user, late, torn>>
  PROVE  Rest'
  <1>1. ren \in [Renewals -> RenewalRecs] BY DEF LeaseInv, TypeOK
  <1>2. ren'[r].pc = "idle" /\ \A q \in Renewals : q # r => ren'[q] = ren[q]
    BY <1>1 DEF End, NoRenewal
  <1>3. \A q \in Renewals : InFlight(q)' => InFlight(q) /\ ren'[q] = ren[q]
    BY <1>2 DEF InFlight
  <1>4. \A q \in Renewals : ren'[q].pc = "check" <=> ren[q].pc = "check"
    BY <1>2
  <1>5. LeaseBounded' BY DEF LeaseInv, LeaseBounded, GraceSuffices
  <1>6. RenewalsBounded' BY <1>3 DEF LeaseInv, RenewalsBounded, CallTime
  <1>7. AloneIsAlone' BY <1>3 DEF LeaseInv, AloneIsAlone
  <1>8. InStep'
    <2>1. \A q \in Renewals : ren'[q].pc = "check" => ren'[q] = ren[q] BY <1>2
    <2> QED BY <1>4, <2>1 DEF LeaseInv, InStep
  <1> QED BY <1>5, <1>6, <1>7, <1>8 DEF Rest, LeaseInv, PrivilegesFrozen

\* A call has returned in time: the renewal goes on to its next one.
LEMMA CallReturned ==
  ASSUME LeaseInv, NEW r \in Renewals, (Goto(r, "put") /\ ren[r].pc = "get")
                                       \/ (Goto(r, "check") /\ ren[r].pc = "put"),
         UNCHANGED <<now, lease>>
  PROVE  /\ RenewalsBounded'
         /\ ren'[r].expire = ren[r].expire /\ ren'[r].alone = ren[r].alone
         /\ ren'[r].pc = IF ren[r].pc = "get" THEN "put" ELSE "check"
         /\ \A q \in Renewals : q # r => ren'[q] = ren[q]
         /\ \A q \in Renewals : InFlight(q)' <=> InFlight(q)
         /\ \A q \in Renewals : ren'[q].alone = ren[q].alone
  <1> USE DurationAssumption
  <1>1. /\ ren \in [Renewals -> RenewalRecs] /\ now \in Nat /\ lease \in Leases
        /\ ren[r].spent <= CallTimeout
    BY DEF LeaseInv, TypeOK
  <1>2. /\ ren'[r].pc = IF ren[r].pc = "get" THEN "put" ELSE "check"
        /\ ren'[r].ttl = ren[r].ttl /\ ren'[r].expire = ren[r].expire
        /\ ren'[r].spent = 0 /\ ren'[r].alone = ren[r].alone
    <2>1. ren[r] \in RenewalRecs BY <1>1
    <2>2. CASE ren[r].pc = "get"
      <3>1. ren' = [ren EXCEPT ![r] = [ren[r] EXCEPT !.pc = "put", !.spent = 0]]
        BY <2>2 DEF Goto
      <3> QED BY <1>1, <2>1, <2>2, <3>1 DEF RenewalRecs
    <2>3. CASE ren[r].pc = "put"
      <3>1. ren' = [ren EXCEPT ![r] = [ren[r] EXCEPT !.pc = "check", !.spent = 0]]
        BY <2>3 DEF Goto
      <3> QED BY <1>1, <2>1, <2>3, <3>1 DEF RenewalRecs
    <2> QED BY <2>2, <2>3
  <1>3. \A q \in Renewals : q # r => ren'[q] = ren[q]
    BY <1>1 DEF Goto
  <1>4. ren[r].ttl \in Nat /\ ren[r].expire \in Nat /\ ren[r].spent \in Nat
    BY <1>1 DEF RenewalRecs
  <1>5. InFlight(r) /\ InFlight(r)' BY <1>2 DEF InFlight
  <1>6. RenewalsBounded'
    <2> SUFFICES ASSUME NEW q \in Renewals, InFlight(q)'
                 PROVE (/\ lease.st # "none"
                        /\ ren[q].ttl > 0
                        /\ ren[q].expire \in 1 .. lease.issue + lease.max + Grace
                        /\ now + ren[q].ttl + Grace
                             <= ren[q].expire + CallTime(ren[q].pc) + ren[q].spent)'
      BY DEF RenewalsBounded
    <2>1. CASE q = r
      BY <1>1, <1>2, <1>4, <1>5, <2>1 DEF CallTime, LeaseInv, RenewalsBounded
    <2>2. CASE q # r
      <3>1. InFlight(q) BY <1>3, <2>2 DEF InFlight
      <3> QED BY <1>3, <2>2, <3>1 DEF LeaseInv, RenewalsBounded, CallTime
    <2> QED BY <2>1, <2>2
  <1> QED BY <1>2, <1>3, <1>5, <1>6 DEF InFlight

\* The pre-update GetUser has found the user enabled.
LEMMA RenewGetUserOkStep ==
  ASSUME LeaseInv, NEW r \in Renewals, RenewGetUserOk(r)
  PROVE  Rest'
  <1>1. ren[r].pc = "get" /\ Goto(r, "put") /\ UNCHANGED <<now, sys, lease, user, late, torn>>
    BY DEF RenewGetUserOk
  <1>2. /\ RenewalsBounded'
        /\ ren'[r].pc = IF ren[r].pc = "get" THEN "put" ELSE "check"
        /\ \A q \in Renewals : q # r => ren'[q] = ren[q]
        /\ \A q \in Renewals : InFlight(q)' <=> InFlight(q)
        /\ \A q \in Renewals : ren'[q].alone = ren[q].alone
    <2>1. (Goto(r, "put") /\ ren[r].pc = "get") \/ (Goto(r, "check") /\ ren[r].pc = "put")
      BY <1>1
    <2>2. UNCHANGED <<now, lease>> BY <1>1
    <2> QED BY <2>1, <2>2, CallReturned
  <1>3. LeaseBounded' BY <1>1 DEF LeaseInv, LeaseBounded, GraceSuffices
  <1>4. AloneIsAlone' BY <1>1, <1>2 DEF LeaseInv, AloneIsAlone
  <1>5. InStep'
    <2>1. \A q \in Renewals : ren'[q].pc = "check" <=> ren[q].pc = "check" BY <1>1, <1>2
    <2>2. \A q \in Renewals : ren'[q].pc = "check" => ren'[q] = ren[q] BY <1>1, <1>2
    <2> QED BY <1>1, <2>1, <2>2 DEF LeaseInv, InStep
  <1> QED BY <1>1, <1>2, <1>3, <1>4, <1>5 DEF Rest, LeaseInv, PrivilegesFrozen

\* UpdateUser leaves the user within the ceiling and in its own group.
LEMMA UpdateUserBound ==
  ASSUME LeaseInv, lease.st # "none", NEW e \in 1 .. lease.issue + lease.max + Grace,
         UpdateUser(e, lease.group), UNCHANGED <<now, sys, lease>>, late' \subseteq late
  PROVE  /\ LeaseBounded' /\ PrivilegesFrozen'
         /\ user'.st = user.st /\ user'.expire = e
  <1>1. user \in UserRecs BY DEF LeaseInv, TypeOK
  <1>2. user'.st = user.st /\ user'.expire = e /\ user'.groups = user.groups \cup {lease.group}
    BY <1>1 DEF UpdateUser, UserRecs
  <1> QED BY <1>2 DEF LeaseInv, LeaseBounded, PrivilegesFrozen, GraceSuffices

LEMMA RenewUpdateUserOkStep ==
  ASSUME LeaseInv, NEW r \in Renewals, RenewUpdateUserOk(r)
  PROVE  Rest'
  <1>1. /\ ren[r].pc = "put" /\ Goto(r, "check") /\ UNCHANGED <<now, sys, lease, late, torn>>
        /\ UpdateUser(ren[r].expire, lease.group)
    BY DEF RenewUpdateUserOk
  <1>2. /\ RenewalsBounded'
        /\ ren'[r].pc = "check" /\ ren'[r].expire = ren[r].expire
        /\ \A q \in Renewals : q # r => ren'[q] = ren[q]
        /\ \A q \in Renewals : InFlight(q)' <=> InFlight(q)
        /\ \A q \in Renewals : ren'[q].alone = ren[q].alone
    BY <1>1, CallReturned
  <1>3. InFlight(r) BY <1>1 DEF InFlight
  <1>4. lease.st # "none" /\ ren[r].expire \in 1 .. lease.issue + lease.max + Grace
    BY <1>3 DEF LeaseInv, RenewalsBounded
  <1>5. LeaseBounded' /\ PrivilegesFrozen' /\ user'.st = user.st /\ user'.expire = ren[r].expire
    BY <1>1, <1>4, UpdateUserBound
  <1>6. AloneIsAlone' BY <1>1, <1>2 DEF LeaseInv, AloneIsAlone
  <1>7. InStep'
    <2>1. ASSUME NEW q \in Renewals, ren'[q].pc = "check", ren'[q].alone PROVE q = r
      BY <1>2, <1>3, <2>1 DEF LeaseInv, AloneIsAlone, InFlight
    <2> QED BY <1>1, <1>2, <1>5, <2>1 DEF LeaseInv, InStep
  <1> QED BY <1>2, <1>5, <1>6, <1>7 DEF Rest

\* A renewal has left flight: the bounds of the others are what they were.
LEMMA OthersKept ==
  ASSUME LeaseInv, NEW r \in Renewals, End(r)
  PROVE  /\ ~InFlight(r)'
         /\ \A q \in Renewals : InFlight(q)' => q # r /\ InFlight(q) /\ ren'[q] = ren[q]
  <1>1. ren \in [Renewals -> RenewalRecs] BY DEF LeaseInv, TypeOK
  <1>2. ren'[r].pc = "idle" /\ \A q \in Renewals : q # r => ren'[q] = ren[q]
    BY <1>1 DEF End, NoRenewal
  <1> QED BY <1>2 DEF InFlight

\* A renewal that has failed after UpdateUser, or given up on it, leaves the
\* bounds alone.
LEMMA RenewTornStep ==
  ASSUME LeaseInv, NEW r \in Renewals, End(r), InFlight(r), torn' = TRUE,
         UNCHANGED <<now, sys, lease>>, LeaseBounded', PrivilegesFrozen',
         late' \in {late, late \cup {ren[r].expire}}
  PROVE  Rest'
  <1>1. /\ ~InFlight(r)'
        /\ \A q \in Renewals : InFlight(q)' => q # r /\ InFlight(q) /\ ren'[q] = ren[q]
    BY OthersKept
  <1>2. RenewalsBounded' BY <1>1 DEF LeaseInv, RenewalsBounded, CallTime
  <1>3. AloneIsAlone'
    <2>1. \A q \in Renewals : InFlight(q)' => ~ren'[q].alone
      BY <1>1 DEF LeaseInv, AloneIsAlone
    <2> QED BY <2>1 DEF AloneIsAlone
  <1>4. InStep'
    <2>1. \A q \in Renewals : ren'[q].pc = "check" => ~ren'[q].alone
      BY <1>1 DEF LeaseInv, AloneIsAlone, InFlight
    <2> QED BY <2>1 DEF InStep
  <1> QED BY <1>2, <1>3, <1>4 DEF Rest

LEMMA RenewUpdateUserErrStep ==
  ASSUME LeaseInv, NEW r \in Renewals, RenewUpdateUserErr(r)
  PROVE  Rest'
  <1>1. ren[r].pc = "put" /\ End(r) /\ UNCHANGED <<now, sys, lease, late>> /\ InFlight(r)
    BY DEF RenewUpdateUserErr, InFlight
  <1>2. CASE user' = user /\ torn' = torn
    BY <1>1, <1>2, RenewEndStep
  <1>3. CASE UpdateUser(ren[r].expire, lease.group) /\ torn' = TRUE
    <2>1. lease.st # "none" /\ ren[r].expire \in 1 .. lease.issue + lease.max + Grace
      BY <1>1 DEF LeaseInv, RenewalsBounded
    <2>2. LeaseBounded' /\ PrivilegesFrozen' BY <1>1, <1>3, <2>1, UpdateUserBound
    <2> QED BY <1>1, <1>3, <2>2, RenewTornStep
  <1> QED BY <1>2, <1>3 DEF RenewUpdateUserErr

LEMMA RenewUpdateUserTimeoutStep ==
  ASSUME LeaseInv, NEW r \in Renewals, RenewUpdateUserTimeout(r)
  PROVE  Rest'
  <1>1. /\ ren[r].pc = "put" /\ End(r) /\ UNCHANGED <<now, sys, lease, user>> /\ InFlight(r)
        /\ late' = late \cup {ren[r].expire} /\ torn' = TRUE
    BY DEF RenewUpdateUserTimeout, InFlight
  <1>2. lease.st # "none" /\ ren[r].expire \in 1 .. lease.issue + lease.max + Grace
    BY <1>1 DEF LeaseInv, RenewalsBounded
  <1>3. LeaseBounded' BY <1>1, <1>2 DEF LeaseInv, LeaseBounded, GraceSuffices
  <1>4. PrivilegesFrozen' BY <1>1 DEF LeaseInv, PrivilegesFrozen
  <1> QED BY <1>1, <1>3, <1>4, RenewTornStep

LEMMA RenewReadBackErrStep ==
  ASSUME LeaseInv, NEW r \in Renewals, RenewReadBackErr(r)
  PROVE  Rest'
  <1>1. ren[r].pc = "check" /\ End(r) /\ UNCHANGED <<now, sys, lease, user, late>> /\ InFlight(r)
        /\ torn' = TRUE
    BY DEF RenewReadBackErr, InFlight
  <1>2. LeaseBounded' BY <1>1 DEF LeaseInv, LeaseBounded, GraceSuffices
  <1>3. PrivilegesFrozen' BY <1>1 DEF LeaseInv, PrivilegesFrozen
  <1> QED BY <1>1, <1>2, <1>3, RenewTornStep

\* A completed renewal: the lease ends within the ceiling and, if the grace
\* covers the three calls, not after the expiry it records.
LEMMA RenewReadBackOkStep ==
  ASSUME LeaseInv, NEW r \in Renewals, RenewReadBackOk(r)
  PROVE  Rest'
  <1> USE DurationAssumption, SettingAssumption
  <1> DEFINE ttl == CalculateTTL(sys, 0, ren[r].ttl, lease.max, lease.issue, now)
  <1>1. /\ sys \in [default : Nat \ {0}, max : Nat \ {0}] /\ now \in Nat
        /\ lease \in Leases /\ ren[r] \in RenewalRecs /\ ren[r].spent <= CallTimeout
    BY DEF LeaseInv, TypeOK
  <1>2. /\ ren[r].pc = "check" /\ lease.st = "active" /\ user.st = "present" /\ ttl > 0
        /\ lease' = [lease EXCEPT !.ttl = ttl, !.end = now + ttl, !.expire = ren[r].expire]
        /\ torn' = ~ren[r].alone /\ End(r) /\ UNCHANGED <<now, sys, user, late>>
    BY DEF RenewReadBackOk
  <1>3. InFlight(r) BY <1>2 DEF InFlight
  <1>4. /\ ren[r].expire \in 1 .. lease.issue + lease.max + Grace
        /\ ren[r].ttl > 0
        /\ now + ren[r].ttl + Grace <= ren[r].expire + 2 * CallTimeout + ren[r].spent
    BY <1>2, <1>3 DEF LeaseInv, RenewalsBounded, CallTime
  <1>5. lease.max \in Nat /\ lease.max > 0 /\ lease.issue \in Nat
        /\ ren[r].ttl \in Nat /\ ren[r].expire \in Nat /\ ren[r].spent \in Nat
    BY <1>1, <1>2 DEF LeaseInv, LeaseBounded, Leases, RenewalRecs
  <1>6. ttl \in Nat /\ now + ttl <= lease.issue + lease.max /\ ttl <= ren[r].ttl
    <2>1. /\ ttl \in Nat /\ (ttl > 0 /\ lease.max > 0 => now + ttl <= lease.issue + lease.max)
          /\ (0 = 0 /\ ren[r].ttl > 0 => ttl <= ren[r].ttl)
      BY <1>1, <1>5, CalculateTTLBound
    <2> QED BY <1>2, <1>4, <1>5, <2>1
  <1> HIDE DEF ttl
  <1>7. /\ lease'.st = "active" /\ lease'.max = lease.max /\ lease'.issue = lease.issue
        /\ lease'.ceiling = lease.ceiling /\ lease'.group = lease.group
        /\ lease'.end = now + ttl /\ lease'.expire = ren[r].expire
    <2>1. lease \in Leases /\ ttl \in Nat /\ now + ttl \in Nat /\ ren[r].expire \in Nat
      BY <1>1, <1>5, <1>6
    <2> DEFINE e == now + ttl
               x == ren[r].expire
               n == Extended(lease, ttl, e, x)
    <2>2. lease' = n /\ lease.st = "active" BY <1>2 DEF Extended
    <2>3. e \in Nat /\ x \in Nat BY <2>1
    <2> HIDE DEF e, x
    <2>4. /\ n.end = e /\ n.expire = x
          /\ n.st = lease.st /\ n.max = lease.max /\ n.issue = lease.issue
          /\ n.ceiling = lease.ceiling /\ n.group = lease.group
      BY <2>1, <2>3 DEF Extended, Leases
    <2> HIDE DEF n
    <2> QED BY <2>2, <2>4 DEF e, x
  <1>8. /\ ~InFlight(r)'
        /\ \A q \in Renewals : InFlight(q)' => q # r /\ InFlight(q) /\ ren'[q] = ren[q]
    BY <1>2, OthersKept
  <1>9. GraceSuffices => now + ttl <= ren[r].expire
    BY <1>1, <1>4, <1>5, <1>6 DEF GraceSuffices
  <1>10. LeaseBounded'
    BY <1>2, <1>6, <1>7, <1>9 DEF LeaseInv, LeaseBounded, GraceSuffices
  <1>11. RenewalsBounded' BY <1>2, <1>7, <1>8 DEF LeaseInv, RenewalsBounded, CallTime
  <1>12. AloneIsAlone' BY <1>2, <1>8 DEF LeaseInv, AloneIsAlone
  <1>13. InStep'
    <2>1. CASE ren[r].alone
      <3>1. late = {} /\ \A q \in Renewals : q # r => ~InFlight(q)
        BY <1>3, <2>1 DEF LeaseInv, AloneIsAlone
      <3>2. \A q \in Renewals : ren'[q].pc # "check" BY <1>8, <3>1 DEF InFlight
      <3>3. user.expire = ren[r].expire BY <1>2, <2>1 DEF LeaseInv, InStep
      <3> QED BY <1>2, <1>7, <3>1, <3>2, <3>3 DEF InStep
    <2>2. CASE ~ren[r].alone
      <3>1. \A q \in Renewals : ren'[q].pc = "check" => ren[q].pc = "check" /\ ren'[q] = ren[q]
        BY <1>8 DEF InFlight
      <3> QED BY <1>2, <2>2, <3>1 DEF LeaseInv, InStep
    <2> QED BY <2>1, <2>2
  <1>14. PrivilegesFrozen' BY <1>2, <1>7 DEF LeaseInv, PrivilegesFrozen
  <1> QED BY <1>10, <1>11, <1>12, <1>13, <1>14 DEF Rest

\* Revocation, an operator, or a late call changes the user alone.
LEMMA UserOnlyStep ==
  ASSUME LeaseInv, UNCHANGED <<now, sys, ren, torn>>, lease.st # "none",
         lease'.st \in {lease.st, "revoked"}, lease'.st = "revoked" => user'.st = "gone",
         lease' = [lease EXCEPT !.st = lease'.st],
         user'.st \in {user.st, "gone"}, user.st # "present" => user'.st # "present",
         user'.groups \subseteq {lease.group},
         late' \subseteq late,
         user'.expire \in 1 .. lease.issue + lease.max + Grace,
         late' = late => user'.expire = user.expire
  PROVE  Rest'
  <1>1. lease \in Leases BY DEF LeaseInv, TypeOK
  <1>2. /\ lease'.max = lease.max /\ lease'.issue = lease.issue /\ lease'.end = lease.end
        /\ lease'.ceiling = lease.ceiling /\ lease'.group = lease.group
        /\ lease'.expire = lease.expire
    BY <1>1 DEF Leases
  <1>3. LeaseBounded'
    <2>1. lease'.st = "revoked" => user'.st = "gone" OBVIOUS
    <2>2. user'.st # "none" BY DEF LeaseInv, LeaseBounded
    <2>3. lease'.st # "none" BY DEF LeaseInv
    <2>4. GraceSuffices => lease'.end <= lease'.expire
      BY <1>2 DEF LeaseInv, LeaseBounded
    <2> QED BY <1>2, <2>1, <2>2, <2>3, <2>4 DEF LeaseInv, LeaseBounded, GraceSuffices
  <1>4. RenewalsBounded' BY <1>2, <1>3 DEF LeaseInv, RenewalsBounded, CallTime, LeaseBounded, InFlight
  <1>5. AloneIsAlone' BY DEF LeaseInv, AloneIsAlone, InFlight
  <1>6. InStep'
    <2>1. CASE late' = late BY <1>2, <2>1 DEF LeaseInv, InStep
    <2>2. CASE late' # late
      <3>1. late # {} BY <2>2
      <3>2. \A q \in Renewals : ren'[q].pc = "check" => ~ren'[q].alone
        BY <3>1 DEF LeaseInv, AloneIsAlone, InFlight
      <3>3. user'.st = "present" /\ lease'.st = "active" => torn
        BY <3>1 DEF LeaseInv, InStep
      <3> QED BY <3>2, <3>3 DEF InStep
    <2> QED BY <2>1, <2>2
  <1>7. PrivilegesFrozen' BY <1>2 DEF PrivilegesFrozen
  <1> QED BY <1>3, <1>4, <1>5, <1>6, <1>7 DEF Rest

\* Time passes: a call in flight has taken one unit more.
LEMMA TickStep ==
  ASSUME LeaseInv, Tick
  PROVE  Rest'
  <1> USE DurationAssumption
  <1>1. now' = now + 1 /\ UNCHANGED <<sys, lease, user, late, torn>> /\ lease.st = "active"
    BY DEF Tick
  <1>2. now \in Nat /\ ren \in [Renewals -> RenewalRecs] /\ lease \in Leases
    BY DEF LeaseInv, TypeOK
  <1>3. ASSUME NEW q \in Renewals
        PROVE /\ ren'[q].pc = ren[q].pc /\ ren'[q].ttl = ren[q].ttl
              /\ ren'[q].expire = ren[q].expire /\ ren'[q].alone = ren[q].alone
              /\ InFlight(q) => ren'[q].spent = ren[q].spent + 1
              /\ InFlight(q)' <=> InFlight(q)
    <2>1. ren[q] \in RenewalRecs BY <1>2
    <2> QED BY <2>1 DEF Tick, InFlight, RenewalRecs
  <1>4. LeaseBounded'
    BY <1>1, <1>2 DEF LeaseInv, LeaseBounded, GraceSuffices, Leases
  <1>5. RenewalsBounded'
    <2> SUFFICES ASSUME NEW q \in Renewals, InFlight(q)'
                 PROVE (/\ lease.st # "none"
                        /\ ren[q].ttl > 0
                        /\ ren[q].expire \in 1 .. lease.issue + lease.max + Grace
                        /\ now + ren[q].ttl + Grace
                             <= ren[q].expire + CallTime(ren[q].pc) + ren[q].spent)'
      BY DEF RenewalsBounded
    <2>1. /\ ren[q].ttl > 0
          /\ ren[q].expire \in 1 .. lease.issue + lease.max + Grace
          /\ now + ren[q].ttl + Grace <= ren[q].expire + CallTime(ren[q].pc) + ren[q].spent
      BY <1>3 DEF LeaseInv, RenewalsBounded
    <2>2. ren[q].ttl \in Nat /\ ren[q].expire \in Nat /\ ren[q].spent \in Nat
      BY <1>2 DEF RenewalRecs
    <2>3. CallTime(ren[q].pc) \in Nat BY DEF CallTime
    <2>4. (now + ren[q].ttl + Grace <= ren[q].expire + CallTime(ren[q].pc) + ren[q].spent)'
      <3>1. CallTime(ren'[q].pc) = CallTime(ren[q].pc) BY <1>3
      <3> QED BY <1>1, <1>2, <1>3, <2>1, <2>2, <2>3, <3>1
    <2> QED BY <1>1, <1>3, <2>1, <2>4
  <1>6. AloneIsAlone' BY <1>1, <1>3 DEF LeaseInv, AloneIsAlone
  <1>7. InStep' BY <1>1, <1>3 DEF LeaseInv, InStep
  <1> QED BY <1>1, <1>4, <1>5, <1>6, <1>7 DEF Rest, LeaseInv, PrivilegesFrozen

\* Every step keeps the invariant.
LEMMA LeaseInvStep == LeaseInv /\ [Next]_vars => LeaseInv'
  <1> SUFFICES ASSUME LeaseInv, [Next]_vars PROVE LeaseInv'
    OBVIOUS
  <1>t. TypeOK' BY LeaseTypeStep DEF LeaseInv
  <1>u. user \in UserRecs /\ lease \in Leases BY DEF LeaseInv, TypeOK
  <1>b. /\ lease.st # "none" => user.expire \in 1 .. lease.issue + lease.max + Grace
        /\ lease.st = "none" => user.st = "none" /\ late = {}
        /\ lease.st = "revoked" => user.st = "gone"
        /\ user.groups \subseteq {lease.group}
    BY DEF LeaseInv, LeaseBounded, PrivilegesFrozen
  <1> SUFFICES Rest' BY <1>t DEF LeaseInv, Rest
  <1>1. ASSUME NEW role \in Roles, NEW cfg \in Configs, NEW delay \in 0 .. IssueDelay,
               Issue(role, cfg, delay)
        PROVE Rest'
    BY <1>1, IssueStep
  <1>2. ASSUME NEW r \in Renewals, Renew(r) PROVE Rest'
    <2>1. ASSUME NEW role \in Roles \cup {NoRole}, NEW cfg \in Configs,
                 NEW increment \in Increments, RenewStart(r, role, cfg, increment)
          PROVE Rest'
      BY <2>1, RenewStartStep
    <2>2. CASE RenewGetUserOk(r) BY <2>2, RenewGetUserOkStep
    <2>3. CASE RenewGetUserErr(r) BY <2>3, RenewEndStep DEF RenewGetUserErr
    <2>4. CASE RenewUpdateUserOk(r) BY <2>4, RenewUpdateUserOkStep
    <2>5. CASE RenewUpdateUserErr(r) BY <2>5, RenewUpdateUserErrStep
    <2>6. CASE RenewUpdateUserTimeout(r) BY <2>6, RenewUpdateUserTimeoutStep
    <2>7. CASE RenewReadBackOk(r) BY <2>7, RenewReadBackOkStep
    <2>8. CASE RenewReadBackErr(r) BY <2>8, RenewReadBackErrStep
    <2> QED BY <1>2, <2>1, <2>2, <2>3, <2>4, <2>5, <2>6, <2>7, <2>8 DEF Renew
  <1>3. CASE RevokeOk
    <2>1. /\ lease.st = "active" /\ lease'.st = "revoked" /\ user'.st = "gone"
          /\ lease' = [lease EXCEPT !.st = lease'.st]
          /\ user'.expire = user.expire /\ user'.groups = user.groups
          /\ UNCHANGED <<now, sys, ren, torn>> /\ late' = late
      BY <1>3, <1>u DEF RevokeOk, Leases, UserRecs
    <2> QED BY <1>b, <2>1, UserOnlyStep
  <1>4. CASE RevokeErr
    <2>1. /\ lease.st = "active" /\ user'.st = "gone"
          /\ lease' = [lease EXCEPT !.st = lease'.st] /\ lease'.st = lease.st
          /\ user'.expire = user.expire /\ user'.groups = user.groups
          /\ UNCHANGED <<now, sys, ren, torn>> /\ late' = late
      BY <1>4, <1>u DEF RevokeErr, Leases, UserRecs
    <2> QED BY <1>b, <2>1, UserOnlyStep
  <1>5. ASSUME NEW e \in late, LateUpdate(e) PROVE Rest'
    <2>1. /\ lease.st # "none" /\ lease' = [lease EXCEPT !.st = lease'.st] /\ lease'.st = lease.st
          /\ UNCHANGED <<now, sys, ren, torn>> /\ late' \subseteq late /\ late' # late
      BY <1>5, <1>b, <1>u DEF LateUpdate, Leases
    <2>2. e \in 1 .. lease.issue + lease.max + Grace BY DEF LeaseInv, LeaseBounded
    <2>3. CASE user' = user BY <1>b, <2>1, <2>3, UserOnlyStep
    <2>4. CASE user.st = "present" /\ UpdateUser(e, lease.group)
      <3>1. /\ user'.st = user.st /\ user'.expire = e
            /\ user'.groups = user.groups \cup {lease.group}
        BY <1>u, <2>4 DEF UpdateUser, UserRecs
      <3> QED BY <1>b, <2>1, <2>2, <2>4, <3>1, UserOnlyStep
    <2> QED BY <1>5, <2>3, <2>4 DEF LateUpdate
  <1>6. CASE OperatorDisable \/ OperatorUngroup
    <2>1. /\ user.st = "present" /\ user'.st = user.st /\ user'.expire = user.expire
          /\ user'.groups \subseteq user.groups
          /\ lease' = [lease EXCEPT !.st = lease'.st] /\ lease'.st = lease.st
          /\ UNCHANGED <<now, sys, ren, torn>> /\ late' = late
      BY <1>6, <1>u DEF OperatorDisable, OperatorUngroup, UserRecs, Leases
    <2>2. lease.st # "none" /\ lease.st # "revoked" BY <1>b, <2>1
    <2> QED BY <1>b, <2>1, <2>2, UserOnlyStep
  <1>7. CASE Tick BY <1>7, TickStep
  <1>8. CASE UNCHANGED vars
    BY <1>8 DEF vars, Rest, LeaseInv, LeaseBounded, RenewalsBounded, AloneIsAlone, InStep,
         PrivilegesFrozen, InFlight, CallTime, GraceSuffices
  <1> QED BY <1>1, <1>2, <1>3, <1>4, <1>5, <1>6, <1>7, <1>8 DEF Next

-----------------------------------------------------------------------------
(* The theorems *)

\* The invariant of the lease holds throughout.
THEOREM LeaseInvariant == Spec => []LeaseInv
  BY LeaseInvInit, LeaseInvStep, PTL DEF Spec

\* Type correctness of the renewal model.
THEOREM LeaseTypeCorrect == Spec => []TypeOK
  <1>1. LeaseInv => TypeOK BY DEF LeaseInv
  <1> QED BY LeaseInvariant, <1>1, PTL

\* However often a credential is renewed, it ends with the ceiling in force when
\* it was issued, and PVE refuses it a grace period later.
THEOREM CeilingHolds == Spec => []BackstopWithinCeiling
  <1>1. LeaseInv => BackstopWithinCeiling
    BY DEF LeaseInv, LeaseBounded, BackstopWithinCeiling
  <1> QED BY LeaseInvariant, <1>1, PTL

\* Without failures half-way and overlaps, or after the next renewal that runs
\* alone, the backstop is the one the lease records and covers the lease.
THEOREM BackstopInStep == Spec => []BackstopFollowsLease
  <1>1. LeaseInv => BackstopFollowsLease
    <2> SUFFICES ASSUME LeaseInv, lease.st = "active", user.st = "present", ~torn,
                        \A r \in Renewals : ren[r].pc # "check"
                 PROVE user.expire = lease.expire /\ (GraceSuffices => lease.end <= user.expire)
      BY DEF BackstopFollowsLease
    <2>1. user.expire = lease.expire BY DEF LeaseInv, InStep
    <2> QED BY <2>1 DEF LeaseInv, LeaseBounded
  <1> QED BY LeaseInvariant, <1>1, PTL

\* A renewal never gives a credential a group its lease was not issued with.
THEOREM GroupsFrozen == Spec => []PrivilegesFrozen
  <1>1. LeaseInv => PrivilegesFrozen BY DEF LeaseInv
  <1> QED BY LeaseInvariant, <1>1, PTL

\* A disabled user with no renewal past its GetUser stays disabled.
THEOREM ContainmentIsFinal == Spec => ContainmentHolds
  <1>1. LeaseInv /\ [Next]_vars => [Contained => Contained']_vars
    <2> SUFFICES ASSUME LeaseInv, Next, Contained PROVE Contained'
      OBVIOUS
    <2>u. user \in UserRecs /\ ren \in [Renewals -> RenewalRecs] BY DEF LeaseInv, TypeOK
    <2>n. lease.st # "none" BY DEF LeaseInv, LeaseBounded, Contained
    <2>1. ASSUME NEW r \in Renewals, Renew(r) PROVE Contained'
      <3>1. ASSUME NEW role \in Roles \cup {NoRole}, NEW cfg \in Configs,
                   NEW increment \in Increments, RenewStart(r, role, cfg, increment)
            PROVE Contained'
        <4>1. \A q \in Renewals : ren'[q].pc = "put" => ren[q].pc = "put"
          BY <2>u, <3>1 DEF RenewStart, RenewalRecs
        <4> QED BY <3>1, <4>1 DEF RenewStart, Contained
      <3>2. CASE RenewGetUserOk(r)
        BY <3>2 DEF RenewGetUserOk, Contained
      <3>3. ASSUME End(r), UNCHANGED <<user, late>> PROVE Contained'
        <4>1. \A q \in Renewals : ren'[q].pc = "put" => ren[q].pc = "put"
          BY <2>u, <3>3 DEF End, NoRenewal
        <4> QED BY <3>3, <4>1 DEF Contained
      <3>4. CASE RenewGetUserErr(r) BY <3>3, <3>4 DEF RenewGetUserErr
      <3>5. CASE RenewUpdateUserOk(r) BY <3>5 DEF RenewUpdateUserOk, Contained
      <3>6. CASE RenewUpdateUserErr(r)
        <4>1. user' = user BY <3>6 DEF RenewUpdateUserErr, Contained
        <4> QED BY <3>3, <3>6, <4>1 DEF RenewUpdateUserErr
      <3>7. CASE RenewUpdateUserTimeout(r)
        BY <3>7 DEF RenewUpdateUserTimeout, Contained
      <3>8. CASE RenewReadBackOk(r) BY <3>3, <3>8 DEF RenewReadBackOk
      <3>9. CASE RenewReadBackErr(r) BY <3>3, <3>9 DEF RenewReadBackErr
      <3> QED BY <2>1, <3>1, <3>2, <3>4, <3>5, <3>6, <3>7, <3>8, <3>9 DEF Renew
    <2>2. CASE RevokeOk BY <2>2, <2>u DEF RevokeOk, Contained, UserRecs
    <2>3. CASE RevokeErr BY <2>3, <2>u DEF RevokeErr, Contained, UserRecs
    <2>4. ASSUME NEW e \in late, LateUpdate(e) PROVE Contained'
      BY <2>4 DEF LateUpdate, Contained
    <2>5. CASE OperatorDisable BY <2>5 DEF OperatorDisable, Contained
    <2>6. CASE OperatorUngroup BY <2>6, <2>u DEF OperatorUngroup, Contained, UserRecs
    <2>7. CASE Tick
      <3>1. \A q \in Renewals : ren'[q].pc = ren[q].pc
        BY <2>u, <2>7 DEF Tick, RenewalRecs
      <3> QED BY <2>7, <3>1 DEF Tick, Contained
    <2> QED BY <2>n, <2>1, <2>2, <2>3, <2>4, <2>5, <2>6, <2>7 DEF Next, Issue
  <1> QED BY LeaseInvariant, <1>1, PTL DEF Spec, ContainmentHolds
=============================================================================
