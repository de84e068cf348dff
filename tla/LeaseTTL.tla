------------------------------ MODULE LeaseTTL ------------------------------
(***************************************************************************)
(* The durations a lease is computed from.  Zero means "not set" in every  *)
(* one of them, so that a plain minimum would turn an absent limit into a  *)
(* limit of no time at all.                                                *)
(***************************************************************************)
EXTENDS Naturals

Smaller(a, b) == IF a < b THEN a ELSE b

-----------------------------------------------------------------------------
(* Mutations *)

\* The plain minimum: an unset role maximum makes the ceiling zero.
cappedMaxTTL_PlainMin(roleMax, sysMax) == Smaller(roleMax, sysMax)

-----------------------------------------------------------------------------
\* The config's defaults stand in for what the role leaves unset; they cap
\* nothing.
ttls(role, cfg) ==
  [ttl |-> IF role.ttl = 0 THEN cfg.ttl ELSE role.ttl,
   max |-> IF role.max = 0 THEN cfg.max ELSE role.max]

\* The ceiling that goes into the lease.
cappedMaxTTL(roleMax, sysMax) ==
  IF roleMax = 0 THEN sysMax
  ELSE IF sysMax = 0 THEN roleMax ELSE Smaller(roleMax, sysMax)

\* framework.CalculateTTL as the engine calls it, without a period and without
\* an explicit maximum: the time from now on that is granted, or 0 where it
\* returns an error (no maximum, or the maximum is used up).
CalculateTTL(sys, increment, backendTTL, backendMax, start, now) ==
  LET max == IF backendMax > 0 /\ backendMax < sys.max THEN backendMax ELSE sys.max
      asked == IF increment > 0 THEN increment
               ELSE IF backendTTL > 0 THEN backendTTL ELSE sys.default
  IN IF start + max <= now THEN 0 ELSE Smaller(asked, start + max - now)

-----------------------------------------------------------------------------
\* Stated independently: the ceiling of a lease is the least of the limits that
\* are set, where the role's own maximum goes before the config's default.
Ceiling(role, cfg, sys) ==
  LET set == {m \in {IF role.max > 0 THEN role.max ELSE cfg.max, sys.max} : m > 0}
  IN CHOOSE m \in set : \A n \in set : m <= n
=============================================================================
