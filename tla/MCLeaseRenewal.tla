--------------------------- MODULE MCLeaseRenewal ---------------------------
(* LeaseRenewal with small durations: set and unset TTLs and maxima, a role  *)
(* that may change its group, increments below and beyond what is left.      *)
EXTENDS LeaseRenewal, TLC

CONSTANTS g1, g2

MCGroups == {g1, g2}
MCRoles == {[ttl |-> 0, max |-> 0, group |-> g1],
            [ttl |-> 2, max |-> 2, group |-> g2]}
MCConfigs == {[ttl |-> 0, max |-> 0], [ttl |-> 1, max |-> 1]}
MCSystems == {[default |-> 2, max |-> 3]}
\* A lease long enough to be shortened by more than the grace.
MCLongSystems == {[default |-> 5, max |-> 6]}
RenewalSymmetry == Permutations(Renewals)
=============================================================================
