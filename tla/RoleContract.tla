---------------------------- MODULE RoleContract ----------------------------
(***************************************************************************)
(* What the role store promises its clients, with no lock and no call to   *)
(* PVE: every write and delete takes effect at one instant between its     *)
(* call and its answer, and a write merges with the role as it is at that  *)
(* instant.  An answer of success means that it did; after an error the    *)
(* change is there as a whole or not at all.                               *)
(***************************************************************************)
EXTENDS RoleRules

CONSTANTS Threads,        \* requests in flight
          InitialRoles    \* what may be stored at first

VARIABLES roles, op

contractVars == <<roles, op>>

Quiet == [st |-> "idle", kind |-> "none", name |-> "none", req |-> EmptyRequest, ok |-> FALSE]

ContractInit ==
  /\ roles \in [Names -> InitialRoles]
  /\ op = [t \in Threads |-> Quiet]

\* A client asks for a write of the role, or for its deletion.
Ask(t, kind, name, req) ==
  /\ op[t].st = "idle"
  /\ op' = [op EXCEPT ![t] =
              [st |-> "asked", kind |-> kind, name |-> name, req |-> req, ok |-> FALSE]]
  /\ UNCHANGED roles

\* What the operation makes of the role that is stored.
Effect(kind, req, stored) ==
  IF kind = "delete" THEN NoRole ELSE Merge(req, Decoded(stored))

\* The operation with its answer on the way.
Answered(o, ok) ==
  [st |-> "answer", kind |-> o.kind, name |-> o.name, req |-> o.req, ok |-> ok]

\* The operation takes effect; its answer may still be an error.
Apply(t, ok) ==
  LET o == op[t] IN
  /\ o.st = "asked"
  /\ roles' = [roles EXCEPT ![o.name] = Effect(o.kind, o.req, roles[o.name])]
  /\ o.kind = "write" => Valid(o.name, roles'[o.name])
  /\ op' = [op EXCEPT ![t] = Answered(o, ok)]

\* The operation is refused or fails without effect.
Refuse(t) ==
  /\ op[t].st = "asked"
  /\ op' = [op EXCEPT ![t] = Answered(op[t], FALSE)]
  /\ UNCHANGED roles

Answer(t) ==
  /\ op[t].st = "answer"
  /\ op' = [op EXCEPT ![t] = Quiet]
  /\ UNCHANGED roles

ContractNext ==
  \E t \in Threads :
    \/ \E name \in Names, req \in Requests : Ask(t, "write", name, req)
    \/ \E name \in Names : Ask(t, "delete", name, EmptyRequest)
    \/ \E ok \in BOOLEAN : Apply(t, ok)
    \/ Refuse(t)
    \/ Answer(t)

ContractSpec == ContractInit /\ [][ContractNext]_contractVars
=============================================================================
