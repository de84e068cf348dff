----------------------------- MODULE RoleRules -----------------------------
(***************************************************************************)
(* What a role write computes, apart from storage and PVE: the merge of a  *)
(* request with the stored role, the validation of the result, and the     *)
(* userid that credentials of the role will have (src/path_roles.go,       *)
(* src/userid.go).  A string is a name of which only its length and its    *)
(* well-formedness matter; "" is the empty string.                         *)
(***************************************************************************)
EXTENDS Integers, Sequences

CONSTANTS Names,         \* names of roles
          Strings,       \* values of the string fields
          UserSafe,      \* the strings validateUserComponent accepts
          RealmSafe,     \* the strings validateRealmComponent accepts
          Length,        \* the length of a string
          Suffix,        \* what randomSuffix returns
          TTLs,          \* values of ttl and max_ttl
          Requests,      \* the bodies of the writes
          Omitted,       \* a field the request leaves out
          NoRole         \* no entry is stored

Modes == {"token", "password"}

ModeValues == Modes \cup {"", "other"}

\* Stored roles, and requests: a request may leave any field out.
Roles == [group : Strings, user_prefix : Strings, realm : Strings,
          ttl : TTLs, max_ttl : TTLs, mode : ModeValues]

AllRequests ==
  LET May(S) == S \cup {Omitted}
  IN  [group : May(Strings), user_prefix : May(Strings), realm : May(Strings),
       ttl : May(TTLs), max_ttl : May(TTLs), mode : May(ModeValues)]

EmptyRequest == [group |-> Omitted, user_prefix |-> Omitted, realm |-> Omitted,
                 ttl |-> Omitted, max_ttl |-> Omitted, mode |-> Omitted]

PVELimit == 64

ASSUME RulesAssumption ==
  /\ {"", "vault", "pve", "-", "@"} \cup Names \cup {Suffix} \subseteq Strings
  /\ Length \in [Strings -> Nat]
  /\ Length["-"] = 1 /\ Length["@"] = 1 /\ Length[Suffix] = 8
  /\ "" \notin UserSafe \cup RealmSafe
  /\ TTLs \subseteq Int /\ 0 \in TTLs
  /\ Omitted \notin Strings /\ Omitted \notin TTLs /\ Omitted \notin ModeValues
  /\ NoRole \notin Roles
  /\ Requests \subseteq AllRequests

-----------------------------------------------------------------------------
(* The request and the stored role *)

\* The schema's defaults, which a create takes for what the request omits.
Defaults == [group |-> "", user_prefix |-> "vault", realm |-> "pve",
             ttl |-> 0, max_ttl |-> 0, mode |-> "token"]

\* getRole: an entry written before the mode existed is a token role.
Decoded(stored) ==
  IF stored # NoRole /\ stored.mode = "" THEN [stored EXCEPT !.mode = "token"] ELSE stored

\* Every field is the request's, else the stored role's, else the default; an
\* empty mode, realm or prefix then stands for its default.
Merge(req, existing) ==
  LET base == IF existing # NoRole THEN existing ELSE Defaults
      Pick(asked, kept) == IF asked # Omitted THEN asked ELSE kept
      Fill(value, default) == IF value = "" THEN default ELSE value
  IN  [group       |-> Pick(req.group, base.group),
       user_prefix |-> Fill(Pick(req.user_prefix, base.user_prefix), "vault"),
       realm       |-> Fill(Pick(req.realm, base.realm), "pve"),
       ttl         |-> Pick(req.ttl, base.ttl),
       max_ttl     |-> Pick(req.max_ttl, base.max_ttl),
       mode        |-> Fill(Pick(req.mode, base.mode), "token")]

-----------------------------------------------------------------------------
(* The userid and its length *)

\* {prefix}-{role}-{random}@{realm}
buildUserID(prefix, name, suffix, realm) ==
  <<prefix, "-", name, "-", suffix, "@", realm>>

\* Mutation: the budget forgets the '@'.
validateLengthBudget_NoAt(prefix, name, realm) ==
  Length[prefix] + 1 + Length[name] + 1 + 8 + Length[realm] <= PVELimit

validateLengthBudget(prefix, name, realm) ==
  Length[prefix] + 1 + Length[name] + 1 + 8 + 1 + Length[realm] <= PVELimit

-----------------------------------------------------------------------------
(* Validation of the merged role *)

Valid(name, r) ==
  /\ r.group # ""
  /\ r.ttl >= 0 /\ r.max_ttl >= 0
  /\ r.ttl > 0 /\ r.max_ttl > 0 => r.ttl <= r.max_ttl
  /\ r.mode \in Modes
  /\ r.realm \in RealmSafe
  /\ r.mode = "password" => r.realm = "pve"
  /\ r.user_prefix \in UserSafe
  /\ name \in UserSafe
  /\ validateLengthBudget(r.user_prefix, name, r.realm)

\* Mutation: only a create is taken for an opt-in.
OptingIn_OnlyOnCreate(existing, r) == r.mode = "password" /\ existing = NoRole

\* The write turns the role into a password role.
OptingIn(existing, r) ==
  r.mode = "password" /\ (existing = NoRole \/ existing.mode # "password")

-----------------------------------------------------------------------------
(***************************************************************************)
(* What a credential of the role needs, whatever validation computed: the  *)
(* userid fits PVE's limit and has one '@', one realm and no reserved      *)
(* character; a password only in the realm it is known to work in; a TTL   *)
(* that the role's own maximum does not cut.                               *)
(***************************************************************************)
UseridLength(id) ==
  Length[id[1]] + Length[id[2]] + Length[id[3]] + Length[id[4]]
    + Length[id[5]] + Length[id[6]] + Length[id[7]]

Usable(name, stored) ==
  LET id == buildUserID(stored.user_prefix, name, Suffix, stored.realm)
  IN  /\ UseridLength(id) <= PVELimit
      /\ id[1] \in UserSafe /\ id[3] \in UserSafe /\ id[7] \in RealmSafe
      /\ stored.group # ""
      /\ stored.mode = "password" => stored.realm = "pve"
      /\ stored.ttl = 0 \/ stored.max_ttl = 0 \/ stored.ttl \in 1..stored.max_ttl
=============================================================================
