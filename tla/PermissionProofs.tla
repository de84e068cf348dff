-------------------------- MODULE PermissionProofs --------------------------
(***************************************************************************)
(* Proof that the walk of HasPrivilege decides what PVE means by its tree, *)
(* for every tree, path and privilege.                                     *)
(*                                                                         *)
(* The walk is a recursive function.  What it computes follows from the    *)
(* well-foundedness of < : the lowest level at which the walk says yes has *)
(* a grant of its own, and the lowest level above a grant at which it says *)
(* no does not exist.                                                      *)
(***************************************************************************)
EXTENDS Permissions, WellFoundedInduction, TLAPS

\* A non-empty set of natural numbers has a least element.
LEMMA LeastElement ==
  ASSUME NEW S \in SUBSET Nat, S # {}
  PROVE  \E m \in S : \A n \in S : m <= n
  <1> DEFINE R == {ss \in Nat \X Nat : ss[1] < ss[2]}
  <1>1. IsWellFoundedOn(R, Nat)
    BY NatLessThanWellFounded DEF OpToRel
  <1>2. PICK m \in S : \A n \in S : <<n, m>> \notin R
    <2> HIDE DEF R
    <2> QED
      BY <1>1, WFMin
  <1>3. \A n \in S : ~(n < m)
    BY <1>2
  <1> QED
    BY <1>3

\* The walk is well defined: there is a function that satisfies its equation.
LEMMA WalkDefined ==
  ASSUME NEW tree, NEW path, NEW priv, Len(path) \in Nat
  PROVE  \E walk : /\ HasPrivilege(tree, path, priv) <=> walk[Len(path)]
                  /\ \A len \in 0..Len(path) : walk[len]
                       <=> Decides(tree, path, priv, len) \/ (len > 0 /\ walk[len - 1])
  <1> DEFINE Eq(f) == f = [len \in 0..Len(path) |->
                       Decides(tree, path, priv, len) \/ (len > 0 /\ f[len - 1])]
             found == [len \in 0..Len(path) |->
                       \E k \in 0..len : Decides(tree, path, priv, k)]
             walk == CHOOSE f : Eq(f)
  <1>1. Eq(found)
    <2>1. ASSUME NEW len \in 0..Len(path)
          PROVE  (\E k \in 0..len : Decides(tree, path, priv, k))
                   = (Decides(tree, path, priv, len) \/ (len > 0 /\ found[len - 1]))
      <3>1. len > 0 => (found[len - 1] <=> \E k \in 0..(len - 1) : Decides(tree, path, priv, k))
        OBVIOUS
      <3>2. \A k \in 0..len : k = len \/ (len > 0 /\ k \in 0..(len - 1))
        OBVIOUS
      <3>3. len > 0 => 0..(len - 1) \subseteq 0..len
        OBVIOUS
      <3> QED
        BY <3>1, <3>2, <3>3
    <2> QED
      BY <2>1
  <1>2. HasPrivilege(tree, path, priv) <=> walk[Len(path)]
    BY DEF HasPrivilege
  <1>3. Eq(walk)
    <2> HIDE DEF Eq
    <2> QED
      BY <1>1
  <1>4. \A len \in 0..Len(path) : walk[len]
          <=> Decides(tree, path, priv, len) \/ (len > 0 /\ walk[len - 1])
    <2> HIDE DEF walk
    <2> QED
      BY <1>3
  <1> HIDE DEF walk
  <1> QED
    BY <1>2, <1>4

\* A walk down from level N says yes exactly when some level decides.
LEMMA SomeLevelDecides ==
  ASSUME NEW N \in Nat, NEW walk, NEW Deciding,
         \A len \in 0..N : walk[len] <=> len \in Deciding \/ (len > 0 /\ walk[len - 1])
  PROVE  walk[N] <=> \E len \in 0..N : len \in Deciding
  <1>1. ASSUME walk[N]
        PROVE  \E len \in 0..N : len \in Deciding
    <2> DEFINE S == {len \in 0..N : walk[len]}
    <2>1. S \subseteq Nat /\ N \in S
      BY <1>1
    <2>2. PICK m \in S : \A n \in S : m <= n
      <3> HIDE DEF S
      <3> QED
        BY <2>1, LeastElement
    <2>3. ~(m > 0 /\ walk[m - 1])
      BY <2>2
    <2> QED
      BY <2>2, <2>3
  <1>2. ASSUME NEW k \in 0..N, k \in Deciding
        PROVE  walk[N]
    <2> DEFINE S == {len \in k..N : ~walk[len]}
    <2>1. SUFFICES ASSUME S # {} PROVE FALSE
      OBVIOUS
    <2>2. S \subseteq Nat
      OBVIOUS
    <2>3. PICK m \in S : \A n \in S : m <= n
      <3> HIDE DEF S
      <3> QED
        BY <2>1, <2>2, LeastElement
    <2>4. m # k
      BY <1>2, <2>3
    <2>5. m - 1 \in k..N /\ m - 1 \notin S
      BY <2>3, <2>4
    <2> QED
      BY <2>3, <2>5
  <1> QED
    BY <1>1, <1>2

LEMMA WalkFinds ==
  ASSUME NEW tree, NEW path, NEW priv, Len(path) \in Nat
  PROVE  HasPrivilege(tree, path, priv)
           <=> \E len \in 0..Len(path) : Decides(tree, path, priv, len)
  <1> DEFINE Deciding == {len \in 0..Len(path) : Decides(tree, path, priv, len)}
  <1>1. PICK walk : /\ HasPrivilege(tree, path, priv) <=> walk[Len(path)]
                    /\ \A len \in 0..Len(path) : walk[len]
                         <=> Decides(tree, path, priv, len) \/ (len > 0 /\ walk[len - 1])
    BY WalkDefined
  <1>2. \A len \in 0..Len(path) : walk[len] <=> len \in Deciding \/ (len > 0 /\ walk[len - 1])
    BY <1>1
  <1> HIDE DEF Deciding
  <1>3. walk[Len(path)] <=> \E len \in 0..Len(path) : len \in Deciding
    BY <1>2, SomeLevelDecides
  <1> QED
    BY <1>1, <1>3 DEF Deciding

\* The levels below the last are those of the paths above.
LEMMA LastLevel ==
  ASSUME NEW N \in Nat
  PROVE  \A len \in 0..N : len = N \/ len \in 0..(N - 1)
  OBVIOUS

\* HasPrivilege says yes exactly when PVE's tree grants the privilege at the
\* path, or above it with propagation: for every tree, path and privilege.
THEOREM WalkIsRight ==
  ASSUME NEW tree, NEW Component, NEW path \in Seq(Component), NEW priv
  PROVE  HasPrivilege(tree, path, priv) <=> Effective(tree, path, priv)
  <1>1. Len(path) \in Nat /\ SubSeq(path, 1, Len(path)) = path
    OBVIOUS
  <1>2. ASSUME NEW len \in 0..Len(path), Decides(tree, path, priv, len)
        PROVE  Effective(tree, path, priv)
    <2>1. len = Len(path) \/ len \in 0..(Len(path) - 1)
      BY <1>1, LastLevel
    <2>2. PICK g \in tree : /\ g.priv = priv /\ g.path = SubSeq(path, 1, len)
                            /\ len = Len(path) \/ g.propagate
      BY <1>2 DEF Decides
    <2>3. g.path = path \/ (g.propagate /\ g.path \in Above(path))
      <3>1. CASE len = Len(path)
        BY <1>1, <2>2, <3>1
      <3>2. CASE len # Len(path)
        BY <2>1, <2>2, <3>2 DEF Above
      <3> QED
        BY <3>1, <3>2
    <2> QED
      BY <2>2, <2>3 DEF Effective
  <1>3. ASSUME NEW g \in tree, g.priv = priv,
               g.path = path \/ (g.propagate /\ g.path \in Above(path))
        PROVE  \E len \in 0..Len(path) : Decides(tree, path, priv, len)
    <2>1. CASE g.path = path
      <3>1. Decides(tree, path, priv, Len(path))
        BY <1>1, <1>3, <2>1 DEF Decides
      <3>2. Len(path) \in 0..Len(path)
        BY <1>1, LastLevel
      <3> QED
        BY <3>1, <3>2
    <2>2. CASE g.propagate /\ g.path \in Above(path)
      <3>1. PICK len \in 0..(Len(path) - 1) : g.path = SubSeq(path, 1, len)
        BY <2>2 DEF Above
      <3>2. Decides(tree, path, priv, len)
        BY <1>3, <2>2, <3>1 DEF Decides
      <3>3. len \in 0..Len(path)
        BY <1>1, <3>1
      <3> QED
        BY <3>2, <3>3
    <2> QED
      BY <1>3, <2>1, <2>2
  <1> QED
    BY <1>1, <1>2, <1>3, WalkFinds DEF Effective
=============================================================================
