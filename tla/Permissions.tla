---------------------------- MODULE Permissions ----------------------------
(***************************************************************************)
(* The permission tree of GET /access/permissions and the walk that        *)
(* decides whether a privilege is effective at a path (src/internal/       *)
(* pveapi/types.go).  A path is the sequence of its components, the root   *)
(* "/" is << >>.  A tree is a set of grants; the tree of the code, a map,  *)
(* holds one propagate flag for each path and privilege.                   *)
(***************************************************************************)
EXTENDS Naturals, Sequences

\* One entry of the tree: privilege priv at path, passed on to the paths
\* below it or not.
Grant(path, priv, propagate) ==
  [path |-> path, priv |-> priv, propagate |-> propagate]

-----------------------------------------------------------------------------
(* Mutations *)

\* The walk accepts an ancestor's entry whatever its propagate flag.
HasPrivilege_AnyAncestor(tree, path, priv) ==
  \E g \in tree : /\ g.priv = priv
                  /\ Len(g.path) <= Len(path)
                  /\ g.path = SubSeq(path, 1, Len(g.path))

-----------------------------------------------------------------------------
(***************************************************************************)
(* HasPrivilege walks from the path to the root.  An entry at the path     *)
(* itself decides at once; an entry at an ancestor only when it            *)
(* propagates, and the walk goes on above one that does not.               *)
(***************************************************************************)
Decides(tree, path, priv, len) ==
  \E g \in tree : /\ g.priv = priv /\ g.path = SubSeq(path, 1, len)
                  /\ len = Len(path) \/ g.propagate

HasPrivilege(tree, path, priv) ==
  LET walk[len \in 0..Len(path)] ==
        Decides(tree, path, priv, len) \/ (len > 0 /\ walk[len - 1])
  IN  walk[Len(path)]

-----------------------------------------------------------------------------
(***************************************************************************)
(* What PVE means by the tree, without the walk: the privilege is granted  *)
(* at the path, or at a path above it by a grant that propagates.          *)
(***************************************************************************)
Above(path) == {SubSeq(path, 1, len) : len \in 0..(Len(path) - 1)}

Effective(tree, path, priv) ==
  \E g \in tree : /\ g.priv = priv
                  /\ g.path = path \/ (g.propagate /\ g.path \in Above(path))
=============================================================================
