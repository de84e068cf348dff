--------------------------- MODULE MCRootRotation ---------------------------
(* Instances of RootRotation for TLC. *)
EXTENDS RootRotation, TLC
=============================================================================
