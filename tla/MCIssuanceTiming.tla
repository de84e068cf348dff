-------------------------- MODULE MCIssuanceTiming --------------------------
(* IssuanceTiming with a unit of 50 s and the errors of MCCredentialLifecycle. *)
EXTENDS IssuanceTiming, MCCredentialLifecycle
=============================================================================
