------------------------- MODULE CredentialContract -------------------------
(***************************************************************************)
(* What the engine promises of every PVE account it makes, with no WAL, no *)
(* handler and no rollback: from before the account can exist until it is  *)
(* gone, somebody has the duty to delete it, the duty passes from hand to  *)
(* hand, and nobody deletes the account of another's duty.                 *)
(*                                                                         *)
(* An attempt is the pair of a read of creds/:role and its try; it makes   *)
(* one account at most.                                                    *)
(***************************************************************************)
CONSTANT Attempts

VARIABLES
  duty,     \* per attempt: who is to delete its account
  account   \* per attempt: what PVE has made of its CreateUser

contractVars == <<duty, account>>

\* "wal": the write-ahead log; "offered": the response on its way to Vault;
\* "recalled": the handler, which will not return the credential; "lost": nobody, as
\* the response has been lost or the handler could not take the credential back;
\* "done": nobody, as there is nothing to delete.
Duties == {"none", "wal", "offered", "recalled", "lease", "ending", "lost", "done"}

\* "asked": PVE may make it at any time; "refused": PVE never will; "proved" and
\* "blank": it is there, with the comment that proves whose it is or without.
Exists == {"proved", "blank"}
Accounts == {"none", "asked", "refused", "deleted", "removed"} \cup Exists

ContractInit ==
  /\ duty = [n \in Attempts |-> "none"]
  /\ account = [n \in Attempts |-> "none"]

Pass(n, from, to) == duty[n] = from /\ duty' = [duty EXCEPT ![n] = to]
Turn(n, from, to) == account[n] \in from /\ account' = [account EXCEPT ![n] = to]

\* A read asks PVE for an account, after the log knows of it, and only when its
\* earlier tries have come to nothing.  It does not ask if the log's answer was an
\* error.
Open(n, how) ==
  /\ \A m \in Attempts \ {n} : m[1] = n[1] =>
       duty[m] \in {"none", "done"} /\ account[m] \in {"none", "refused"}
  /\ Pass(n, "none", "wal")
  /\ Turn(n, {"none"}, how)

\* PVE makes the account, in time or late, and may drop its comment.
Make(n, how) ==
  /\ duty[n] = "wal"
  /\ Turn(n, {"asked"}, how)
  /\ UNCHANGED duty

\* PVE will not make the account.
Forgo(n) == Turn(n, {"asked"}, "refused") /\ UNCHANGED duty

\* The log forgets the attempt: nothing is there that it could delete, nor will be.
Settle(n) ==
  /\ account[n] \notin {"asked", "proved"}
  /\ Pass(n, "wal", "done")
  /\ UNCHANGED account

\* The credential is handed out, with an account that only an operator has touched.
Offer(n) ==
  /\ account[n] \in Exists \cup {"removed"}
  /\ Pass(n, "wal", "offered")
  /\ UNCHANGED account

\* The log forgets the attempt although its answer was an error: it is for the
\* handler to delete the account, and it tries once.
Recall(n) ==
  /\ account[n] \in Exists \cup {"removed"}
  /\ Pass(n, "wal", "recalled")
  /\ UNCHANGED account

Abandon(n) ==
  /\ Pass(n, "recalled", "lost")
  /\ Turn(n, Exists, "deleted") \/ UNCHANGED account

Register(n) == Pass(n, "offered", "lease") /\ UNCHANGED account

End(n) == Pass(n, "lease", "ending") /\ UNCHANGED account

\* The engine deletes an account: one that the log has, or whose lease is over.
Delete(n) ==
  /\ duty[n] \in {"wal", "ending"}
  /\ Turn(n, Exists, "deleted")
  /\ UNCHANGED duty

\* The revocation, or the handler's own deletion, succeeds: the account is gone.
Fulfil(n) ==
  /\ \E from \in {"ending", "recalled"} : Pass(n, from, "done")
  /\ IF account[n] \in Exists THEN Turn(n, Exists, "deleted") ELSE UNCHANGED account

\* An operator removes an account by hand.
Remove(n) == Turn(n, Exists, "removed") /\ UNCHANGED duty

\* The plugin dies: some calls have not been sent, and what was in the hands of a
\* handler is lost.
Die(unsent) ==
  /\ account' = [n \in Attempts |-> IF n \in unsent THEN "refused" ELSE account[n]]
  /\ duty' = [n \in Attempts |-> IF duty[n] \in {"offered", "recalled"} THEN "lost" ELSE duty[n]]

ContractNext ==
  \/ \E n \in Attempts :
       \/ \E how \in {"asked", "refused"} : Open(n, how)
       \/ \E how \in Exists : Make(n, how)
       \/ Forgo(n)
       \/ Settle(n)
       \/ Offer(n)
       \/ Recall(n)
       \/ Abandon(n)
       \/ Register(n)
       \/ End(n)
       \/ Delete(n)
       \/ Fulfil(n)
       \/ Remove(n)
  \/ \E unsent \in SUBSET {n \in Attempts : account[n] = "asked"} : Die(unsent)

ContractSpec == ContractInit /\ [][ContractNext]_contractVars

-----------------------------------------------------------------------------
\* What the contract comes to.  No account is out of everybody's hands, but where it
\* was lost on the way from the log to the lease; nothing is made for an attempt that
\* is over; a credential that was handed out is not deleted before its lease ends; and
\* a read has no more than one account.
AccountsKept ==
  /\ duty \in [Attempts -> Duties]
  /\ account \in [Attempts -> Accounts]
  /\ \A n \in Attempts :
       /\ duty[n] = "none" <=> account[n] = "none"
       /\ account[n] = "asked" => duty[n] = "wal"
       /\ account[n] = "proved" => duty[n] \notin {"none", "done"}
       /\ duty[n] \in {"offered", "recalled", "lease"} => account[n] \in Exists \cup {"removed"}
  /\ \A n, m \in Attempts : n # m /\ n[1] = m[1] =>
       \/ account[n] \in {"none", "refused"} /\ duty[n] \in {"none", "done"}
       \/ account[m] \in {"none", "refused"} /\ duty[m] \in {"none", "done"}
=============================================================================
