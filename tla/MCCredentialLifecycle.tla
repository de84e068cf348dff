------------------------ MODULE MCCredentialLifecycle ------------------------
(* Instances of CredentialLifecycle for TLC. *)
EXTENDS CredentialLifecycle, TLC

\* A proxy's pages and a rejected token, whose texts say anything; PVE out of
\* order, with an empty body and with one that quotes another error.
MCFaults ==
  LET Page(status, text) == [status |-> status, json |-> FALSE, message |-> {},
                             errors |-> {}, raw |-> text]
  IN  { Page(401, {"no such user"}), Page(404, {"no such user", "does not exist"}),
        Page(502, {"already exists"}), Page(500, {}),
        [status |-> 500, json |-> TRUE, message |-> {"other"}, errors |-> {},
         raw |-> {"other", "no such user"}],
        [status |-> 400, json |-> TRUE, message |-> {"other"}, errors |-> {"no such group"},
         raw |-> {"other", "no such group"}] }

EngineSymmetry == Permutations(Requests) \cup Permutations(UserIds \ Foreign)
=============================================================================
