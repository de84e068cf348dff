----------------------------- MODULE PVEErrors -----------------------------
(***************************************************************************)
(* The error answers of PVE, or of a proxy in front of it, and the class   *)
(* that classifyPVEError gives them (src/internal/pveapi/client.go).  PVE  *)
(* answers 500 where another API would answer 404 or 409, so the text of   *)
(* the body decides; issuance, revocation and rollback act on the class.   *)
(* A text is the set of the phrases it contains, {} if it is empty.        *)
(***************************************************************************)
EXTENDS Naturals

Phrases == {"already exists", "no such user", "no such group", "does not exist", "other"}

\* json: the body decodes; message and errors: the texts of these two fields;
\* raw: the text of the whole body.
ErrorAnswers == [status : Nat, json : BOOLEAN, message : SUBSET Phrases,
                 errors : SUBSET Phrases, raw : SUBSET Phrases]

\* The text that is searched: the decoded fields, or else the whole body.
haystack(a) ==
  IF a.json /\ a.message \cup a.errors # {} THEN a.message \cup a.errors ELSE a.raw

PhraseClass(text) ==
  IF "already exists" \in text THEN "ErrConflict"
  ELSE IF "no such user" \in text THEN "ErrUserNotFound"
  ELSE IF {"no such group", "does not exist"} \cap text # {} THEN "ErrGroupNotFound"
  ELSE "unclassified"

\* Mutation: the text decides whatever the status is.
classifyPVEError_AnyStatus(a) == PhraseClass(haystack(a))

\* Mutation: the whole body is searched even if its fields are decoded.
classifyPVEError_WholeBody(a) ==
  IF a.status \in {400, 500} THEN PhraseClass(a.raw) ELSE "unclassified"

\* Only 400 and 500 are taken for answers of PVE itself.
classifyPVEError(a) ==
  IF a.status = 401 THEN "ErrUnauthenticated"
  ELSE IF a.status = 403 THEN "ErrForbidden"
  ELSE IF a.status \in {400, 500} THEN PhraseClass(haystack(a))
  ELSE "unclassified"

-----------------------------------------------------------------------------
(* The answers *)

\* PVE's own answers, as the probes in docs/PVE_PROBES.md recorded them.
PVEMessage(phrase) == [status |-> 500, json |-> TRUE, message |-> {phrase},
                       errors |-> {}, raw |-> {phrase}]
UserExists == PVEMessage("already exists")
NoSuchUser == PVEMessage("no such user")

CONSTANT Faults   \* every other error answer

\* A proxy's error page may say anything, under a status that is neither 400
\* nor 500; an error of PVE about something else does not say, where PVE puts
\* its message, that a user exists or does not.
ASSUME FaultsAssumption ==
  /\ Faults \subseteq ErrorAnswers
  /\ \A a \in Faults : a.status \in {400, 500} =>
       "already exists" \notin haystack(a) /\ "no such user" \notin haystack(a)
=============================================================================
