--------------------------- MODULE ContractProofs ---------------------------
(***************************************************************************)
(* The engine implements CredentialContract, for any number of requests,   *)
(* userids, retries and crashes, and what the contract comes to.           *)
(***************************************************************************)
EXTENDS TimingProofs

-----------------------------------------------------------------------------
(* The duty and the account of an attempt *)

\* The attempts of a request, and the one it is at.
LEMMA AttemptParts ==
  ASSUME NEW n \in Attempts
  PROVE  /\ n[1] \in Requests /\ n[2] \in 1 .. MaxCollisionRetries
         /\ n = <<n[1], n[2]>> /\ n # Nobody /\ n # NoComment /\ n # LegacyId
         /\ n = Nonce(n[1]) <=> n[2] = attempt[n[1]]
  BY TagAssumption DEF Attempts, Nonce

\* An attempt with an entry in the WAL is the duty of the WAL.
LEMMA DutyWal ==
  ASSUME CredentialInv, NEW n \in Attempts, NEW e \in wal, e.id = n
  PROVE  DutyOf(n) = "wal"
  <1>1. n = <<n[1], n[2]>> /\ n[1] \in Requests /\ n[2] \in 1 .. MaxCollisionRetries
        /\ e.id # LegacyId
    BY AttemptParts
  <1>2. n[2] <= attempt[n[1]] /\ attempt[n[1]] \in 0 .. MaxCollisionRetries
    BY <1>1 DEF CredentialInv, WalIsFaithful, TypeOK
  <1>3. ~(n[2] > attempt[n[1]])
    BY <1>1, <1>2, RetriesAssumption
  <1> QED
    BY <1>3 DEF DutyOf

\* The steps of a request that say whose duty its account is, if not the WAL's.
Bearing == {"respond", "leased", "revoking", "lastdelete", "lost", "stranded"}

\* The duty of a request's present attempt when the WAL has no entry of it.
LEMMA DutyNoWal ==
  ASSUME TypeOK, NEW r \in Requests, \A e \in wal : e.id # Nonce(r)
  PROVE  /\ pc[r] = "respond" => DutyOf(Nonce(r)) = "offered"
         /\ pc[r] = "leased" => DutyOf(Nonce(r)) = "lease"
         /\ pc[r] = "revoking" => DutyOf(Nonce(r)) = "ending"
         /\ pc[r] = "lastdelete" => DutyOf(Nonce(r)) = "recalled"
         /\ pc[r] \in Forgotten => DutyOf(Nonce(r)) = "lost"
         /\ pc[r] \notin Bearing => DutyOf(Nonce(r)) = "done"
  <1>1. /\ Nonce(r)[1] = r /\ Nonce(r)[2] = attempt[r] /\ attempt[r] \in Nat
        /\ ~(\E e \in wal : e.id = Nonce(r))
    BY RetriesAssumption DEF Nonce, TypeOK
  <1>2. ~(Nonce(r)[2] > attempt[Nonce(r)[1]])
    BY <1>1
  <1> DEFINE n == Nonce(r)
  <1>3. DutyOf(n) = CASE pc[r] = "respond" -> "offered"
                      [] pc[r] = "leased" -> "lease"
                      [] pc[r] = "revoking" -> "ending"
                      [] pc[r] = "lastdelete" -> "recalled"
                      [] pc[r] \in Forgotten -> "lost"
                      [] OTHER -> "done"
    BY <1>1, <1>2 DEF DutyOf
  <1> HIDE DEF n
  <1>4. pc[r] = "respond" => DutyOf(n) = "offered"
    BY <1>3 DEF Forgotten
  <1>5. pc[r] = "leased" => DutyOf(n) = "lease"
    BY <1>3 DEF Forgotten
  <1>6. pc[r] = "revoking" => DutyOf(n) = "ending"
    BY <1>3 DEF Forgotten
  <1>7. pc[r] = "lastdelete" => DutyOf(n) = "recalled"
    BY <1>3 DEF Forgotten
  <1>8. pc[r] \in Forgotten => DutyOf(n) = "lost"
    BY <1>3 DEF Forgotten
  <1>9. pc[r] \notin Bearing => DutyOf(n) = "done"
    BY <1>3 DEF Bearing, Forgotten
  <1> QED
    BY <1>4, <1>5, <1>6, <1>7, <1>8, <1>9 DEF n

\* The account of a request's present attempt, made or not.
LEMMA AccountMade ==
  ASSUME NEW r \in Requests, users[userid[r]].owner = Nonce(r)
  PROVE  /\ users[userid[r]].st = "present" =>
              AccountOf(Nonce(r)) = IF users[userid[r]].comment = Nonce(r)
                                    THEN "proved" ELSE "blank"
         /\ users[userid[r]].st # "present" => AccountOf(Nonce(r)) = users[userid[r]].st
  <1>1. Nonce(r)[1] = r
    BY DEF Nonce
  <1> QED
    BY <1>1 DEF AccountOf

LEMMA AccountUnmade ==
  ASSUME TypeOK, NEW r \in Requests, users[userid[r]].owner # Nonce(r)
  PROVE  /\ Awaited(Nonce(r)) => AccountOf(Nonce(r)) = "asked"
         /\ ~Awaited(Nonce(r)) => AccountOf(Nonce(r)) = "refused"
  <1>1. Nonce(r)[1] = r /\ Nonce(r)[2] = attempt[r] /\ attempt[r] \in Nat
    BY RetriesAssumption DEF Nonce, TypeOK
  <1> QED
    BY <1>1 DEF AccountOf

-----------------------------------------------------------------------------
(* Steps of the contract *)

\* A step concerns attempt n alone.
Only(n) == \A m \in Attempts \ {n} : DutyOf(m)' = DutyOf(m) /\ AccountOf(m)' = AccountOf(m)

SameDuty(n) == DutyOf(n)' = DutyOf(n)
SameAccount(n) == AccountOf(n)' = AccountOf(n)
There == {"proved", "blank"}

\* What the contract lets become of attempt n in one step, its opening apart.
Allowed(n) ==
  \/ SameDuty(n) /\ SameAccount(n)
  \/ SameDuty(n) /\ DutyOf(n) = "wal" /\ AccountOf(n) = "asked" /\ AccountOf(n)' \in There
  \/ SameDuty(n) /\ AccountOf(n) = "asked" /\ AccountOf(n)' = "refused"
  \/ /\ DutyOf(n) = "wal" /\ DutyOf(n)' = "done" /\ SameAccount(n)
     /\ AccountOf(n) \notin {"asked", "proved"}
  \/ /\ DutyOf(n) = "wal" /\ DutyOf(n)' = "offered" /\ SameAccount(n)
     /\ AccountOf(n) \in There \cup {"removed"}
  \/ /\ DutyOf(n) = "wal" /\ DutyOf(n)' = "recalled" /\ SameAccount(n)
     /\ AccountOf(n) \in There \cup {"removed"}
  \/ /\ DutyOf(n) = "recalled" /\ DutyOf(n)' = "lost"
     /\ SameAccount(n) \/ (AccountOf(n) \in There /\ AccountOf(n)' = "deleted")
  \/ DutyOf(n) = "offered" /\ DutyOf(n)' = "lease" /\ SameAccount(n)
  \/ DutyOf(n) = "lease" /\ DutyOf(n)' = "ending" /\ SameAccount(n)
  \/ /\ SameDuty(n) /\ DutyOf(n) \in {"wal", "ending"}
     /\ AccountOf(n) \in There /\ AccountOf(n)' = "deleted"
  \/ /\ DutyOf(n) \in {"ending", "recalled"} /\ DutyOf(n)' = "done"
     /\ IF AccountOf(n) \in There THEN AccountOf(n)' = "deleted" ELSE SameAccount(n)
  \/ SameDuty(n) /\ AccountOf(n) \in There /\ AccountOf(n)' = "removed"

\* The two functions of the contract, changed at one attempt or nowhere.
LEMMA OnlyOne ==
  ASSUME NEW n \in Attempts, Only(n)
  PROVE  /\ [m \in Attempts |-> DutyOf(m)]' =
              [[m \in Attempts |-> DutyOf(m)] EXCEPT ![n] = DutyOf(n)']
         /\ [m \in Attempts |-> AccountOf(m)]' =
              [[m \in Attempts |-> AccountOf(m)] EXCEPT ![n] = AccountOf(n)']
         /\ SameDuty(n) => UNCHANGED [m \in Attempts |-> DutyOf(m)]
         /\ SameAccount(n) => UNCHANGED [m \in Attempts |-> AccountOf(m)]
  BY DEF Only, SameDuty, SameAccount

\* Such a step is one of the contract's.
LEMMA AllowedIsStep ==
  ASSUME NEW n \in Attempts, Only(n), Allowed(n)
  PROVE  [Contract!ContractNext]_Contract!contractVars
  <1> USE OnlyOne DEF Contract!Pass, Contract!Turn, Contract!Exists, There
  <1>1. CASE SameDuty(n) /\ SameAccount(n)
    BY <1>1 DEF Contract!contractVars
  <1>2. CASE SameDuty(n) /\ DutyOf(n) = "wal" /\ AccountOf(n) = "asked" /\ AccountOf(n)' \in There
    <2>1. Contract!Make(n, AccountOf(n)')
      BY <1>2 DEF Contract!Make
    <2> QED
      BY <1>2, <2>1 DEF Contract!ContractNext
  <1>3. CASE SameDuty(n) /\ AccountOf(n) = "asked" /\ AccountOf(n)' = "refused"
    <2>1. Contract!Forgo(n)
      BY <1>3 DEF Contract!Forgo
    <2> QED
      BY <2>1 DEF Contract!ContractNext
  <1>4. CASE /\ DutyOf(n) = "wal" /\ DutyOf(n)' = "done" /\ SameAccount(n)
             /\ AccountOf(n) \notin {"asked", "proved"}
    <2>1. Contract!Settle(n)
      BY <1>4 DEF Contract!Settle
    <2> QED
      BY <2>1 DEF Contract!ContractNext
  <1>5. CASE /\ DutyOf(n) = "wal" /\ DutyOf(n)' = "offered" /\ SameAccount(n)
             /\ AccountOf(n) \in There \cup {"removed"}
    <2>1. Contract!Offer(n)
      BY <1>5 DEF Contract!Offer
    <2> QED
      BY <2>1 DEF Contract!ContractNext
  <1>6. CASE DutyOf(n) = "offered" /\ DutyOf(n)' = "lease" /\ SameAccount(n)
    <2>1. Contract!Register(n)
      BY <1>6 DEF Contract!Register
    <2> QED
      BY <2>1 DEF Contract!ContractNext
  <1>7. CASE DutyOf(n) = "lease" /\ DutyOf(n)' = "ending" /\ SameAccount(n)
    <2>1. Contract!End(n)
      BY <1>7 DEF Contract!End
    <2> QED
      BY <2>1 DEF Contract!ContractNext
  <1>8. CASE /\ SameDuty(n) /\ DutyOf(n) \in {"wal", "ending"}
             /\ AccountOf(n) \in There /\ AccountOf(n)' = "deleted"
    <2>1. Contract!Delete(n)
      BY <1>8 DEF Contract!Delete
    <2> QED
      BY <2>1 DEF Contract!ContractNext
  <1>9. CASE /\ DutyOf(n) \in {"ending", "recalled"} /\ DutyOf(n)' = "done"
             /\ IF AccountOf(n) \in There THEN AccountOf(n)' = "deleted" ELSE SameAccount(n)
    <2>1. Contract!Fulfil(n)
      BY <1>9 DEF Contract!Fulfil
    <2> QED
      BY <2>1 DEF Contract!ContractNext
  <1>10. CASE SameDuty(n) /\ AccountOf(n) \in There /\ AccountOf(n)' = "removed"
    <2>1. Contract!Remove(n)
      BY <1>10 DEF Contract!Remove
    <2> QED
      BY <2>1 DEF Contract!ContractNext
  <1>11. CASE /\ DutyOf(n) = "wal" /\ DutyOf(n)' = "recalled" /\ SameAccount(n)
              /\ AccountOf(n) \in There \cup {"removed"}
    <2>1. Contract!Recall(n)
      BY <1>11 DEF Contract!Recall
    <2> QED
      BY <2>1 DEF Contract!ContractNext
  <1>12. CASE /\ DutyOf(n) = "recalled" /\ DutyOf(n)' = "lost"
              /\ SameAccount(n) \/ (AccountOf(n) \in There /\ AccountOf(n)' = "deleted")
    <2>1. Contract!Abandon(n)
      BY <1>12 DEF Contract!Abandon
    <2> QED
      BY <2>1 DEF Contract!ContractNext
  <1> QED
    BY <1>1, <1>2, <1>3, <1>4, <1>5, <1>6, <1>7, <1>8, <1>9, <1>10, <1>11, <1>12 DEF Allowed

-----------------------------------------------------------------------------
(* What a step leaves alone *)

\* The steps that decide on a duty or an account.
Telling == {"create"} \cup Bearing

\* What the contract sees of a user.
SameUser(u) == /\ users'[u].owner = users[u].owner
               /\ users'[u].st = users[u].st
               /\ users'[u].comment = users[u].comment

\* A step that moves no handler to or from a telling step, and changes of PVE's
\* users no more than a token, is none to the contract.
LEMMA Silent ==
  ASSUME CredentialInv, UNCHANGED <<attempt, userid, wal, late>>,
         \A u \in UserIds : SameUser(u) \/ {users[u].owner, users'[u].owner} = {Nobody},
         \A q \in Requests : pc'[q] = pc[q] \/ (pc[q] \notin Telling /\ pc'[q] \notin Telling)
  PROVE  [Contract!ContractNext]_Contract!contractVars
  <1>1. ASSUME NEW m \in Attempts
        PROVE  DutyOf(m)' = DutyOf(m) /\ AccountOf(m)' = AccountOf(m)
    <2>1. m[1] \in Requests /\ Nonce(m[1])' = Nonce(m[1]) /\ userid[m[1]] \in UserIds
      BY AttemptParts DEF Nonce, CredentialInv, TypeOK
    <2>2. \/ SameUser(userid[m[1]])
          \/ users[userid[m[1]]].owner # m /\ users'[userid[m[1]]].owner # m
      BY <2>1, AttemptParts
    <2>3. pc'[m[1]] = pc[m[1]] \/ (pc[m[1]] \notin Telling /\ pc'[m[1]] \notin Telling)
      BY <2>1
    <2>4. Awaited(m)' = Awaited(m)
      BY <2>1, <2>3 DEF Awaited, Telling
    <2>5. AccountOf(m)' = AccountOf(m)
      BY <2>2, <2>4 DEF AccountOf, SameUser
    <2>6. DutyOf(m)' = DutyOf(m)
      <3>1. CASE pc'[m[1]] = pc[m[1]]
        BY <2>1, <3>1 DEF DutyOf
      <3>2. CASE pc[m[1]] \notin Telling /\ pc'[m[1]] \notin Telling
        BY <2>1, <3>2 DEF DutyOf, Telling, Bearing, Forgotten
      <3> QED
        BY <2>3, <3>1, <3>2
    <2> QED
      BY <2>5, <2>6
  <1> QED
    BY <1>1 DEF Contract!contractVars

\* A step on attempt n of request r: of the other attempts, it leaves the entries,
\* the calls, the handlers and the accounts as they are.
LEMMA OthersKept ==
  ASSUME CredentialInv, NEW n \in Attempts, UNCHANGED <<attempt, userid>>,
         \A q \in Requests : q # n[1] \/ n # Nonce(n[1]) => pc'[q] = pc[q],
         \A m \in Attempts \ {n} : (\E e \in wal' : e.id = m) <=> (\E e \in wal : e.id = m),
         \A m \in Attempts \ {n} : (\E c \in late' : c.by = m) <=> (\E c \in late : c.by = m),
         \A u \in UserIds : \/ SameUser(u)
                            \/ {users[u].owner, users'[u].owner} \subseteq {n, Nobody}
  PROVE  Only(n)
  <1> SUFFICES ASSUME NEW m \in Attempts \ {n}
               PROVE  DutyOf(m)' = DutyOf(m) /\ AccountOf(m)' = AccountOf(m)
    BY DEF Only
  <1> DEFINE q == m[1]
  <1>1. q \in Requests /\ userid[q] \in UserIds /\ Nonce(q)' = Nonce(q) /\ m # Nobody
    BY AttemptParts DEF Nonce, CredentialInv, TypeOK
  <1>2. pc'[q] = pc[q] \/ m # Nonce(q)
    BY <1>1
  <1>3. /\ (\E e \in wal' : e.id = m) <=> (\E e \in wal : e.id = m)
        /\ (\E c \in late' : c.by = m) <=> (\E c \in late : c.by = m)
    OBVIOUS
  <1>4. \/ SameUser(userid[q])
        \/ users[userid[q]].owner # m /\ users'[userid[q]].owner # m
    BY <1>1
  <1>5. Awaited(m)' = Awaited(m)
    <2>1. Awaited(m)' <=> Awaited(m)
      BY <1>1, <1>2, <1>3 DEF Awaited
    <2> QED
      BY <2>1 DEF Awaited
  <1>6. AccountOf(m)' = AccountOf(m)
    BY <1>4, <1>5 DEF AccountOf, SameUser
  <1>7. DutyOf(m)' = DutyOf(m)
    <2>1. CASE m # Nonce(q)
      BY <1>1, <1>3, <2>1 DEF DutyOf
    <2>2. CASE pc'[q] = pc[q]
      BY <1>1, <1>3, <2>2 DEF DutyOf
    <2> QED
      BY <1>2, <2>1, <2>2
  <1> QED
    BY <1>6, <1>7

-----------------------------------------------------------------------------
(* The present attempt of a request, before and after a step *)

\* How duty and account of a request's present attempt are read off the state.
ReadOff ==
  TypeOK => \A r \in Requests, n \in Attempts : n = Nonce(r) =>
    LET u == users[userid[r]]
    IN  /\ (\A e \in wal : e.id # n) =>
             /\ pc[r] = "respond" => DutyOf(n) = "offered"
             /\ pc[r] = "leased" => DutyOf(n) = "lease"
             /\ pc[r] = "revoking" => DutyOf(n) = "ending"
             /\ pc[r] = "lastdelete" => DutyOf(n) = "recalled"
             /\ pc[r] \in Forgotten => DutyOf(n) = "lost"
             /\ pc[r] \notin Bearing => DutyOf(n) = "done"
        /\ u.owner = n /\ u.st = "present" =>
             AccountOf(n) = IF u.comment = n THEN "proved" ELSE "blank"
        /\ u.owner = n /\ u.st # "present" => AccountOf(n) = u.st
        /\ u.owner # n /\ Awaited(n) => AccountOf(n) = "asked"
        /\ u.owner # n /\ ~Awaited(n) => AccountOf(n) = "refused"

LEMMA ReadNow == ReadOff
  <1> SUFFICES ASSUME TypeOK PROVE ReadOff
    BY DEF ReadOff
  <1> QED
    BY DutyNoWal, AccountMade, AccountUnmade DEF ReadOff

LEMMA ReadNext == ReadOff'
  BY ReadNow, PTL

\* A handler that relies on its entry has the WAL behind it.
LEMMA HeldDuty ==
  ASSUME CredentialInv, NEW r \in Requests, pc[r] \in HoldSteps \ {"lastdelete"}
  PROVE  /\ Nonce(r) \in Attempts /\ Nonce(r)[1] = r /\ DutyOf(Nonce(r)) = "wal"
         /\ \E e \in wal : e.id = Nonce(r)
  <1>1. Nonce(r) \in Attempts /\ Nonce(r)[1] = r
    BY NonceIsAttempt DEF CredentialInv, Nonce
  <1>2. Entry(r) \in wal /\ Entry(r).id = Nonce(r)
    BY DEF CredentialInv, HeldEntryKept, Entry
  <1> QED
    BY <1>1, <1>2, DutyWal

\* Before CreateUser has succeeded no user is the request's.
LEMMA NotMade ==
  ASSUME CredentialInv, NEW r \in Requests, pc[r] \notin AfterCreate, Nonce(r) \in Attempts
  PROVE  \A u \in UserIds : users[u].owner # Nonce(r)
  BY AttemptParts, NonceInjective DEF CredentialInv, OwnerIsLatest

\* While the handler runs, no call of its attempt is left behind.
LEMMA NotLate ==
  ASSUME CredentialInv, NEW r \in Requests, pc[r] \notin {"failed", "crashed"}
  PROVE  \A c \in late : c.by # Nonce(r)
  BY NonceInjective DEF CredentialInv, LateIsCovered

\* The WAL keeps its duty while it keeps its entry.
LEMMA WalKeepsDuty ==
  ASSUME NEW n \in Attempts, UNCHANGED attempt,
         \E e \in wal : e.id = n, \E e \in wal' : e.id = n
  PROVE  SameDuty(n)
  BY DEF SameDuty, DutyOf

\* A handler's step on its own attempt leaves the other attempts alone.
LEMMA HandlerOnly ==
  ASSUME CredentialInv, NEW r \in Requests, NEW n \in Attempts, n = Nonce(r),
         UNCHANGED <<attempt, userid>>,
         \A q \in Requests \ {r} : pc'[q] = pc[q],
         wal' = wal \/ DeleteWAL(n),
         late' = late \/ late' = late \cup {[by |-> n, user |-> userid[r]]},
         \A u \in UserIds : \/ SameUser(u)
                            \/ {users[u].owner, users'[u].owner} \subseteq {n, Nobody}
  PROVE  Only(n) /\ Nonce(r)' = n
  <1>1. n[1] = r /\ n = Nonce(n[1])
    BY DEF Nonce
  <1>2. \A m \in Attempts \ {n} : (\E e \in wal' : e.id = m) <=> (\E e \in wal : e.id = m)
    BY DEF DeleteWAL
  <1>3. \A m \in Attempts \ {n} : (\E c \in late' : c.by = m) <=> (\E c \in late : c.by = m)
    OBVIOUS
  <1>4. Nonce(r)' = n
    BY DEF Nonce
  <1>5. \A q \in Requests : q # n[1] \/ n # Nonce(n[1]) => pc'[q] = pc[q]
    BY <1>1
  <1> QED
    BY <1>2, <1>3, <1>4, <1>5, OthersKept

-----------------------------------------------------------------------------
(* Steps of a handler *)

\* Steps that change nothing the contract speaks of.
LEMMA QuietSteps ==
  ASSUME CredentialInv, TypeOK', NEW r \in Requests,
         \/ Refuse(r) \/ ReadBackOk(r) \/ ReadBackErr(r) \/ CreateTokenOk(r) \/ CreateTokenErr(r)
         \/ PutWALErr(r) /\ UNCHANGED <<wal, handler>>
         \/ \E m \in {"token", "password"} : Begin(r, m)
  PROVE  [Contract!ContractNext]_Contract!contractVars
  <1>1. /\ UNCHANGED <<attempt, userid, wal, late>>
        /\ \A q \in Requests : pc'[q] = pc[q] \/ (pc[q] \notin Telling /\ pc'[q] \notin Telling)
    BY DEF Refuse, PutWALErr, ReadBackOk, ReadBackErr, CreateTokenOk, CreateTokenErr, Begin,
           Goto, handler, Telling, Bearing, CredentialInv, TypeOK
  <1>2. users' = users \/ users' = [users EXCEPT ![userid[r]].token = TRUE]
    BY DEF Refuse, PutWALErr, ReadBackOk, ReadBackErr, CreateTokenOk, CreateTokenErr, Begin
  <1>3. \A u \in UserIds : SameUser(u)
    BY <1>2, TokenEffect DEF SameUser, CredentialInv, TypeOK
  <1> QED
    BY <1>1, <1>3, Silent

\* At its CreateUser a handler awaits an account, and has none.
LEMMA AtCreate ==
  ASSUME CredentialInv, NEW r \in Requests, pc[r] = "create"
  PROVE  /\ Nonce(r) \in Attempts
         /\ \A u \in UserIds : users[u].owner # Nonce(r)
         /\ \A c \in late : c.by # Nonce(r)
         /\ DutyOf(Nonce(r)) = "wal" /\ \E e \in wal : e.id = Nonce(r)
         /\ AccountOf(Nonce(r)) = "asked"
  <1>1. Nonce(r) \in Attempts /\ Nonce(r)[1] = r /\ DutyOf(Nonce(r)) = "wal"
        /\ \E e \in wal : e.id = Nonce(r)
    BY HeldDuty DEF HoldSteps
  <1>2. \A u \in UserIds : users[u].owner # Nonce(r)
    BY <1>1, NotMade DEF AfterCreate, CreatedSteps, LeaseSteps, Outcomes
  <1>3. \A c \in late : c.by # Nonce(r)
    BY NotLate
  <1>4. Awaited(Nonce(r)) /\ userid[r] \in UserIds
    BY <1>1 DEF Awaited, CredentialInv, TypeOK
  <1>5. AccountOf(Nonce(r)) = "asked"
    BY <1>2, <1>4, AccountUnmade DEF CredentialInv
  <1> QED
    BY <1>1, <1>2, <1>3, <1>5

\* PVE refuses the account, makes no answer, or may still make it.
LEMMA CreateFails ==
  ASSUME CredentialInv, TypeOK', NEW r \in Requests,
         CreateUserConflict(r) \/ CreateUserErr(r) \/ CreateUserTimeout(r)
  PROVE  [Contract!ContractNext]_Contract!contractVars
  <1>1. /\ pc[r] = "create" /\ pc' = [pc EXCEPT ![r] = pc'[r]] /\ pc'[r] \in {"collision", "failed"}
        /\ UNCHANGED <<users, wal, attempt, userid>>
        /\ late' = late \/ late' = late \cup {[by |-> Nonce(r), user |-> userid[r]]}
    BY DEF CreateUserConflict, CreateUserErr, CreateUserTimeout, Goto, handler, CredentialInv,
       TypeOK
  <1>2. PICK n \in Attempts : n = Nonce(r)
    BY <1>1, AtCreate
  <1>3. /\ users[userid[r]].owner # n /\ DutyOf(n) = "wal" /\ AccountOf(n) = "asked"
        /\ \E e \in wal : e.id = n
    BY <1>1, <1>2, AtCreate DEF CredentialInv, TypeOK
  <1>4. Only(n) /\ Nonce(r)' = n
    <2>1. \A q \in Requests \ {r} : pc'[q] = pc[q]
      BY <1>1 DEF CredentialInv, TypeOK
    <2>2. \A u \in UserIds : SameUser(u)
      BY <1>1 DEF SameUser
    <2> QED
      BY <1>1, <1>2, <2>1, <2>2, HandlerOnly
  <1>5. SameDuty(n)
    BY <1>1, <1>3, WalKeepsDuty
  <1>6. AccountOf(n)' \in {"asked", "refused"}
    BY <1>1, <1>3, <1>4, ReadNext DEF ReadOff
  <1>7. Allowed(n)
    BY <1>3, <1>5, <1>6 DEF Allowed, SameAccount
  <1> QED
    BY <1>4, <1>7, AllowedIsStep

\* PVE makes the account, on time or late, under a userid that was never used.
LEMMA Makes ==
  ASSUME ~UseridReuse, CredentialInv, IssuanceInv, TypeOK', NEW r \in Requests,
         NEW n \in Attempts, n = Nonce(r), DutyOf(n) = "wal", AccountOf(n) = "asked",
         \E e \in wal : e.id = n,
         NEW comment \in Comments(n), NEW inGroup \in BOOLEAN,
         Creatable(userid[r]), CreateUser(userid[r], n, comment, inGroup),
         UNCHANGED <<wal, handler>>,
         \A q \in Requests \ {r} : pc'[q] = pc[q],
         late' \subseteq late, \A c \in late \ late' : c.by = n
  PROVE  [Contract!ContractNext]_Contract!contractVars
  <1> DEFINE v == userid[r]
  <1>1. /\ v \in UserIds /\ users[v].st = "never" /\ UNCHANGED <<attempt, userid>>
        /\ users'[v] = [st |-> "present", owner |-> n, comment |-> comment,
                        inGroup |-> inGroup, token |-> FALSE]
        /\ \A u \in UserIds \ {v} : users'[u] = users[u]
    BY DEF CreateUser, CredentialInv, TypeOK, Creatable, handler
  <1>2. users[v].owner = Nobody
    BY <1>1 DEF IssuanceInv, CreatorKept
  <1>3. Nonce(r)' = n /\ n[1] = r
    BY <1>1 DEF Nonce
  <1>4. Only(n)
    <2>1. \A q \in Requests : q # n[1] \/ n # Nonce(n[1]) => pc'[q] = pc[q]
      BY <1>3
    <2>2. \A m \in Attempts \ {n} : (\E c \in late' : c.by = m) <=> (\E c \in late : c.by = m)
      OBVIOUS
    <2>3. \A u \in UserIds : \/ SameUser(u)
                             \/ {users[u].owner, users'[u].owner} \subseteq {n, Nobody}
      BY <1>1, <1>2 DEF SameUser
    <2> QED
      BY <1>1, <2>1, <2>2, <2>3, OthersKept
  <1>5. SameDuty(n)
    BY <1>1, WalKeepsDuty
  <1>6. AccountOf(n)' \in There
    <2>1. users'[userid'[r]].owner = n /\ users'[userid'[r]].st = "present"
      BY <1>1
    <2> QED
      BY <1>3, <2>1, ReadNext DEF ReadOff, There
  <1> QED
    BY <1>4, <1>5, <1>6, AllowedIsStep DEF Allowed

\* The entry of an attempt goes when the account has been refused, has been
\* deleted, is handed out, or is taken back.
LEMMA EntryGoes ==
  ASSUME CredentialInv, IssuanceInv, TypeOK', NEW r \in Requests,
         \/ CollisionDeleteWALOk(r) \/ CollisionDeleteWALErr(r) \/ IssueDeleteWALOk(r)
         \/ IssueDeleteWALErr(r) \/ CleanupDeleteWAL(r)
  PROVE  [Contract!ContractNext]_Contract!contractVars
  <1> DEFINE u == users[userid[r]]
  <1>1. /\ pc' = [pc EXCEPT ![r] = pc'[r]]
        /\ \/ pc[r] = "collision" /\ pc'[r] \in {"attempt", "failed"}
           \/ pc[r] = "delwal" /\ pc'[r] \in {"respond", "lastdelete"}
           \/ pc[r] = "cleanupwal" /\ pc'[r] = "failed"
        /\ DeleteWAL(Nonce(r)) \/ wal' = wal
        /\ UNCHANGED <<users, late, attempt, userid>>
        /\ pc \in [Requests -> Steps] /\ userid[r] \in UserIds
    BY DEF CollisionDeleteWALOk, CollisionDeleteWALErr, IssueDeleteWALOk, IssueDeleteWALErr,
       CleanupDeleteWAL, DeleteWALErr, Goto, handler, CredentialInv, TypeOK
  <1>2. pc[r] \in HoldSteps \ {"lastdelete"} /\ \A q \in Requests \ {r} : pc'[q] = pc[q]
    BY <1>1 DEF HoldSteps
  <1>3. PICK n \in Attempts : n = Nonce(r)
    BY <1>2, HeldDuty
  <1>4. DutyOf(n) = "wal" /\ \E e \in wal : e.id = n
    BY <1>2, <1>3, HeldDuty
  <1>5. \A v \in UserIds : SameUser(v)
    BY <1>1 DEF SameUser
  <1>6. Only(n) /\ Nonce(r)' = n
    BY <1>1, <1>2, <1>3, <1>5, HandlerOnly
  <1>7. SameAccount(n)
    <2>1. n[1] = r /\ pc[r] # "create" /\ pc'[r] # "create"
      BY <1>1, <1>3 DEF Nonce
    <2> QED
      BY <1>1, <2>1 DEF SameAccount, AccountOf, Awaited
  <1>8. CASE wal' = wal
    <2>1. SameDuty(n)
      BY <1>1, <1>4, <1>8, WalKeepsDuty
    <2> QED
      BY <1>6, <1>7, <2>1, AllowedIsStep DEF Allowed
  <1>9. CASE DeleteWAL(n) /\ pc[r] = "collision"
    <2>1. DutyOf(n)' = "done"
      BY <1>1, <1>6, <1>9, ReadNext DEF ReadOff, DeleteWAL, Bearing
    <2>2. u.owner # n
      BY <1>1, <1>3, <1>9, NotMade DEF AfterCreate, CreatedSteps, LeaseSteps, Outcomes
    <2>3. ~Awaited(n)
      BY <1>3, <1>9, NotLate DEF Awaited, Nonce
    <2>4. AccountOf(n) = "refused"
      BY <1>3, <2>2, <2>3, ReadNow DEF ReadOff, CredentialInv
    <2> QED
      BY <1>4, <1>6, <1>7, <2>1, <2>4, AllowedIsStep DEF Allowed
  <1>10. CASE DeleteWAL(n) /\ pc[r] = "cleanupwal"
    <2>1. DutyOf(n)' = "done"
      BY <1>1, <1>6, <1>10, ReadNext DEF ReadOff, DeleteWAL, Bearing
    <2>2. u.owner = n /\ u.st # "present"
      BY <1>3, <1>10 DEF IssuanceInv, CreatorKept, CreatedSteps, CredentialInv,
         CleanedIsGone, Present
    <2>3. u.st \in {"never", "present", "deleted", "removed"}
      BY <1>1 DEF CredentialInv, TypeOK, Users
    <2>4. AccountOf(n) \notin {"asked", "proved"}
      BY <1>3, <2>2, <2>3, ReadNow DEF ReadOff, CredentialInv
    <2> QED
      BY <1>4, <1>6, <1>7, <2>1, <2>4, AllowedIsStep DEF Allowed
  <1>11. CASE DeleteWAL(n) /\ pc[r] = "delwal"
    <2>1. DutyOf(n)' \in {"offered", "recalled"}
      BY <1>1, <1>6, <1>11, ReadNext DEF ReadOff, DeleteWAL
    <2>2. u.owner = n /\ u.st \in {"present", "removed"}
      BY <1>3, <1>11 DEF IssuanceInv, CreatorKept, CreatedSteps, IssuanceChecked
    <2>3. AccountOf(n) \in There \cup {"removed"}
      BY <1>3, <2>2, ReadNow DEF ReadOff, CredentialInv, There
    <2> QED
      BY <1>4, <1>6, <1>7, <2>1, <2>3, AllowedIsStep DEF Allowed
  <1> QED
    BY <1>1, <1>3, <1>8, <1>9, <1>10, <1>11

\* A request with a credential out has made an attempt, and the WAL has no entry of it.
LEMMA IssuedAttempt ==
  ASSUME CredentialInv, IssuanceInv, NEW r \in Requests,
         pc[r] \in {"respond"} \cup LeaseSteps
  PROVE  Nonce(r) \in Attempts /\ \A e \in wal : e.id # Nonce(r)
  BY DEF CredentialInv, AttemptsLeft, Attempts, Nonce, IssuanceInv, IssuedIsCommitted

\* The lease is registered, and it ends.
LEMMA LeaseMoves ==
  ASSUME CredentialInv, IssuanceInv, TypeOK', NEW r \in Requests, RegisterLease(r) \/ Revoke(r)
  PROVE  [Contract!ContractNext]_Contract!contractVars
  <1>1. /\ \/ pc[r] = "respond" /\ pc' = [pc EXCEPT ![r] = "leased"]
           \/ pc[r] = "leased" /\ pc' = [pc EXCEPT ![r] = "revoking"]
        /\ UNCHANGED <<users, wal, late, attempt, userid>>
        /\ pc \in [Requests -> Steps]
    BY DEF RegisterLease, Revoke, Goto, handler, CredentialInv, TypeOK
  <1>2. PICK n \in Attempts : n = Nonce(r)
    BY <1>1, IssuedAttempt DEF LeaseSteps
  <1>3. \A e \in wal : e.id # n
    BY <1>1, <1>2, IssuedAttempt DEF LeaseSteps
  <1>4. Only(n) /\ Nonce(r)' = n
    <2>1. \A q \in Requests \ {r} : pc'[q] = pc[q]
      BY <1>1
    <2>2. \A u \in UserIds : SameUser(u)
      BY <1>1 DEF SameUser
    <2> QED
      BY <1>1, <1>2, <2>1, <2>2, HandlerOnly
  <1>5. SameAccount(n)
    <2>1. n[1] = r /\ pc[r] # "create" /\ pc'[r] # "create"
      BY <1>1, <1>2 DEF Nonce
    <2> QED
      BY <1>1, <2>1 DEF SameAccount, AccountOf, Awaited
  <1>6. \/ DutyOf(n) = "offered" /\ DutyOf(n)' = "lease"
        \/ DutyOf(n) = "lease" /\ DutyOf(n)' = "ending"
    <2>1. \/ pc[r] = "respond" /\ pc'[r] = "leased"
          \/ pc[r] = "leased" /\ pc'[r] = "revoking"
      BY <1>1
    <2>2. \A e \in wal' : e.id # n
      BY <1>1, <1>3
    <2> QED
      BY <1>2, <1>3, <1>4, <2>1, <2>2, ReadNow, ReadNext DEF ReadOff, CredentialInv
  <1> QED
    BY <1>4, <1>5, <1>6, AllowedIsStep DEF Allowed

\* What the deletion of the user of a request does to the account of its attempt.
LEMMA DeletedAccount ==
  ASSUME CredentialInv, TypeOK', NEW r \in Requests, NEW n \in Attempts, n = Nonce(r),
         users[userid[r]].owner = n, UNCHANGED <<attempt, userid>>,
         DeleteUser(userid[r]) \/ users' = users
  PROVE  /\ users' = users => SameAccount(n)
         /\ users' # users => AccountOf(n) \in There /\ AccountOf(n)' = "deleted"
         /\ DeleteUser(userid[r]) => AccountOf(n)' \notin There
         /\ \A u \in UserIds : SameUser(u)
                               \/ {users[u].owner, users'[u].owner} \subseteq {n, Nobody}
  <1> DEFINE v == userid[r]
  <1>1. v \in UserIds /\ users \in [UserIds -> Users] /\ Nonce(r)' = n
    BY DEF CredentialInv, TypeOK, Nonce
  <1>2. /\ \A u \in UserIds \ {v} : users'[u] = users[u]
        /\ users'[v].owner = n
    BY <1>1, DeleteUserEffect
  <1>3. users' = users => SameAccount(n)
    <2> SUFFICES ASSUME users' = users PROVE SameAccount(n)
      OBVIOUS
    <2>1. n[1] = r
      BY DEF Nonce
    <2> QED
      BY <2>1 DEF SameAccount, AccountOf
  <1>4. users' # users => users[v].st = "present" /\ users'[v].st = "deleted"
    BY <1>1 DEF DeleteUser, Present, Users
  <1>5. DeleteUser(v) => users'[v].st # "present" /\ users'[v].st \in {"never", "deleted", "removed"}
    BY <1>1, NotFoundIsAbsent DEF DeleteUser, Present, Users
  <1>6. users' # users => AccountOf(n) \in There /\ AccountOf(n)' = "deleted"
    BY <1>1, <1>2, <1>4, ReadNow, ReadNext DEF ReadOff, CredentialInv, There
  <1>7. DeleteUser(v) => AccountOf(n)' \notin There
    BY <1>1, <1>2, <1>5, ReadNext DEF ReadOff, There
  <1>8. \A u \in UserIds : SameUser(u)
                           \/ {users[u].owner, users'[u].owner} \subseteq {n, Nobody}
    BY <1>1, <1>2 DEF SameUser
  <1> QED
    BY <1>3, <1>6, <1>7, <1>8

\* A handler deletes its own account while the WAL or the handler itself answers
\* for it, and a revocation while the lease does.
LEMMA Deletes ==
  ASSUME CredentialInv, IssuanceInv, TypeOK', NEW r \in Requests,
         LastDelete(r) \/ CleanupOk(r) \/ CleanupErr(r) \/ RevokeOk(r) \/ RevokeErr(r)
  PROVE  [Contract!ContractNext]_Contract!contractVars
  <1>1. /\ \/ /\ pc[r] = "cleanup" /\ pc'[r] \in {"failed", "cleanupwal"}
              /\ DeleteUser(userid[r]) \/ users' = users
           \/ pc[r] = "lastdelete" /\ pc'[r] = "failed" /\ DeleteUser(userid[r])
           \/ /\ pc[r] = "lastdelete" /\ pc'[r] = IF Entry(r) \in wal THEN "failed" ELSE "stranded"
              /\ DeleteUser(userid[r]) \/ users' = users
           \/ pc[r] = "revoking" /\ pc'[r] \in {"revoking", "revoked"} /\ DeleteUser(userid[r])
        /\ \A q \in Requests \ {r} : pc'[q] = pc[q]
        /\ UNCHANGED <<wal, late, attempt, userid>>
    BY DEF LastDelete, CleanupOk, CleanupErr, RevokeOk, RevokeErr, DeleteUserErr, Goto,
       handler, CredentialInv, TypeOK
  <1>2. PICK n \in Attempts : n = Nonce(r)
    <2>1. Nonce(r) \in Attempts
      BY <1>1, NonceIsAttempt, IssuedAttempt DEF HoldSteps, LeaseSteps, CredentialInv
    <2> QED
      BY <2>1
  <1>3. users[userid[r]].owner = n
    BY <1>1, <1>2 DEF IssuanceInv, CreatorKept, CreatedSteps, LeaseSteps
  <1>4. /\ users' = users => SameAccount(n)
        /\ users' # users => AccountOf(n) \in There /\ AccountOf(n)' = "deleted"
        /\ DeleteUser(userid[r]) => AccountOf(n)' \notin There
        /\ \A u \in UserIds : SameUser(u)
                              \/ {users[u].owner, users'[u].owner} \subseteq {n, Nobody}
    BY <1>1, <1>2, <1>3, DeletedAccount
  <1>5. Only(n) /\ Nonce(r)' = n
    BY <1>1, <1>2, <1>4, HandlerOnly
  <1>6. CASE pc[r] = "cleanup" \/ (pc[r] = "lastdelete" /\ Entry(r) \in wal)
    <2>1. DutyOf(n) = "wal" /\ \E e \in wal : e.id = n
      <3>1. Entry(r) \in wal /\ Entry(r).id = n
        BY <1>2, <1>6 DEF CredentialInv, HeldEntryKept, HoldSteps, Entry
      <3> QED
        BY <3>1, DutyWal
    <2>2. SameDuty(n)
      BY <1>1, <2>1, WalKeepsDuty
    <2> QED
      BY <1>4, <1>5, <2>1, <2>2, AllowedIsStep DEF Allowed
  <1>7. CASE pc[r] = "revoking"
    <2>1. (\A e \in wal : e.id # n) /\ (\A e \in wal' : e.id # n)
      BY <1>1, <1>2, <1>7, IssuedAttempt DEF LeaseSteps
    <2>2. DutyOf(n) = "ending"
      BY <1>2, <1>7, <2>1, ReadNow DEF ReadOff, CredentialInv
    <2>3. CASE pc'[r] = "revoking"
      <3>1. SameDuty(n)
        BY <1>5, <2>1, <2>2, <2>3, ReadNext DEF ReadOff, SameDuty
      <3> QED
        BY <1>4, <1>5, <2>2, <3>1, AllowedIsStep DEF Allowed
    <2>4. CASE pc'[r] = "revoked"
      <3>1. DutyOf(n)' = "done"
        BY <1>5, <2>1, <2>4, ReadNext DEF ReadOff, Bearing
      <3>2. IF AccountOf(n) \in There THEN AccountOf(n)' = "deleted" ELSE SameAccount(n)
        BY <1>1, <1>4, <1>7 DEF SameAccount
      <3> QED
        BY <1>5, <2>2, <3>1, <3>2, AllowedIsStep DEF Allowed
    <2> QED
      BY <1>1, <1>7, <2>3, <2>4
  <1>8. CASE pc[r] = "lastdelete" /\ Entry(r) \notin wal
    <2>1. (\A e \in wal : e.id # n) /\ (\A e \in wal' : e.id # n)
      BY <1>1, <1>2, <1>8, EntryIsOwn
    <2>2. DutyOf(n) = "recalled"
      BY <1>2, <1>8, <2>1, ReadNow DEF ReadOff, CredentialInv
    <2>3. CASE pc'[r] = "failed"
      <3>1. DutyOf(n)' = "done"
        BY <1>5, <2>1, <2>3, ReadNext DEF ReadOff, Bearing
      <3>2. IF AccountOf(n) \in There THEN AccountOf(n)' = "deleted" ELSE SameAccount(n)
        BY <1>1, <1>4, <1>8, <2>3 DEF SameAccount
      <3> QED
        BY <1>5, <2>2, <3>1, <3>2, AllowedIsStep DEF Allowed
    <2>4. CASE pc'[r] = "stranded"
      <3>1. DutyOf(n)' = "lost"
        BY <1>5, <2>1, <2>4, ReadNext DEF ReadOff, Forgotten
      <3>2. SameAccount(n) \/ (AccountOf(n) \in There /\ AccountOf(n)' = "deleted")
        BY <1>4
      <3>3. Allowed(n)
        BY <2>2, <3>1, <3>2 DEF Allowed
      <3> QED
        BY <1>5, <3>3, AllowedIsStep
    <2> QED
      BY <1>1, <1>8, <2>3, <2>4
  <1>9. pc[r] \in {"cleanup", "lastdelete", "revoking"}
    BY <1>1
  <1> QED
    BY <1>6, <1>7, <1>8, <1>9

\* A new attempt is made when the earlier ones have come to nothing.
LEMMA Opens ==
  ASSUME CredentialInv, TypeOK', NEW r \in Requests, NEW v \in UserIds,
         pc[r] = "attempt", LogAttempt(r, v), UNCHANGED <<users, late>>,
         Goto(r, "create") \/ Goto(r, "failed")
  PROVE  [Contract!ContractNext]_Contract!contractVars
  <1> DEFINE k == attempt[r] + 1
             n == <<r, k>>
  <1>1. /\ pc'[r] \in {"create", "failed"} /\ \A q \in Requests \ {r} : pc'[q] = pc[q]
        /\ attempt'[r] = k /\ \A q \in Requests \ {r} : attempt'[q] = attempt[q]
        /\ userid'[r] = v /\ \A q \in Requests \ {r} : userid'[q] = userid[q]
        /\ wal' = wal \cup {[id |-> n, user |-> v, nonce |-> n]}
        /\ attempt[r] \in Nat /\ k \in Nat
    BY RetriesAssumption DEF LogAttempt, PutWAL, Goto, CredentialInv, TypeOK
  <1>2. PICK a \in Attempts : a = n /\ a[1] = r /\ a[2] = k
    <2>1. k \in 1 .. MaxCollisionRetries
      BY <1>1, RetriesAssumption DEF CredentialInv, AttemptsLeft, TypeOK
    <2> HIDE DEF k
    <2>2. n \in Attempts
      BY <2>1 DEF Attempts
    <2> QED
      BY <2>2
  <1>3. \A u \in UserIds, j \in 1 .. MaxCollisionRetries : users[u].owner # <<r, j>>
    <2> SUFFICES ASSUME NEW u \in UserIds, NEW j \in 1 .. MaxCollisionRetries,
                        users[u].owner = <<r, j>>
                 PROVE  FALSE
      OBVIOUS
    <2>1. <<r, j>> # Nobody
      BY TagAssumption DEF Attempts
    <2>2. PICK q \in Requests : users[u].owner = Nonce(q) /\ pc[q] \in AfterCreate
      BY <2>1 DEF CredentialInv, OwnerIsLatest
    <2>3. q = r
      BY <2>2 DEF Nonce
    <2> QED
      BY <1>1, <2>2, <2>3 DEF AfterCreate, CreatedSteps, LeaseSteps, Outcomes
  <1>4. \A c \in late : c.by[1] # r
    <2> SUFFICES ASSUME NEW c \in late PROVE c.by[1] # r
      OBVIOUS
    <2>1. PICK q \in Requests : c.by = Nonce(q) /\ pc[q] \in {"failed", "crashed"}
      BY DEF CredentialInv, LateIsCovered
    <2> QED
      BY <1>1, <2>1 DEF Nonce
  <1>5. \A e \in wal : e.id # a
    BY <1>1, <1>2, TagAssumption DEF CredentialInv, WalIsFaithful, Attempts
  <1>6. DutyOf(a) = "none" /\ AccountOf(a) = "none"
    <2>1. userid[r] \in UserIds /\ a[2] > attempt[a[1]] /\ users[userid[a[1]]].owner # a
      BY <1>1, <1>2, <1>3, RetriesAssumption, AttemptParts DEF CredentialInv, TypeOK
    <2> QED
      BY <2>1 DEF DutyOf, AccountOf
  <1>7. DutyOf(a)' = "wal" /\ AccountOf(a)' \in {"asked", "refused"}
    <2>1. ~(a[2] > attempt'[a[1]]) /\ \E e \in wal' : e.id = a
      <3>1. [id |-> n, user |-> v, nonce |-> n] \in wal'
        BY <1>1
      <3>2. a[2] = attempt'[a[1]] /\ a[2] \in Nat
        BY <1>1, <1>2
      <3> QED
        BY <1>2, <3>1, <3>2
    <2>2. users'[userid'[a[1]]].owner # a
      BY <1>1, <1>2, <1>3, AttemptParts
    <2> QED
      BY <2>1, <2>2 DEF DutyOf, AccountOf
  <1>8. ASSUME NEW m \in Attempts, m[1] # r
        PROVE  DutyOf(m)' = DutyOf(m) /\ AccountOf(m)' = AccountOf(m)
    <2>1. /\ m[1] \in Requests \ {r} /\ Nonce(m[1])' = Nonce(m[1]) /\ m # a
          /\ pc'[m[1]] = pc[m[1]] /\ attempt'[m[1]] = attempt[m[1]] /\ userid'[m[1]] = userid[m[1]]
      BY <1>1, <1>2, <1>8, AttemptParts DEF Nonce
    <2>2. (\E e \in wal' : e.id = m) <=> (\E e \in wal : e.id = m)
      BY <1>1, <1>2, <2>1
    <2> QED
      BY <1>1, <2>1, <2>2 DEF DutyOf, AccountOf, Awaited
  <1>9. ASSUME NEW m \in Attempts \ {a}, m[1] = r
        PROVE  /\ DutyOf(m)' = DutyOf(m) /\ AccountOf(m)' = AccountOf(m)
               /\ DutyOf(m) \in {"none", "done"} /\ AccountOf(m) \in {"none", "refused"}
    <2>1. m = <<r, m[2]>> /\ m[2] \in 1 .. MaxCollisionRetries /\ m[2] # k
      BY <1>2, <1>9, AttemptParts
    <2>2. m[2] > attempt[r] <=> m[2] > attempt'[r]
      BY <1>1, <2>1
    <2>3. (\E e \in wal' : e.id = m) <=> (\E e \in wal : e.id = m)
      BY <1>1, <1>2
    <2>4. users[userid[r]].owner # m /\ users'[userid'[r]].owner # m
      BY <1>1, <1>3, <2>1 DEF CredentialInv, TypeOK
    <2>5. ~Awaited(m) /\ ~Awaited(m)'
      BY <1>1, <1>2, <1>4, <1>9 DEF Awaited, Nonce
    <2>6. AccountOf(m)' = AccountOf(m) /\ AccountOf(m) \in {"none", "refused"}
      BY <1>9, <2>2, <2>4, <2>5 DEF AccountOf
    <2>7. DutyOf(m)' = DutyOf(m) /\ DutyOf(m) \in {"none", "done"}
      <3>1. ~(\E e \in wal : e.id = m)
        BY <1>1, <1>9, <2>1, AttemptParts DEF CredentialInv, WalIsFaithful
      <3>2. m # Nonce(r) \/ pc[r] \notin Telling
        BY DEF Telling, Bearing
      <3>3. m # Nonce(r)'
        BY <1>1, <2>1 DEF Nonce
      <3> QED
        BY <1>1, <1>9, <2>2, <2>3, <3>1, <3>2, <3>3 DEF DutyOf, Telling, Bearing, Forgotten
    <2> QED
      BY <2>6, <2>7
  <1>10. Only(a)
    BY <1>8, <1>9 DEF Only
  <1>11. Contract!Open(a, AccountOf(a)')
    BY <1>2, <1>6, <1>7, <1>9, <1>10, OnlyOne DEF Contract!Open, Contract!Pass, Contract!Turn
  <1> QED
    BY <1>7, <1>11 DEF Contract!ContractNext

-----------------------------------------------------------------------------
(* The rollback and the environment *)

\* The rollback deletes an account that the WAL answers for.
LEMMA RollbackDeletes ==
  ASSUME CredentialInv, IssuanceInv, TypeOK', rb.pc = "delete", DeleteUser(rb.entry.user),
         UNCHANGED <<late, wal, pc, attempt, userid>>
  PROVE  [Contract!ContractNext]_Contract!contractVars
  <1> DEFINE v == rb.entry.user
  <1>1. /\ v \in UserIds /\ rb.entry \in wal
        /\ rb.entry.nonce # NoComment /\ users[v].comment = rb.entry.nonce
    BY DEF CredentialInv, TypeOK, RollbackIsSafe, Rollbacks, WalEntries, IssuanceInv,
       ProofStillHolds, OwnershipProved
  <1>2. rb.entry.id # LegacyId /\ rb.entry.nonce = rb.entry.id
    BY <1>1 DEF CredentialInv, WalIsFaithful
  <1>3. users[v].owner = rb.entry.id
    <2>1. users[v].comment \in {users[v].owner, NoComment}
      BY <1>1 DEF IssuanceInv, CreatorKept
    <2> QED
      BY <1>1, <1>2, <2>1
  <1>4. PICK n \in Attempts : n = rb.entry.id
    BY <1>1, <1>2 DEF CredentialInv, TypeOK, WalEntries
  <1>5. PICK r \in Requests : n = Nonce(r) /\ userid[r] = v
    <2>1. users[v].owner # Nobody
      BY <1>3, <1>4, AttemptParts
    <2> QED
      BY <1>1, <1>3, <1>4, <2>1 DEF CredentialInv, OwnerIsLatest
  <1>6. /\ users' = users => SameAccount(n)
        /\ users' # users => AccountOf(n) \in There /\ AccountOf(n)' = "deleted"
        /\ \A u \in UserIds : SameUser(u)
                              \/ {users[u].owner, users'[u].owner} \subseteq {n, Nobody}
    BY <1>3, <1>4, <1>5, DeletedAccount
  <1>7. Only(n)
    BY <1>5, <1>6, HandlerOnly
  <1>8. DutyOf(n) = "wal" /\ SameDuty(n)
    BY <1>1, <1>4, DutyWal, WalKeepsDuty
  <1> QED
    BY <1>6, <1>7, <1>8, AllowedIsStep DEF Allowed

\* The rollback drops the entry of an account that is gone, was never made, or
\* is not provably the engine's.
LEMMA RollbackSettles ==
  ASSUME CredentialInv, IssuanceInv, TypeOK', RollbackDropWAL
  PROVE  [Contract!ContractNext]_Contract!contractVars
  <1>1. /\ rb.pc = "drop" /\ wal' = {e \in wal : e.id # rb.entry.id}
        /\ UNCHANGED <<users, late, pc, attempt, userid>>
    BY DEF RollbackDropWAL, DeleteWAL, handler
  <1>2. /\ rb.entry \in wal /\ Aged(rb.entry) /\ rb.entry \in WalEntries
        /\ LET u == users[rb.entry.user] IN
           ~(u.st = "present" /\ u.owner # Nobody /\ u.owner = rb.entry.nonce
             /\ u.comment = u.owner)
    BY <1>1 DEF CredentialInv, TypeOK, RollbackIsSafe
  <1>3. \A m \in Attempts : SameAccount(m)
    BY <1>1 DEF SameAccount, AccountOf, Awaited, Nonce
  <1>4. \A m \in Attempts : m # rb.entry.id => SameDuty(m)
    <2> SUFFICES ASSUME NEW m \in Attempts, m # rb.entry.id PROVE SameDuty(m)
      OBVIOUS
    <2>1. (\E e \in wal' : e.id = m) <=> (\E e \in wal : e.id = m)
      BY <1>1
    <2>2. Nonce(m[1])' = Nonce(m[1])
      BY <1>1 DEF Nonce
    <2> QED
      BY <1>1, <2>1, <2>2 DEF SameDuty, DutyOf
  <1>5. CASE rb.entry.id = LegacyId
    <2>1. \A m \in Attempts : SameDuty(m)
      BY <1>4, <1>5, AttemptParts
    <2> QED
      BY <1>3, <2>1 DEF SameDuty, SameAccount, Contract!contractVars
  <1>6. CASE rb.entry.id # LegacyId
    <2>1. PICK n \in Attempts : n = rb.entry.id
      BY <1>2, <1>6 DEF WalEntries
    <2>2. PICK r \in Requests : n = Nonce(r) /\ rb.entry.user = userid[r] /\ n[1] = r
      <3>1. n = <<n[1], n[2]>> /\ n[1] \in Requests /\ n[2] \in 1 .. MaxCollisionRetries
        BY AttemptParts
      <3>2. n = Nonce(n[1])
        BY <1>2, <1>6, <2>1, <3>1 DEF CredentialInv, WalIsFaithful, Nonce
      <3> QED
        BY <1>2, <1>6, <2>1, <3>1, <3>2 DEF CredentialInv, WalIsFaithful
    <2>3. ~Awaited(n)
      BY <1>2, <2>1, <2>2 DEF Aged, Holds, HoldSteps, Awaited
    <2>4. AccountOf(n) \notin {"asked", "proved"}
      <3> DEFINE u == users[userid[r]]
      <3>1. rb.entry.nonce = n /\ n # Nobody
        BY <1>2, <1>6, <2>1, AttemptParts DEF CredentialInv, WalIsFaithful
      <3>2. ~(u.st = "present" /\ u.owner = n /\ u.comment = n)
        BY <1>2, <2>2, <3>1
      <3>3. u.st \in {"never", "present", "deleted", "removed"}
        BY <2>2 DEF CredentialInv, TypeOK, Users
      <3> QED
        BY <2>2, <2>3, <3>2, <3>3, ReadNow DEF ReadOff, CredentialInv
    <2>5. DutyOf(n) = "wal"
      BY <1>2, <2>1, DutyWal
    <2>6. DutyOf(n)' = "done"
      <3>1. pc'[r] \notin Bearing
        BY <1>1, <1>2, <2>1, <2>2 DEF IssuanceInv, IssuedIsCommitted, LeaseSteps, Forgotten,
           Bearing, Aged, Holds, HoldSteps
      <3>2. n = Nonce(r)'
        BY <1>1, <2>2 DEF Nonce
      <3>3. \A e \in wal' : e.id # n
        BY <1>1, <2>1
      <3> QED
        BY <3>1, <3>2, <3>3, ReadNext DEF ReadOff
    <2>7. Only(n)
      BY <1>3, <1>4, <2>1 DEF Only, SameDuty, SameAccount
    <2> QED
      BY <1>3, <2>4, <2>5, <2>6, <2>7, AllowedIsStep DEF Allowed
  <1> QED
    BY <1>5, <1>6

\* Every step of the rollback.
LEMMA RollbackSteps ==
  ASSUME CredentialInv, IssuanceInv, TypeOK', Rollback
  PROVE  [Contract!ContractNext]_Contract!contractVars
  <1>1. CASE RollbackDropWAL
    BY <1>1, RollbackSettles
  <1>2. CASE \/ RollbackDeleteUser
             \/ rb.pc = "delete" /\ DeleteUser(rb.entry.user) /\ RollbackErr
    BY <1>2, RollbackDeletes DEF RollbackDeleteUser, RollbackErr, handler
  <1>3. CASE users' = users /\ ~RollbackDropWAL
    <2>1. UNCHANGED <<attempt, userid, wal, late, pc>>
      BY <1>3 DEF Rollback, RollbackStart, RollbackGetUser, RollbackDeleteUser, RollbackErr,
         RollbackDropErr, handler
    <2>2. \A u \in UserIds : SameUser(u)
      BY <1>3 DEF SameUser
    <2> QED
      BY <2>1, <2>2, Silent
  <1> QED
    BY <1>1, <1>2, <1>3 DEF Rollback, RollbackStart, RollbackGetUser, RollbackErr,
       RollbackDropErr, DeleteUserErr

\* PVE executes a CreateUser whose caller has given up, or never does.
LEMMA LateSteps ==
  ASSUME ~UseridReuse, CredentialInv, IssuanceInv, TypeOK', NEW c \in late,
         \/ \E comment \in Comments(c.by), inGroup \in BOOLEAN :
              LateCreate(c, comment, inGroup)
         \/ LateDrop(c)
  PROVE  [Contract!ContractNext]_Contract!contractVars
  <1>1. PICK n \in Attempts : n = c.by
    BY DEF CredentialInv, TypeOK, Creates
  <1>2. PICK r \in Requests : n = Nonce(r) /\ c.user = userid[r] /\ n[1] = r
    <2>1. PICK r \in Requests : n = Nonce(r) /\ c.user = userid[r]
      BY <1>1 DEF CredentialInv, LateIsCovered
    <2>2. n[1] = r
      BY <2>1 DEF Nonce
    <2> QED
      BY <2>1, <2>2
  <1>3. DutyOf(n) = "wal" /\ \E e \in wal : e.id = n
    <2>1. [id |-> n, user |-> c.user, nonce |-> n] \in wal
      BY <1>1 DEF CredentialInv, LateIsCovered
    <2>2. PICK e \in wal : e.id = n
      BY <2>1
    <2> QED
      BY <2>2, DutyWal
  <1>4. Awaited(n)
    BY <1>1 DEF Awaited
  <1>5. users[userid[r]].owner # n => AccountOf(n) = "asked"
    BY <1>2, <1>4, ReadNow DEF ReadOff, CredentialInv
  <1>6. ASSUME NEW comment \in Comments(n), NEW inGroup \in BOOLEAN,
               LateCreate(c, comment, inGroup)
        PROVE  [Contract!ContractNext]_Contract!contractVars
    <2>1. users[userid[r]].owner # n /\ Creatable(userid[r])
      <3>1. Creatable(userid[r]) /\ users[userid[r]].st = "never" /\ userid[r] \in UserIds
        BY <1>2, <1>6 DEF LateCreate, Creatable, CredentialInv, TypeOK
      <3>2. users[userid[r]].owner = Nobody
        BY <3>1 DEF IssuanceInv, CreatorKept
      <3> QED
        BY <3>1, <3>2, AttemptParts
    <2>2. AccountOf(n) = "asked"
      BY <1>5, <2>1
    <2>3. /\ CreateUser(userid[r], n, comment, inGroup) /\ UNCHANGED <<wal, handler, pc>>
          /\ late' = late \ {c}
      BY <1>1, <1>2, <1>6 DEF LateCreate
    <2>4. /\ \A q \in Requests \ {r} : pc'[q] = pc[q]
          /\ late' \subseteq late /\ \A d \in late \ late' : d.by = n
      BY <1>1, <2>3
    <2>5. n = Nonce(r) /\ DutyOf(n) = "wal" /\ \E e \in wal : e.id = n
      BY <1>2, <1>3
    <2> QED
      BY <2>1, <2>2, <2>3, <2>4, <2>5, Makes
  <1>7. CASE LateDrop(c)
    <2>1. UNCHANGED <<users, wal, pc, attempt, userid>> /\ late' = late \ {c}
      BY <1>7 DEF LateDrop, handler
    <2>2. Only(n)
      <3>1. \A m \in Attempts \ {n} : (\E d \in late' : d.by = m) <=> (\E d \in late : d.by = m)
        BY <1>1, <2>1
      <3>2. \A u \in UserIds : SameUser(u)
        BY <2>1 DEF SameUser
      <3> QED
        BY <2>1, <3>1, <3>2, OthersKept
    <2>3. SameDuty(n)
      BY <1>3, <2>1, WalKeepsDuty
    <2>4. Nonce(r)' = n
      BY <1>2, <2>1 DEF Nonce
    <2>5. CASE users[userid[r]].owner = n
      <3>1. SameAccount(n)
        BY <1>2, <2>1, <2>5 DEF SameAccount, AccountOf
      <3> QED
        BY <2>2, <2>3, <3>1, AllowedIsStep DEF Allowed
    <2>6. CASE users[userid[r]].owner # n
      <3>1. AccountOf(n)' \in {"asked", "refused"}
        BY <2>1, <2>4, <2>6, ReadNext DEF ReadOff
      <3> QED
        BY <1>5, <2>2, <2>3, <2>6, <3>1, AllowedIsStep DEF Allowed, SameAccount
    <2> QED
      BY <2>5, <2>6
  <1> QED
    BY <1>1, <1>6, <1>7

\* An operator removes an account, whosever duty it is.
LEMMA Removes ==
  ASSUME CredentialInv, TypeOK', NEW v \in UserIds, OperatorRemove(v)
  PROVE  [Contract!ContractNext]_Contract!contractVars
  <1>1. /\ users[v].st = "present" /\ users'[v].st = "removed"
        /\ users'[v].owner = users[v].owner
        /\ \A u \in UserIds \ {v} : users'[u] = users[u]
        /\ UNCHANGED <<late, wal, pc, attempt, userid>>
    BY DEF OperatorRemove, Present, handler, CredentialInv, TypeOK, Users
  <1>2. CASE users[v].owner = Nobody
    <2>1. \A u \in UserIds : SameUser(u) \/ {users[u].owner, users'[u].owner} = {Nobody}
      BY <1>1, <1>2 DEF SameUser
    <2> QED
      BY <1>1, <2>1, Silent
  <1>3. CASE users[v].owner # Nobody
    <2>1. PICK r \in Requests : users[v].owner = Nonce(r) /\ userid[r] = v
      BY <1>3 DEF CredentialInv, OwnerIsLatest
    <2>2. PICK n \in Attempts : n = Nonce(r)
      BY <1>3, <2>1 DEF CredentialInv, TypeOK, Users
    <2>3. \A u \in UserIds : \/ SameUser(u)
                             \/ {users[u].owner, users'[u].owner} \subseteq {n, Nobody}
      BY <1>1, <2>1, <2>2 DEF SameUser
    <2>4. Only(n) /\ Nonce(r)' = n
      BY <1>1, <2>2, <2>3, HandlerOnly
    <2>5. SameDuty(n)
      BY <1>1, <2>2 DEF SameDuty, DutyOf, Nonce
    <2>6. AccountOf(n) \in There
      BY <1>1, <2>1, <2>2, ReadNow DEF ReadOff, CredentialInv, There
    <2>7. AccountOf(n)' = "removed"
      <3>1. users'[userid'[r]].owner = n /\ users'[userid'[r]].st = "removed"
        BY <1>1, <2>1, <2>2
      <3> QED
        BY <2>4, <3>1, ReadNext DEF ReadOff
    <2> QED
      BY <2>4, <2>5, <2>6, <2>7, AllowedIsStep DEF Allowed
  <1> QED
    BY <1>2, <1>3

\* A crash: calls that were not sent are never made, and what was in the hands of a
\* handler is lost.
LEMMA Dies ==
  ASSUME CredentialInv, IssuanceInv, TypeOK', NEW inflight \in SUBSET Requests, Crash(inflight)
  PROVE  [Contract!ContractNext]_Contract!contractVars
  <1>1. /\ UNCHANGED <<users, wal, attempt, userid>>
        /\ \A q \in inflight : pc[q] = "create"
        /\ late' = late \cup {[by |-> Nonce(q), user |-> userid[q]] : q \in inflight}
        /\ \A q \in Requests :
             pc'[q] = IF pc[q] = "respond" THEN "lost"
                      ELSE IF pc[q] = "lastdelete" /\ Entry(q) \notin wal THEN "stranded"
                      ELSE IF pc[q] \in HandlerSteps THEN "crashed" ELSE pc[q]
    BY DEF Crash, handler
  <1>2. \A q \in Requests : Nonce(q)' = Nonce(q)
    BY <1>1 DEF Nonce
  <1>3. \A q \in Requests :
          \/ pc[q] = "respond" /\ pc'[q] = "lost"
          \/ pc[q] = "lastdelete" /\ Entry(q) \notin wal /\ pc'[q] = "stranded"
          \/ pc[q] = "lastdelete" /\ Entry(q) \in wal /\ pc'[q] = "crashed"
          \/ pc[q] \notin Bearing /\ pc'[q] = "crashed"
          \/ pc[q] \notin {"respond", "lastdelete", "create"} /\ pc'[q] = pc[q]
    BY <1>1 DEF HandlerSteps, HoldSteps, Bearing
  <1>4. ASSUME NEW m \in Attempts
        PROVE  /\ DutyOf(m)' = IF DutyOf(m) \in {"offered", "recalled"} THEN "lost" ELSE DutyOf(m)
               /\ \/ AccountOf(m)' = AccountOf(m)
                  \/ AccountOf(m) = "asked" /\ AccountOf(m)' = "refused"
    <2>1. m[1] \in Requests /\ Nonce(m[1])' = Nonce(m[1])
      BY <1>2, AttemptParts
    <2>2. Awaited(m)' => Awaited(m)
      <3> SUFFICES ASSUME Awaited(m)' PROVE Awaited(m)
        OBVIOUS
      <3>1. pc'[m[1]] # "create"
        BY <1>3, <2>1
      <3>2. PICK c \in late' : c.by = m
        BY <3>1 DEF Awaited
      <3>3. CASE c \in late
        BY <3>2, <3>3 DEF Awaited
      <3>4. CASE c \notin late
        <4>1. PICK q \in inflight : c = [by |-> Nonce(q), user |-> userid[q]]
          BY <1>1, <3>2, <3>4
        <4>2. m = Nonce(q) /\ pc[q] = "create"
          BY <1>1, <3>2, <4>1
        <4>3. m[1] = q
          BY <4>2 DEF Nonce
        <4> QED
          BY <4>2, <4>3 DEF Awaited
      <3> QED
        BY <3>3, <3>4
    <2>3. \/ AccountOf(m)' = AccountOf(m)
          \/ AccountOf(m) = "asked" /\ AccountOf(m)' = "refused"
      BY <1>1, <2>2 DEF AccountOf
    <2>4. CASE m # Nonce(m[1])
      BY <1>1, <2>1, <2>3, <2>4 DEF DutyOf, Forgotten
    <2>5. CASE m = Nonce(m[1])
      <3>1. CASE pc[m[1]] = "respond" /\ pc'[m[1]] = "lost"
        BY <1>1, <2>1, <2>3, <2>5, <3>1 DEF DutyOf, Forgotten
      <3>2. CASE /\ pc[m[1]] = "lastdelete" /\ Entry(m[1]) \notin wal
                 /\ pc'[m[1]] = "stranded"
        <4>1. \A e \in wal : e.id # m
          BY <2>1, <2>5, <3>2, EntryIsOwn
        <4> QED
          BY <1>1, <2>1, <2>3, <2>5, <3>2, <4>1 DEF DutyOf, Forgotten
      <3>3. CASE /\ pc[m[1]] = "lastdelete" /\ Entry(m[1]) \in wal
                 /\ pc'[m[1]] = "crashed"
        <4>1. \E e \in wal : e.id = m
          <5>1. Entry(m[1]).id = m
            BY <2>5 DEF Entry
          <5> QED
            BY <3>3, <5>1
        <4> QED
          BY <1>1, <2>3, <4>1 DEF DutyOf
      <3>4. CASE pc[m[1]] \notin Bearing /\ pc'[m[1]] = "crashed"
        BY <1>1, <2>1, <2>3, <2>5, <3>4 DEF DutyOf, Bearing, Forgotten
      <3>5. CASE /\ pc[m[1]] \notin {"respond", "lastdelete", "create"}
                 /\ pc'[m[1]] = pc[m[1]]
        BY <1>1, <2>1, <2>3, <2>5, <3>5 DEF DutyOf, Forgotten
      <3> QED
        BY <1>3, <2>1, <3>1, <3>2, <3>3, <3>4, <3>5
    <2> QED
      BY <2>4, <2>5
  <1> DEFINE unsent == {m \in Attempts : AccountOf(m) = "asked" /\ AccountOf(m)' = "refused"}
  <1>5. /\ [m \in Attempts |-> DutyOf(m)]' =
             [m \in Attempts |->
                IF DutyOf(m) \in {"offered", "recalled"} THEN "lost" ELSE DutyOf(m)]
        /\ [m \in Attempts |-> AccountOf(m)]' =
             [m \in Attempts |-> IF m \in unsent THEN "refused" ELSE AccountOf(m)]
    BY <1>4
  <1>6. Contract!Die(unsent)
    BY <1>5 DEF Contract!Die
  <1>7. unsent \in SUBSET {m \in Attempts : [n \in Attempts |-> AccountOf(n)][m] = "asked"}
    OBVIOUS
  <1> HIDE DEF unsent
  <1> QED
    BY <1>6, <1>7 DEF Contract!ContractNext

-----------------------------------------------------------------------------
(* The theorems *)

\* At first nothing is owed.
LEMMA ContractBegins == Init => Contract!ContractInit
  <1> SUFFICES ASSUME Init PROVE Contract!ContractInit
    OBVIOUS
  <1>1. ASSUME NEW m \in Attempts
        PROVE  DutyOf(m) = "none" /\ AccountOf(m) = "none"
    <2>1. m[1] \in Requests /\ m[2] \in Nat \ {0} /\ m # Nobody
      BY AttemptParts, RetriesAssumption
    <2>2. m[2] > attempt[m[1]]
      BY <2>1 DEF Init
    <2>3. users[userid[m[1]]].owner = Nobody
      BY <2>1, AnyUserIsUser DEF Init
    <2> QED
      BY <2>1, <2>2, <2>3 DEF DutyOf, AccountOf
  <1> QED
    BY <1>1 DEF Contract!ContractInit

\* Every step of the engine is one of the contract, or none.
LEMMA ContractSteps ==
  ASSUME ~UseridReuse, CredentialInv, IssuanceInv, TypeOK', [Next]_vars
  PROVE  [Contract!ContractNext]_Contract!contractVars
  <1>1. CASE UNCHANGED vars
    <2>1. UNCHANGED <<users, late, wal, pc, attempt, userid>>
      BY <1>1 DEF vars
    <2> QED
      BY <2>1, Silent DEF SameUser
  <1>2. ASSUME NEW r \in Requests, Issue(r) \/ Lease(r)
        PROVE  [Contract!ContractNext]_Contract!contractVars
    <2>1. ASSUME NEW comment \in Comments(Nonce(r)), NEW inGroup \in BOOLEAN,
                 CreateUserOk(r, comment, inGroup)
          PROVE  [Contract!ContractNext]_Contract!contractVars
      <3>1. pc[r] = "create" /\ \A q \in Requests \ {r} : pc'[q] = pc[q]
        BY <2>1 DEF CreateUserOk, Goto, CredentialInv, TypeOK
      <3>2. PICK n \in Attempts : n = Nonce(r)
        BY <3>1, AtCreate
      <3>3. DutyOf(n) = "wal" /\ AccountOf(n) = "asked" /\ \E e \in wal : e.id = n
        BY <3>1, <3>2, AtCreate
      <3>4. /\ Creatable(userid[r]) /\ CreateUser(userid[r], n, comment, inGroup)
            /\ UNCHANGED <<wal, handler>> /\ late' = late
        BY <2>1, <3>2 DEF CreateUserOk
      <3> QED
        BY <3>1, <3>2, <3>3, <3>4, Makes
    <2>2. CASE (\E u \in UserIds : PutWALOk(r, u)) \/ PutWALErr(r)
      BY <2>2, QuietSteps, Opens DEF PutWALOk, PutWALErr
    <2>3. CASE \/ CollisionDeleteWALOk(r) \/ CollisionDeleteWALErr(r) \/ IssueDeleteWALOk(r)
               \/ IssueDeleteWALErr(r) \/ CleanupDeleteWAL(r)
      BY <2>3, EntryGoes
    <2>4. CASE LastDelete(r) \/ CleanupOk(r) \/ CleanupErr(r) \/ RevokeOk(r) \/ RevokeErr(r)
      BY <2>4, Deletes
    <2> QED
      BY <1>2, <2>1, <2>2, <2>3, <2>4, QuietSteps, CreateFails, LeaseMoves DEF Issue, Lease
  <1>3. CASE Rollback
    BY <1>3, RollbackSteps
  <1>4. CASE Environment
    <2>1. CASE ConfigWrite \/ ConfigDelete
      <3>1. UNCHANGED <<users, late, wal, pc, attempt, userid>>
        BY <2>1 DEF ConfigWrite, ConfigDelete, handler
      <3> QED
        BY <3>1, Silent DEF SameUser
    <2> QED
      BY <1>4, <2>1, LateSteps, Removes, Dies DEF Environment
  <1> QED
    BY <1>1, <1>2, <1>3, <1>4 DEF Next

\* If no suffix is ever drawn twice, the engine keeps its contract: the WAL, a lease
\* or the handler between them answers for every account from before PVE can make it
\* until it is gone, or until that handler crashes or fails to take it back; and no
\* handler, rollback or revocation deletes one that is another's to delete.
THEOREM EngineKeepsContract ==
  ASSUME ~UseridReuse
  PROVE  Spec => Accountable
  <1>1. CredentialInv /\ CredentialInv' /\ IssuanceInv /\ [Next]_vars
        => [Contract!ContractNext]_Contract!contractVars
    BY ContractSteps DEF CredentialInv
  <1> QED
    BY <1>1, ContractBegins, CredentialInvariant, IssuanceInvariant, PTL
    DEF Spec, Accountable, Contract!ContractSpec

\* The engine that knows only the ages of its entries keeps the same contract.
THEOREM TimedEngineKeepsContract ==
  ASSUME ~UseridReuse, MinAgeSuffices
  PROVE  TimedSpec => Accountable
  BY EngineKeepsContract, ClockImplements, PTL DEF Untimed

-----------------------------------------------------------------------------
(* What the contract comes to *)

\* The first try of a read, or one after tries that came to nothing.
Opened(n) ==
  /\ DutyOf(n) = "none" /\ DutyOf(n)' = "wal"
  /\ AccountOf(n) = "none" /\ AccountOf(n)' \in {"asked", "refused"}
  /\ \A m \in Attempts \ {n} : m[1] = n[1] =>
       DutyOf(m) \in {"none", "done"} /\ AccountOf(m) \in {"none", "refused"}

\* A step of the contract concerns one attempt, or is a crash.
LEMMA StepIsAllowed ==
  ASSUME NEW n \in Attempts,
         \/ \E how \in {"asked", "refused"} : Contract!Open(n, how)
         \/ \E how \in Contract!Exists : Contract!Make(n, how)
         \/ Contract!Forgo(n) \/ Contract!Settle(n) \/ Contract!Offer(n)
         \/ Contract!Recall(n) \/ Contract!Abandon(n)
         \/ Contract!Register(n) \/ Contract!End(n) \/ Contract!Delete(n)
         \/ Contract!Fulfil(n) \/ Contract!Remove(n)
  PROVE  Only(n) /\ (Opened(n) \/ Allowed(n))
  <1> USE DEF Contract!Pass, Contract!Turn, Contract!Exists, There, SameDuty, SameAccount
  <1>1. Only(n)
    BY DEF Only, Contract!Open, Contract!Make, Contract!Forgo, Contract!Settle,
       Contract!Offer, Contract!Register, Contract!End, Contract!Delete,
       Contract!Fulfil, Contract!Remove, Contract!Recall, Contract!Abandon
  <1>2. CASE \E how \in {"asked", "refused"} : Contract!Open(n, how)
    BY <1>1, <1>2 DEF Contract!Open, Opened
  <1>3. CASE \E how \in Contract!Exists : Contract!Make(n, how)
    BY <1>1, <1>3 DEF Contract!Make, Allowed
  <1>4. CASE Contract!Forgo(n) \/ Contract!Settle(n) \/ Contract!Offer(n)
    BY <1>1, <1>4 DEF Contract!Forgo, Contract!Settle, Contract!Offer, Allowed
  <1>5. CASE Contract!Register(n) \/ Contract!End(n) \/ Contract!Remove(n)
    BY <1>1, <1>5 DEF Contract!Register, Contract!End, Contract!Remove, Allowed
  <1>6. CASE Contract!Delete(n) \/ Contract!Fulfil(n)
    BY <1>1, <1>6 DEF Contract!Delete, Contract!Fulfil, Allowed
  <1>7. CASE Contract!Recall(n)
    BY <1>1, <1>7 DEF Contract!Recall, Allowed
  <1>8. CASE Contract!Abandon(n)
    BY <1>1, <1>8 DEF Contract!Abandon, Allowed
  <1> QED
    BY <1>1, <1>2, <1>3, <1>4, <1>5, <1>6, <1>7, <1>8

\* AccountsKept, for one attempt and for two of the same read.
KeptOne(n) ==
  /\ DutyOf(n) \in Contract!Duties /\ AccountOf(n) \in Contract!Accounts
  /\ DutyOf(n) = "none" <=> AccountOf(n) = "none"
  /\ AccountOf(n) = "asked" => DutyOf(n) = "wal"
  /\ AccountOf(n) = "proved" => DutyOf(n) \notin {"none", "done"}
  /\ DutyOf(n) \in {"offered", "recalled", "lease"} => AccountOf(n) \in There \cup {"removed"}

Idle(n) == AccountOf(n) \in {"none", "refused"} /\ DutyOf(n) \in {"none", "done"}

LEMMA KeptParts ==
  Contract!AccountsKept <=>
    /\ \A n \in Attempts : KeptOne(n)
    /\ \A n, m \in Attempts : n # m /\ n[1] = m[1] => Idle(n) \/ Idle(m)
  BY DEF Contract!AccountsKept, Contract!Exists, There, KeptOne, Idle

LEMMA KeptPartsNext ==
  (Contract!AccountsKept <=>
    /\ \A n \in Attempts : KeptOne(n)
    /\ \A n, m \in Attempts : n # m /\ n[1] = m[1] => Idle(n) \/ Idle(m))'
  BY KeptParts, PTL

\* Every step of the contract preserves them.
LEMMA AccountsStayKept ==
  ASSUME Contract!AccountsKept, [Contract!ContractNext]_Contract!contractVars
  PROVE  Contract!AccountsKept'
  <1>1. /\ \A n \in Attempts : KeptOne(n)
        /\ \A n, m \in Attempts : n # m /\ n[1] = m[1] => Idle(n) \/ Idle(m)
    BY KeptParts
  <1> SUFFICES /\ \A n \in Attempts : KeptOne(n)'
               /\ \A n, m \in Attempts : n # m /\ n[1] = m[1] => Idle(n)' \/ Idle(m)'
    BY KeptPartsNext
  <1>2. ASSUME NEW n \in Attempts, DutyOf(n)' = DutyOf(n), AccountOf(n)' = AccountOf(n)
        PROVE  KeptOne(n)' /\ (Idle(n) => Idle(n)')
    BY <1>1, <1>2 DEF KeptOne, Idle
  <1>3. CASE UNCHANGED Contract!contractVars
    <2>1. \A n \in Attempts : DutyOf(n)' = DutyOf(n) /\ AccountOf(n)' = AccountOf(n)
      BY <1>3 DEF Contract!contractVars
    <2> QED
      BY <1>1, <1>2, <2>1
  <1>4. ASSUME NEW n \in Attempts, Only(n), Opened(n)
        PROVE  /\ \A m \in Attempts : KeptOne(m)'
               /\ \A k, m \in Attempts : k # m /\ k[1] = m[1] => Idle(k)' \/ Idle(m)'
    <2>1. KeptOne(n)'
      BY <1>4 DEF Opened, KeptOne, Contract!Duties, Contract!Accounts, Contract!Exists
    <2>2. \A m \in Attempts \ {n} : KeptOne(m)' /\ (Idle(m) => Idle(m)')
      BY <1>2, <1>4 DEF Only
    <2>3. \A m \in Attempts \ {n} : m[1] = n[1] => Idle(m)'
      BY <1>4, <2>2 DEF Opened, Idle
    <2> QED
      BY <1>1, <2>1, <2>2, <2>3
  <1>5. ASSUME NEW n \in Attempts, Only(n), Allowed(n)
        PROVE  /\ \A m \in Attempts : KeptOne(m)'
               /\ \A k, m \in Attempts : k # m /\ k[1] = m[1] => Idle(k)' \/ Idle(m)'
    <2>1. KeptOne(n)' /\ (Idle(n) => Idle(n)')
      BY <1>1, <1>5 DEF Allowed, SameDuty, SameAccount, There, KeptOne, Idle,
         Contract!Duties, Contract!Accounts, Contract!Exists
    <2>2. \A m \in Attempts \ {n} : KeptOne(m)' /\ (Idle(m) => Idle(m)')
      BY <1>2, <1>5 DEF Only
    <2>3. \A m \in Attempts : KeptOne(m)' /\ (Idle(m) => Idle(m)')
      BY <2>1, <2>2
    <2> QED
      BY <1>1, <2>3
  <1>6. ASSUME NEW unsent \in SUBSET {m \in Attempts : [n \in Attempts |-> AccountOf(n)][m] = "asked"},
               Contract!Die(unsent)
        PROVE  /\ \A m \in Attempts : KeptOne(m)'
               /\ \A k, m \in Attempts : k # m /\ k[1] = m[1] => Idle(k)' \/ Idle(m)'
    <2>1. \A m \in Attempts :
            /\ DutyOf(m)' = IF DutyOf(m) \in {"offered", "recalled"} THEN "lost" ELSE DutyOf(m)
            /\ \/ AccountOf(m)' = AccountOf(m)
               \/ AccountOf(m) = "asked" /\ AccountOf(m)' = "refused"
      BY <1>6 DEF Contract!Die
    <2>2. \A m \in Attempts : KeptOne(m)' /\ (Idle(m) => Idle(m)')
      BY <1>1, <2>1 DEF KeptOne, Idle, There, Contract!Duties, Contract!Accounts,
         Contract!Exists
    <2> QED
      BY <1>1, <2>2
  <1> QED
    BY <1>3, <1>4, <1>5, <1>6, StepIsAllowed DEF Contract!ContractNext

\* From the contract alone: no account is out of everybody's hands but by a lost
\* response or one that could not be taken back, a credential that is out is not
\* deleted, a read has one account.
THEOREM ContractKeepsAccounts == Contract!ContractSpec => []Contract!AccountsKept
  <1>1. Contract!ContractInit => Contract!AccountsKept
    <2> SUFFICES ASSUME Contract!ContractInit PROVE Contract!AccountsKept
      OBVIOUS
    <2>1. \A n \in Attempts : DutyOf(n) = "none" /\ AccountOf(n) = "none"
      BY DEF Contract!ContractInit
    <2> QED
      BY <2>1, KeptParts DEF KeptOne, Idle, Contract!Duties, Contract!Accounts
  <1> QED
    BY <1>1, AccountsStayKept, PTL DEF Contract!ContractSpec

\* If no suffix is ever drawn twice, the accounts of the engine are kept so.
THEOREM AccountsAreKept ==
  ASSUME ~UseridReuse
  PROVE  Spec => []Contract!AccountsKept
  BY EngineKeepsContract, ContractKeepsAccounts, PTL DEF Accountable
=============================================================================
