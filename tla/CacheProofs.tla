---------------------------- MODULE CacheProofs ----------------------------
(***************************************************************************)
(* Proof that getClient never returns a client older than an acknowledged  *)
(* write of the config, for any number of callers and of operators.        *)
(*                                                                         *)
(* The invariant CacheInv says why: clientMu is held from the read of the  *)
(* config to the caching of its client, so that a write acknowledged later *)
(* invalidates what is cached, and one acknowledged earlier was read.      *)
(***************************************************************************)
EXTENDS ClientCache, TLAPS

USE DEF Versions, Calls, ConfigOps, NoCall, NoConfigOp

LEMMA CacheInitInv == CacheInit => CacheInv
  BY CacheAssumption DEF CacheInit, CacheInv, CacheTypeOK, NoStaleClient

\* A call that returns the cached client.
LEMMA HitInv ==
  ASSUME CacheInv, NEW t \in Callers,
         client # 0, call[t].pc \in {"fast", "slow"},
         call' = [call EXCEPT ![t] = [@ EXCEPT !.pc = "done", !.got = client]],
         UNCHANGED <<config, acked, client, mu, cw>>
  PROVE  CacheInv'
  <1> DEFINE hit == [call[t] EXCEPT !.pc = "done", !.got = client]
  <1>1. /\ hit \in Calls /\ hit.pc = "done"
        /\ hit.got = client /\ hit.base = call[t].base
    BY DEF CacheInv, CacheTypeOK
  <1>2. call' = [call EXCEPT ![t] = hit]
    OBVIOUS
  <1> HIDE DEF hit
  <1> QED
    BY <1>1, <1>2, CacheAssumption DEF CacheInv, CacheTypeOK, NoStaleClient

\* A call that moves on, with its base as it was: only the lock changes beside it.
LEMMA CallMoves ==
  ASSUME CacheInv, NEW t \in Callers, NEW next \in Calls,
         call' = [call EXCEPT ![t] = next], UNCHANGED <<config, acked, client, cw>>,
         next.base = call[t].base,
         next.pc \in {"read", "store"} <=> mu' = t,
         \/ mu' = mu
         \/ mu \in {t, Nobody} /\ mu' \in {t, Nobody},
         next.pc = "store" => next.got >= acked,
         next.pc # "done"
  PROVE  CacheInv'
  <1>1. CacheTypeOK'
    BY CacheAssumption DEF CacheInv, CacheTypeOK
  <1>2. call \in [Callers -> Calls] /\ call'[t] = next
    BY DEF CacheInv, CacheTypeOK
  <1>3. ASSUME NEW s \in Callers, s # t
        PROVE  call'[s] = call[s] /\ (mu' = s <=> mu = s)
    BY <1>2, <1>3, CacheAssumption
  <1>4. \A s \in Callers :
          /\ call'[s].pc \in {"read", "store"} <=> mu' = s
          /\ call'[s].base <= acked
          /\ call'[s].pc = "store" => call'[s].got >= acked
          /\ call'[s].pc = "done" => call'[s].got >= call'[s].base
    BY <1>2, <1>3 DEF CacheInv, NoStaleClient
  <1> QED
    BY <1>1, <1>4 DEF CacheInv, NoStaleClient

\* Of those, the calls whose program counter alone changes.
LEMMA CallStage ==
  ASSUME CacheInv, NEW t \in Callers, NEW pc \in {"slow", "read", "failed"},
         call' = [call EXCEPT ![t].pc = pc], UNCHANGED <<config, acked, client, cw>>,
         pc = "read" <=> mu' = t,
         \/ mu' = mu
         \/ mu \in {t, Nobody} /\ mu' \in {t, Nobody}
  PROVE  CacheInv'
  <1> DEFINE next == [call[t] EXCEPT !.pc = pc]
  <1>1. next \in Calls /\ next.pc = pc /\ next.base = call[t].base
    BY DEF CacheInv, CacheTypeOK
  <1>2. call' = [call EXCEPT ![t] = next]
    OBVIOUS
  <1> HIDE DEF next
  <1> QED
    BY <1>1, <1>2, CallMoves

\* The steps of getClient.
LEMMA FastInv ==
  ASSUME CacheInv, NEW t \in Callers, GetClientFast(t)
  PROVE  CacheInv'
  <1>1. CASE client # 0
    <2>1. call' = [call EXCEPT ![t] = [@ EXCEPT !.pc = "done", !.got = client]]
      BY <1>1 DEF GetClientFast
    <2> QED
      BY <1>1, <2>1, HitInv DEF GetClientFast
  <1>2. CASE client = 0
    <2>1. /\ call' = [call EXCEPT ![t] = [@ EXCEPT !.pc = "slow"]]
          /\ call[t].pc = "fast" /\ UNCHANGED <<config, acked, client, mu, cw>>
      BY <1>2 DEF GetClientFast
    <2>2. call[t].pc \notin {"read", "store"} /\ mu # t
      BY <2>1 DEF CacheInv
    <2> QED
      BY <2>1, <2>2, CallStage
  <1> QED
    BY <1>1, <1>2

LEMMA LockInv ==
  ASSUME CacheInv, NEW t \in Callers, GetClientLock(t)
  PROVE  CacheInv'
  <1>1. CASE client # 0
    BY <1>1, HitInv DEF GetClientLock
  <1>2. CASE client = 0
    BY <1>2, CallStage DEF GetClientLock
  <1> QED
    BY <1>1, <1>2

LEMMA ReadInv ==
  ASSUME CacheInv, NEW t \in Callers, GetClientRead(t) \/ GetClientReadErr(t)
  PROVE  CacheInv'
  <1>1. CASE GetClientRead(t)
    <2> DEFINE next == [call[t] EXCEPT !.pc = "store", !.got = config.n]
    <2>1. /\ next \in Calls /\ next.pc = "store"
          /\ next.got = config.n /\ next.base = call[t].base
      BY DEF CacheInv, CacheTypeOK
    <2>2. /\ call' = [call EXCEPT ![t] = next] /\ call[t].pc = "read"
          /\ UNCHANGED <<config, acked, client, mu, cw>>
      BY <1>1 DEF GetClientRead
    <2>3. mu = t /\ acked <= config.n
      BY <2>2 DEF CacheInv
    <2> HIDE DEF next
    <2> QED
      BY <2>1, <2>2, <2>3, CallMoves
  <1>2. CASE GetClientReadErr(t)
    <2>1. mu = t
      BY <1>2 DEF GetClientReadErr, CacheInv
    <2> QED
      BY <1>2, <2>1, CallStage, CacheAssumption DEF GetClientReadErr
  <1> QED
    BY <1>1, <1>2

LEMMA StoreInv ==
  ASSUME CacheInv, NEW t \in Callers, GetClientStore(t)
  PROVE  CacheInv'
  <1>1. CacheTypeOK'
    BY DEF GetClientStore, CacheInv, CacheTypeOK
  <1>2. /\ call[t].pc = "store" /\ mu = t /\ call[t].got >= acked /\ call[t].base <= acked
        /\ call[t].got \in Versions /\ call \in [Callers -> Calls] /\ mu' = Nobody
        /\ client' = call[t].got /\ UNCHANGED <<config, acked, cw>>
    BY DEF GetClientStore, CacheInv, CacheTypeOK
  <1>3. /\ call'[t].pc = "done" /\ call'[t].got = call[t].got /\ call'[t].base = call[t].base
        /\ \A s \in Callers \ {t} : call'[s] = call[s]
    BY <1>2 DEF GetClientStore
  <1>4. ASSUME NEW s \in Callers
        PROVE  /\ call'[s].pc \in {"read", "store"} <=> mu' = s
               /\ call'[s].base <= acked
               /\ call'[s].pc = "store" => call'[s].got >= acked
               /\ call'[s].pc = "done" => call'[s].got >= call'[s].base
    <2>1. CASE s = t
      BY <1>2, <1>3, <2>1, CacheAssumption DEF CacheInv, CacheTypeOK
    <2>2. CASE s # t
      BY <1>2, <1>3, <2>2, CacheAssumption DEF CacheInv, NoStaleClient
    <2> QED
      BY <2>1, <2>2
  <1> QED
    BY <1>1, <1>2, <1>4 DEF CacheInv, NoStaleClient

\* The steps of configWrite and configDelete.
LEMMA ConfigAskInv ==
  ASSUME CacheInv, NEW c \in Operators,
         ConfigDelete(c) \/ \E tree \in Trees : ConfigWrite(c, tree)
  PROVE  CacheInv'
  <1>1. CASE ConfigDelete(c)
    BY <1>1, CacheAssumption DEF ConfigDelete, CacheInv, CacheTypeOK, NoStaleClient
  <1>2. ASSUME NEW tree \in Trees, ConfigWrite(c, tree)
        PROVE  CacheInv'
    <2> DEFINE granted == /\ Effective(tree, GroupsPath, "User.Modify")
                          /\ Effective(tree, GroupsPath, "Sys.Audit")
    <2>1. granted \in BOOLEAN
      BY DEF Effective
    <2>2. /\ cw' = [cw EXCEPT ![c] = [pc |-> "put", n |-> 0, granted |-> granted]]
          /\ UNCHANGED <<config, acked, client, mu, call>>
      BY <1>2 DEF ConfigWrite
    <2> HIDE DEF granted
    <2> QED
      BY <2>1, <2>2, CacheAssumption DEF CacheInv, CacheTypeOK, NoStaleClient
  <1> QED
    BY <1>1, <1>2

LEMMA ConfigStoredInv ==
  ASSUME CacheInv, NEW c \in Operators, ConfigStored(c) \/ ConfigStoreErr(c)
  PROVE  CacheInv'
  <1> DEFINE there == cw[c].pc = "put"
             next == [n |-> config.n + 1, there |-> there]
  <1>1. there \in BOOLEAN
    OBVIOUS
  <1>2. /\ acked <= config.n
        /\ UNCHANGED <<acked, client, mu, call>>
        /\ CacheTypeOK
    BY DEF ConfigStored, ConfigStoreErr, CacheInv
  <1>3. config.n < MaxConfig => next \in [n : Versions, there : BOOLEAN] /\ next.n = config.n + 1
    BY <1>1, <1>2, CacheAssumption DEF CacheTypeOK
  <1>4. /\ config' \in [n : Versions, there : BOOLEAN]
        /\ config'.n >= config.n
    <2>1. config' = config \/ (config.n < MaxConfig /\ config' = next)
      BY DEF ConfigStored, ConfigStoreErr
    <2> HIDE DEF next
    <2> QED
      BY <2>1, <1>2, <1>3, CacheAssumption DEF CacheTypeOK
  <1>5. cw' \in [Operators -> ConfigOps] /\ \A o \in Operators : cw'[o].n <= config'.n
    <2>1. CASE ConfigStored(c)
      <3>1. config.n < MaxConfig /\ config'.n = config.n + 1
        BY <2>1, <1>3 DEF ConfigStored
      <3>2. cw' = [cw EXCEPT ![c] = [@ EXCEPT !.pc = "invalidate", !.n = config'.n]]
        BY <2>1, <3>1 DEF ConfigStored
      <3> DEFINE stored == [cw[c] EXCEPT !.pc = "invalidate", !.n = config'.n]
      <3>3. stored \in ConfigOps /\ stored.n = config'.n
        BY <1>4, <1>2 DEF CacheTypeOK
      <3>4. cw' = [cw EXCEPT ![c] = stored]
        BY <3>2
      <3> HIDE DEF stored
      <3> QED
        BY <3>3, <3>4, <1>4, <1>2, CacheAssumption DEF CacheTypeOK, CacheInv
    <2>2. CASE ConfigStoreErr(c)
      BY <2>2, <1>4, <1>2, CacheAssumption DEF ConfigStoreErr, CacheTypeOK, CacheInv
    <2> QED
      BY <2>1, <2>2
  <1> QED
    BY <1>2, <1>4, <1>5, CacheAssumption DEF CacheInv, CacheTypeOK, NoStaleClient

LEMMA ConfigInvalidateInv ==
  ASSUME CacheInv, NEW c \in Operators, ConfigInvalidate(c)
  PROVE  CacheInv'
  BY CacheAssumption DEF ConfigInvalidate, CacheInv, CacheTypeOK, NoStaleClient

\* The begin and the end of a use of the client.
LEMMA UseInv ==
  ASSUME CacheInv, NEW t \in Callers, UseClient(t) \/ UsedClient(t)
  PROVE  CacheInv'
  <1>1. CASE UseClient(t)
    BY <1>1, CacheAssumption DEF UseClient, GetClientBegin, CacheInv, CacheTypeOK, NoStaleClient
  <1>2. CASE UsedClient(t)
    BY <1>2, CacheAssumption DEF UsedClient, CacheInv, CacheTypeOK, NoStaleClient
  <1> QED
    BY <1>1, <1>2

LEMMA CacheNextInv == CacheInv /\ [CacheNext]_cacheVars => CacheInv'
  <1> SUFFICES ASSUME CacheInv, [CacheNext]_cacheVars
               PROVE  CacheInv'
    OBVIOUS
  <1>1. CASE UNCHANGED cacheVars
    BY <1>1 DEF cacheVars, CacheInv, CacheTypeOK, NoStaleClient
  <1>2. ASSUME NEW t \in Callers, GetClient(t)
        PROVE  CacheInv'
    BY <1>2, FastInv, LockInv, ReadInv, StoreInv DEF GetClient
  <1>3. ASSUME NEW u \in Users, UseClient(u) \/ UsedClient(u)
        PROVE  CacheInv'
    BY <1>3, UseInv, CacheAssumption
  <1>4. ASSUME NEW c \in Operators,
               \/ \E tree \in Trees : ConfigWrite(c, tree)
               \/ ConfigDelete(c)
               \/ ConfigStep(c)
        PROVE  CacheInv'
    BY <1>4, ConfigAskInv, ConfigStoredInv, ConfigInvalidateInv DEF ConfigStep
  <1> QED
    BY <1>1, <1>2, <1>3, <1>4 DEF CacheNext

\* The invariant of the client cache: the lock is held where the code holds it,
\* and a cached client is at least as new as every acknowledged config.
THEOREM CacheInvariant == CacheSpec => []CacheInv
  BY CacheInitInv, CacheNextInv, PTL DEF CacheSpec

\* A getClient that begins after a config write was acknowledged returns a
\* client of that config or of a later one.
THEOREM ClientsAreFresh == CacheSpec => []NoStaleClient
  <1>1. CacheInv => NoStaleClient
    BY DEF CacheInv
  <1> QED
    BY <1>1, CacheInvariant, PTL
=============================================================================
