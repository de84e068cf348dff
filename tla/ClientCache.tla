---------------------------- MODULE ClientCache ----------------------------
(***************************************************************************)
(* The engine's config entry and the PVE client cached for it              *)
(* (src/backend.go, src/path_config.go).                                   *)
(*                                                                         *)
(* config is the storage entry: it counts the writes and deletes, and says *)
(* whether the entry is there.  client is the cached client, named by the  *)
(* config it was built from; 0 is nil.  mu is the holder of clientMu for   *)
(* writing (read sections are one step).  call[t] is thread t's getClient, *)
(* cw[c] the configWrite or configDelete of operator c.                    *)
(*                                                                         *)
(* acked, and base in a call, are history variables: the newest config     *)
(* whose write was acknowledged, and what it was when the call began.      *)
(***************************************************************************)
EXTENDS Permissions

CONSTANTS Callers,      \* threads that call getClient
          Users,        \* those of issuance, renewal, revocation and rollback
          Operators,    \* operators who write or delete the config
          Trees,        \* the permission trees PVE may show
          MaxConfig,    \* bound: writes and deletes of the config
          Nobody        \* the holder of a free lock

VARIABLES config, acked, client, mu, call, cw

cacheVars == <<config, acked, client, mu, call, cw>>

ASSUME CacheAssumption ==
  /\ Nobody \notin Callers
  /\ Users \subseteq Callers
  /\ MaxConfig \in Nat

Versions == 0..MaxConfig

Calls == [pc : {"idle", "fast", "slow", "read", "store", "done", "failed"},
          base : Versions, got : Versions]

ConfigOps == [pc : {"idle", "put", "delete", "invalidate"},
              n : Versions, granted : BOOLEAN]

NoCall == [pc |-> "idle", base |-> 0, got |-> 0]
NoConfigOp == [pc |-> "idle", n |-> 0, granted |-> FALSE]

CacheTypeOK ==
  /\ config \in [n : Versions, there : BOOLEAN]
  /\ acked \in Versions
  /\ client \in Versions
  /\ mu \in Callers \cup {Nobody}
  /\ call \in [Callers -> Calls]
  /\ cw \in [Operators -> ConfigOps]

CacheInit ==
  /\ config = [n |-> 0, there |-> FALSE]
  /\ acked = 0
  /\ client = 0
  /\ mu = Nobody
  /\ call = [t \in Callers |-> NoCall]
  /\ cw = [c \in Operators |-> NoConfigOp]

-----------------------------------------------------------------------------
(* Mutations *)

\* The slow path reads the config before it takes the lock.
GetClientLock_ReadsFirst(t) ==
  /\ call[t].pc = "slow"
  /\ config.there
  /\ call' = [call EXCEPT ![t] = [@ EXCEPT !.pc = "store", !.got = config.n]]
  /\ UNCHANGED <<config, acked, client, mu, cw>>

\* The slow path looks for the config until there is one.
GetClientReadErr_Retries(t) ==
  /\ call[t].pc = "read"
  /\ call' = [call EXCEPT ![t].pc = "fast"]
  /\ mu' = Nobody
  /\ UNCHANGED <<config, acked, client, cw>>

\* The write is acknowledged and the cached client is left in place.
ConfigInvalidate_Skipped(c) ==
  /\ cw[c].pc = "invalidate"
  /\ acked' = IF cw[c].n > acked THEN cw[c].n ELSE acked
  /\ cw' = [cw EXCEPT ![c] = NoConfigOp]
  /\ UNCHANGED <<config, client, mu, call>>

-----------------------------------------------------------------------------
(* getClient *)

GetClientBegin(t) ==
  call' = [call EXCEPT ![t] = [pc |-> "fast", base |-> acked, got |-> 0]]

\* The fast path, under the read lock: the cached client, if there is one.
GetClientFast(t) ==
  /\ call[t].pc = "fast"
  /\ mu = Nobody
  /\ call' = [call EXCEPT ![t] =
                IF client # 0 THEN [@ EXCEPT !.pc = "done", !.got = client]
                              ELSE [@ EXCEPT !.pc = "slow"]]
  /\ UNCHANGED <<config, acked, client, mu, cw>>

\* The slow path takes the lock and looks again.
GetClientLock(t) ==
  /\ call[t].pc = "slow"
  /\ mu = Nobody
  /\ IF client # 0
       THEN /\ call' = [call EXCEPT ![t] = [@ EXCEPT !.pc = "done", !.got = client]]
            /\ mu' = mu
       ELSE /\ call' = [call EXCEPT ![t].pc = "read"]
            /\ mu' = t
  /\ UNCHANGED <<config, acked, client, cw>>

\* getConfig, and newClient of what it read.
GetClientRead(t) ==
  /\ call[t].pc = "read"
  /\ config.there
  /\ call' = [call EXCEPT ![t] = [@ EXCEPT !.pc = "store", !.got = config.n]]
  /\ UNCHANGED <<config, acked, client, mu, cw>>

\* There is no config, the read fails, or newClient refuses what it read.
GetClientReadErr(t) ==
  /\ call[t].pc = "read"
  /\ call' = [call EXCEPT ![t].pc = "failed"]
  /\ mu' = Nobody
  /\ UNCHANGED <<config, acked, client, cw>>

\* The new client is cached and the lock released.
GetClientStore(t) ==
  /\ call[t].pc = "store"
  /\ client' = call[t].got
  /\ mu' = Nobody
  /\ call' = [call EXCEPT ![t].pc = "done"]
  /\ UNCHANGED <<config, acked, cw>>

GetClient(t) ==
  \/ GetClientFast(t) \/ GetClientLock(t)
  \/ GetClientRead(t) \/ GetClientReadErr(t) \/ GetClientStore(t)

-----------------------------------------------------------------------------
(* configWrite and configDelete *)

GroupsPath == <<"access", "groups">>

\* configWrite's checks of the incoming token passed: PVE answered, its tree is
\* not empty and holds both privileges.  A write that fails them changes nothing.
ConfigWrite(c, tree) ==
  /\ cw[c].pc = "idle"
  /\ tree # {}
  /\ HasPrivilege(tree, GroupsPath, "User.Modify")
  /\ HasPrivilege(tree, GroupsPath, "Sys.Audit")
  /\ cw' = [cw EXCEPT ![c] =
              [pc |-> "put", n |-> 0,
               granted |-> /\ Effective(tree, GroupsPath, "User.Modify")
                           /\ Effective(tree, GroupsPath, "Sys.Audit")]]
  /\ UNCHANGED <<config, acked, client, mu, call>>

\* configDelete with force=true.
ConfigDelete(c) ==
  /\ cw[c].pc = "idle"
  /\ cw' = [cw EXCEPT ![c].pc = "delete"]
  /\ UNCHANGED <<config, acked, client, mu, call>>

\* The storage call returns, and what it wrote is there.
ConfigStored(c) ==
  /\ cw[c].pc \in {"put", "delete"}
  /\ config.n < MaxConfig
  /\ config' = [n |-> config.n + 1, there |-> cw[c].pc = "put"]
  /\ cw' = [cw EXCEPT ![c] = [@ EXCEPT !.pc = "invalidate", !.n = config.n + 1]]
  /\ UNCHANGED <<acked, client, mu, call>>

\* The storage call fails, with or without effect: the handler returns the
\* error and leaves the cached client alone.
ConfigStoreErr(c) ==
  /\ cw[c].pc \in {"put", "delete"}
  /\ \/ config' = config
     \/ /\ config.n < MaxConfig
        /\ config' = [n |-> config.n + 1, there |-> cw[c].pc = "put"]
  /\ cw' = [cw EXCEPT ![c] = NoConfigOp]
  /\ UNCHANGED <<acked, client, mu, call>>

\* invalidate drops the cached client, and the handler answers.
ConfigInvalidate(c) ==
  /\ cw[c].pc = "invalidate"
  /\ mu = Nobody
  /\ client' = 0
  /\ acked' = IF cw[c].n > acked THEN cw[c].n ELSE acked
  /\ cw' = [cw EXCEPT ![c] = NoConfigOp]
  /\ UNCHANGED <<config, mu, call>>

ConfigStep(c) == ConfigStored(c) \/ ConfigStoreErr(c) \/ ConfigInvalidate(c)

-----------------------------------------------------------------------------
(* The users of the client, and the whole *)

UseClient(u) ==
  /\ call[u].pc = "idle"
  /\ GetClientBegin(u)
  /\ UNCHANGED <<config, acked, client, mu, cw>>

UsedClient(u) ==
  /\ call[u].pc \in {"done", "failed"}
  /\ call' = [call EXCEPT ![u] = NoCall]
  /\ UNCHANGED <<config, acked, client, mu, cw>>

CacheNext ==
  \/ \E t \in Callers : GetClient(t)
  \/ \E u \in Users : UseClient(u) \/ UsedClient(u)
  \/ \E c \in Operators :
       \/ \E tree \in Trees : ConfigWrite(c, tree)
       \/ ConfigDelete(c)
       \/ ConfigStep(c)

CacheSpec == CacheInit /\ [][CacheNext]_cacheVars

(***************************************************************************)
(* A step of a handler that is enabled is taken: every call to PVE has the *)
(* client's timeout, every call to storage returns.  A thread that waits   *)
(* for clientMu gets it if it is free again and again: a waiting writer of *)
(* Go's RWMutex keeps new readers out, its unlock lets the waiting readers *)
(* in, and a writer that has starved is handed the lock.                   *)
(***************************************************************************)
CacheFairness ==
  /\ \A t \in Callers : SF_cacheVars(GetClient(t))
  /\ \A c \in Operators : SF_cacheVars(ConfigStep(c))

FairCacheSpec == CacheSpec /\ CacheFairness

-----------------------------------------------------------------------------
(* Properties *)

(***************************************************************************)
(* A getClient that begins after a config write or delete was acknowledged *)
(* never returns a client of an older config, whatever other calls were    *)
(* building theirs meanwhile.                                              *)
(***************************************************************************)
NoStaleClient == \A t \in Callers : call[t].pc = "done" => call[t].got >= call[t].base

(***************************************************************************)
(* Every getClient and every config operation ends: no path through them   *)
(* leaves clientMu locked, and nobody waits for it forever.                *)
(***************************************************************************)
CacheCallsReturn ==
  /\ \A t \in Callers : call[t].pc # "idle" ~> call[t].pc \in {"idle", "done", "failed"}
  /\ \A c \in Operators : cw[c].pc # "idle" ~> cw[c].pc = "idle"

\* What NoStaleClient rests on: clientMu is held from the read of the config to
\* the caching of its client, so no write is acknowledged in between.
CacheInv ==
  /\ CacheTypeOK
  /\ acked <= config.n
  /\ client # 0 => client >= acked
  /\ \A c \in Operators : cw[c].n <= config.n
  /\ \A t \in Callers :
       /\ call[t].pc \in {"read", "store"} <=> mu = t
       /\ call[t].base <= acked
       /\ call[t].pc = "store" => call[t].got >= acked
  /\ NoStaleClient
=============================================================================
