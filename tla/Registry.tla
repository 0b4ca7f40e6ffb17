------------------------------ MODULE Registry ------------------------------
(***************************************************************************)
(* The edge's connector registry: the SQLite store of                      *)
(* internal/registry/registry.go, with the handlers of the registration    *)
(* server, the approval API, the QUIC authenticator and the route          *)
(* reconciler that call it.                                                *)
(*                                                                         *)
(* Every method of Store runs in one transaction on the only connection    *)
(* (SetMaxOpenConns(1)), so a method is one action.  A method that returns *)
(* an error rolls back, which is a stuttering step and has no action.      *)
(* Handlers that call several methods are split at the calls: what they    *)
(* remember in between is in revoking, auth and recon, and is lost when    *)
(* the edge restarts.                                                      *)
(*                                                                         *)
(* A registration row is never deleted and UNIQUE(project_id,              *)
(* environment_id), so a row is identified by its environment.             *)
(***************************************************************************)
EXTENDS Integers, FiniteSets, Sequences

CONSTANTS
  Envs,          \* the (project, environment) pairs
  Keys,          \* identity-key fingerprints
  Prefixes,      \* virtual /16 prefixes, numbered in the order of their text
  Pool,          \* the prefixes InitializePool inserts
  Aliases,       \* DNS alias pairs a request may ask for
  Sources,       \* source addresses of registration requests
  ReqIds,        \* identifiers of registration requests
  Tokens,        \* OIDC tokens (provider and jti)
  None,          \* SQL NULL
  ProjectOf,     \* project of an environment
  LeaseFor,      \* lease duration of an environment's class
  TokenExp,      \* expiry of a token
  StaticConfig,  \* <<environment, prefix>> pairs a migration start imports
  PendingTTL,    \* life of a pending request (30 minutes)
  Quarantine,    \* TB_SLOT_QUARANTINE
  Overlap,       \* identity-key overlap (24 hours)
  MaxProjectPending,  \* 10
  MaxSourcePending,   \* 30
  MaxTime,       \* bound on the clock
  MaxGens        \* bound on the number of route generations

ASSUME ConstantsAssumption ==
  /\ Prefixes \subseteq Nat /\ Pool \subseteq Prefixes
  /\ None \notin Envs /\ None \notin Keys /\ None \notin Prefixes /\ None \notin Aliases
  /\ LeaseFor \in [Envs -> Nat \ {0}]
  /\ TokenExp \in [Tokens -> Nat]
  /\ DOMAIN ProjectOf = Envs
  /\ StaticConfig \subseteq Envs \X Prefixes
  /\ PendingTTL \in Nat \ {0} /\ Quarantine \in Nat \ {0} /\ Overlap \in Nat
  /\ MaxProjectPending \in Nat /\ MaxSourcePending \in Nat
  /\ MaxTime \in Nat /\ MaxGens \in Nat

VARIABLES
  now,                                        \* Store.now
  regState, idType, lease, prefix, alias,     \* registrations, by environment
  allocState, holder, until,                  \* route_allocations, by prefix
  keyState, overlapUntil,                     \* identity_keys, by environment and key
  cert,                                       \* key of the active certificate row
  pendState, pend,                            \* pending_requests, by id: state, other columns
  replays,                                    \* oidc_replays
  gens, genState,                             \* route_generations, by id: routes, state
  recon,                                      \* generation id the reconciler read, or 0
  revoking,                                   \* revoke handlers between their two calls
  auth,                                       \* authenticate's progress, by environment and key
  uses,                                       \* history: the changes a token authorised
  newest                                      \* history: the key approved last

regVars   == <<regState, idType, lease, prefix, alias>>
allocVars == <<allocState, holder, until>>
keyVars   == <<keyState, overlapUntil>>
pendVars  == <<pendState, pend>>
genVars   == <<gens, genState>>
flight    == <<recon, revoking, auth>>
vars == <<now, regVars, allocVars, keyVars, cert, pendVars, replays, genVars, flight, uses, newest>>

Live == {"approved", "ready"}
Kinds == {"enroll", "rotate"}

NoRequest == [env |-> None, key |-> None, source |-> None, alias |-> None, expires |-> 0]

RegistrationType ==
  /\ regState \in [Envs -> {"none", "approved", "ready", "revoked", "lease-expired"}]
  /\ idType \in [Envs -> {"none", "static-v2", "dynamic-v3"}]
  /\ lease \in [Envs -> Nat]
  /\ prefix \in [Envs -> Prefixes \cup {None}]
  /\ alias \in [Envs -> Aliases \cup Envs \cup {None}]

AllocationType ==
  /\ allocState \in [Prefixes -> {"absent", "free", "allocated", "quarantined"}]
  /\ holder \in [Prefixes -> Envs \cup {None}]
  /\ until \in [Prefixes -> Nat]

KeyType ==
  /\ keyState \in [Envs -> [Keys -> {"none", "active", "overlap", "retired"}]]
  /\ overlapUntil \in [Envs -> [Keys -> Nat]]
  /\ cert \in [Envs -> Keys \cup {None}]
  /\ newest \in [Envs -> Keys \cup {None}]

RequestType ==
  /\ pendState \in [ReqIds -> {"none", "pending", "expired", "approved"}]
  /\ pend \in [ReqIds -> [env : Envs \cup {None}, key : Keys \cup {None},
                         source : Sources \cup {None}, alias : Aliases \cup {None},
                         expires : Nat]]
  /\ \A r \in ReqIds : pendState[r] # "none" =>
       pend[r].env \in Envs /\ pend[r].key \in Keys /\ pend[r].alias \in Aliases

TokenType ==
  /\ replays \subseteq Tokens
  /\ uses \in [Tokens -> Nat]

RouteType ==
  /\ gens \in Seq(SUBSET Prefixes)
  /\ genState \in [1..Len(gens) -> {"pending", "superseded", "applied"}]
  /\ recon \in 0..Len(gens)

HandlerType ==
  /\ revoking \subseteq Envs
  /\ auth \in [Envs -> [Keys -> {"idle", "admitted", "marked"}]]

\* Every column and handler variable has values of its type.
TypeOK ==
  /\ now \in Nat
  /\ RegistrationType
  /\ AllocationType
  /\ KeyType
  /\ RequestType
  /\ TokenType
  /\ RouteType
  /\ HandlerType

\* An empty database, before the first start has filled the address pool.
Init ==
  /\ now = 0
  /\ regState = [e \in Envs |-> "none"]
  /\ idType = [e \in Envs |-> "none"]
  /\ lease = [e \in Envs |-> 0]
  /\ prefix = [e \in Envs |-> None]
  /\ alias = [e \in Envs |-> None]
  /\ allocState = [p \in Prefixes |-> "absent"]
  /\ holder = [p \in Prefixes |-> None]
  /\ until = [p \in Prefixes |-> 0]
  /\ keyState = [e \in Envs |-> [k \in Keys |-> "none"]]
  /\ overlapUntil = [e \in Envs |-> [k \in Keys |-> 0]]
  /\ cert = [e \in Envs |-> None]
  /\ pendState = [r \in ReqIds |-> "none"]
  /\ pend = [r \in ReqIds |-> NoRequest]
  /\ replays = {}
  /\ gens = <<>>
  /\ genState = <<>>
  /\ recon = 0
  /\ revoking = {}
  /\ auth = [e \in Envs |-> [k \in Keys |-> "idle"]]
  /\ uses = [t \in Tokens |-> 0]
  /\ newest = [e \in Envs |-> None]
-----------------------------------------------------------------------------
(* Queries.                                                                *)

Active(e) == regState[e] \in Live /\ lease[e] > now

ActiveRoutes == {prefix[e] : e \in {f \in Envs : Active(f)}}

Pending(e) == {r \in ReqIds : pendState[r] = "pending" /\ pend[r].env = e}

\* ORDER BY created_at DESC LIMIT 1; expires_at is created_at + PendingTTL.
LatestPending(e) ==
  {r \in Pending(e) : \A q \in Pending(e) : pend[q].expires <= pend[r].expires}

UnexpiredOfProject(e) ==
  {r \in ReqIds : /\ pendState[r] = "pending" /\ pend[r].expires > now
                  /\ ProjectOf[pend[r].env] = ProjectOf[e]}

UnexpiredOfSource(s) ==
  {r \in ReqIds : pendState[r] = "pending" /\ pend[r].expires > now /\ pend[r].source = s}

\* ActiveIdentityKey
KeyUsable(e, k) ==
  \/ keyState[e][k] = "active"
  \/ keyState[e][k] = "overlap" /\ overlapUntil[e][k] > now

\* Mutated form: the quarantine's end is not looked at.
ElapsedAnyTime == {p \in Prefixes : allocState[p] = "quarantined"}

\* Quarantines that have elapsed.
Elapsed == {p \in Prefixes : allocState[p] = "quarantined" /\ until[p] <= now}

\* UNIQUE(virtual_prefix) and UNIQUE(project_alias, environment_alias), for the row of e.
UniquePrefix(e, p) == \A f \in Envs \ {e} : prefix[f] # p
UniqueAlias(e, a) == \A f \in Envs \ {e} : alias[f] # a

\* PendingRouteGeneration: ORDER BY id LIMIT 1.
OldestPending(i) ==
  /\ i \in 1..Len(gens) /\ genState[i] = "pending"
  /\ \A j \in 1..(i - 1) : genState[j] # "pending"
-----------------------------------------------------------------------------
(* Pieces of transactions.                                                 *)

\* Mutated form: pending generations are not superseded.
createRouteGenerationKeepingPending ==
  /\ Len(gens) < MaxGens
  /\ gens' = Append(gens, ActiveRoutes')
  /\ genState' = Append(genState, "pending")

\* createRouteGenerationTx, at the end of a transaction that updated registrations.
createRouteGenerationTx ==
  /\ Len(gens) < MaxGens
  /\ gens' = Append(gens, ActiveRoutes')
  /\ genState' = [i \in 1..(Len(gens) + 1) |->
                    IF i = Len(gens) + 1 THEN "pending"
                    ELSE IF genState[i] = "pending" THEN "superseded" ELSE genState[i]]

\* Mutated form: keys in overlap are left alone.
RetireActiveKeys(E) ==
  [e \in Envs |-> [k \in Keys |->
     IF e \in E /\ keyState[e][k] = "active" THEN "retired" ELSE keyState[e][k]]]

RetireKeys(E) ==
  [e \in Envs |-> [k \in Keys |->
     IF e \in E /\ keyState[e][k] \in {"active", "overlap"} THEN "retired"
     ELSE keyState[e][k]]]
-----------------------------------------------------------------------------
(* The edge starts.  InitializePool inserts the missing prefixes of the    *)
(* pool; in migration mode ImportStatic then reserves the configured       *)
(* static connector.  No handler survives the restart.                     *)

InitializePool ==
  allocState' = [p \in Prefixes |->
                   IF p \in Pool /\ allocState[p] = "absent" THEN "free" ELSE allocState[p]]

HandlersLost ==
  /\ recon' = 0
  /\ revoking' = {}
  /\ auth' = [e \in Envs |-> [k \in Keys |-> "idle"]]

Start ==
  /\ InitializePool
  /\ HandlersLost
  /\ UNCHANGED <<now, regVars, holder, until, keyVars, cert, pendVars, replays, genVars, uses, newest>>

\* The upsert of the registration row: only a static-v2 row follows the configuration.
ImportRegistration(e, p) ==
  \/ /\ regState[e] = "none"
     /\ UniquePrefix(e, p)
     /\ regState' = [regState EXCEPT ![e] = "ready"]
     /\ idType' = [idType EXCEPT ![e] = "static-v2"]
     /\ lease' = [lease EXCEPT ![e] = MaxTime + 1]     \* ten years
     /\ prefix' = [prefix EXCEPT ![e] = p]
     /\ alias' = [alias EXCEPT ![e] = e]               \* (connector id, 'legacy')
  \/ /\ idType[e] = "static-v2"
     /\ UniquePrefix(e, p)
     /\ prefix' = [prefix EXCEPT ![e] = p]
     /\ UNCHANGED <<regState, idType, lease, alias>>
  \/ /\ idType[e] = "dynamic-v3"
     /\ UNCHANGED regVars

\* ImportStatic after InitializePool; when it fails the process exits, which is Start.
StartMigration(e, p) ==
  /\ ImportRegistration(e, p)
  /\ holder[p] \in {None, e}
  /\ allocState' = [q \in Prefixes |->
                      IF q = p THEN "allocated"
                      ELSE IF q \in Pool /\ allocState[q] = "absent" THEN "free"
                      ELSE allocState[q]]
  /\ holder' = [holder EXCEPT ![p] = e]
  /\ until' = [until EXCEPT ![p] = 0]
  /\ HandlersLost
  /\ UNCHANGED <<now, keyVars, cert, pendVars, replays, genVars, uses, newest>>
-----------------------------------------------------------------------------
(* Registration requests (registration server, process).                   *)

Request(e, k, s, a) ==
  [env |-> e, key |-> k, source |-> s, alias |-> a,
   expires |-> now + PendingTTL]

\* A live registration accepts its own keys, a rotation, or the move from static-v2.
KeyAllowed(e, k, kind) ==
  \/ regState[e] \notin Live
  \/ keyState[e][k] \in {"active", "overlap"}
  \/ kind = "rotate"
  \/ idType[e] = "static-v2"

\* Mutated form: the elapsed request it replaces stays pending.
CreatePendingKeepingElapsed(r, e, k, kind, s, a) ==
  /\ pendState[r] = "none"
  /\ KeyAllowed(e, k, kind)
  /\ Cardinality(UnexpiredOfProject(e)) < MaxProjectPending
  /\ Cardinality(UnexpiredOfSource(s)) < MaxSourcePending
  /\ \A q \in LatestPending(e) : pend[q].key = k /\ pend[q].expires <= now
  /\ pendState' = [pendState EXCEPT ![r] = "pending"]
  /\ pend' = [pend EXCEPT ![r] = Request(e, k, s, a)]
  /\ UNCHANGED <<now, regVars, allocVars, keyVars, cert, replays, genVars, flight, uses, newest>>

\* Inserts a request, after marking the elapsed one it replaces.  An unexpired
\* request of the same key is returned as it is, one of another key is a conflict.
CreatePending(r, e, k, kind, s, a) ==
  /\ pendState[r] = "none"
  /\ KeyAllowed(e, k, kind)
  /\ Cardinality(UnexpiredOfProject(e)) < MaxProjectPending
  /\ Cardinality(UnexpiredOfSource(s)) < MaxSourcePending
  /\ \/ /\ Pending(e) = {}
        /\ pendState' = [pendState EXCEPT ![r] = "pending"]
     \/ \E q \in LatestPending(e) :
          /\ pend[q].key = k
          /\ pend[q].expires <= now
          /\ pendState' = [pendState EXCEPT ![q] = "expired", ![r] = "pending"]
  /\ pend' = [pend EXCEPT ![r] = Request(e, k, s, a)]
  /\ UNCHANGED <<now, regVars, allocVars, keyVars, cert, replays, genVars, flight, uses, newest>>
-----------------------------------------------------------------------------
(* Approval (approval API, approve).                                       *)

\* Mutated form: an expired token is not refused.
RecordReplayOfExpired(t) ==
  /\ t \notin replays
  /\ replays' = replays \cup {t}
  /\ uses' = [uses EXCEPT ![t] = @ + 1]

\* INSERT INTO oidc_replays: the token is unexpired and unused.
RecordReplay(t) ==
  /\ TokenExp[t] > now
  /\ t \notin replays
  /\ replays' = replays \cup {t}
  /\ uses' = [uses EXCEPT ![t] = @ + 1]

\* allocatePrefixTx releases elapsed quarantines and takes the lowest free prefix.
AllocatePrefix(e, p) ==
  LET Free == {q \in Prefixes : allocState[q] = "free"} \cup Elapsed IN
  /\ p \in Free
  /\ \A q \in Free : p <= q
  /\ allocState' = [q \in Prefixes |-> IF q = p THEN "allocated"
                                       ELSE IF q \in Elapsed THEN "free" ELSE allocState[q]]
  /\ holder' = [q \in Prefixes |-> IF q = p THEN e
                                   ELSE IF q \in Elapsed THEN None ELSE holder[q]]
  /\ until' = [q \in Prefixes |-> IF q \in Elapsed THEN 0 ELSE until[q]]

\* What Approve does to the row of e, its key and its certificate.
Activate(e, k, a) ==
  /\ UniqueAlias(e, a)
  /\ regState' = [regState EXCEPT ![e] = "approved"]
  /\ idType' = [idType EXCEPT ![e] = "dynamic-v3"]
  /\ lease' = [lease EXCEPT ![e] = now + LeaseFor[e]]
  /\ alias' = [alias EXCEPT ![e] = a]
  /\ keyState' = [keyState EXCEPT ![e][k] = "active"]
  /\ cert' = [cert EXCEPT ![e] = k]
  /\ newest' = [newest EXCEPT ![e] = k]
  /\ UNCHANGED overlapUntil

\* A request that is still pending.  A row that exists keeps its prefix; its allocation is
\* not touched.
ApprovePending(r, t) ==
  LET e == pend[r].env IN
  /\ pendState[r] = "pending"
  /\ pend[r].expires > now
  /\ RecordReplay(t)
  /\ UNCHANGED now
  /\ \/ /\ regState[e] = "none"
        /\ \E p \in Prefixes : /\ AllocatePrefix(e, p)
                               /\ UniquePrefix(e, p)
                               /\ prefix' = [prefix EXCEPT ![e] = p]
     \/ /\ regState[e] # "none"
        /\ UNCHANGED <<allocVars, prefix>>
  /\ Activate(e, pend[r].key, pend[r].alias)
  /\ pendState' = [pendState EXCEPT ![r] = "approved"]
  /\ UNCHANGED pend
  /\ createRouteGenerationTx
  /\ UNCHANGED flight

\* A call about a request that was approved before is answered with the registration: the
\* token is neither checked nor recorded, and may be one that was used.
ApprovedBefore(r) == pendState[r] = "approved" /\ UNCHANGED vars

Approve(r, t) == ApprovedBefore(r) \/ ApprovePending(r, t)
-----------------------------------------------------------------------------
(* Revocation (approval API, revoke): ConsumeReplay, then Revoke.          *)

ConsumeReplay(e, t) ==
  /\ regState[e] # "none"
  /\ RecordReplay(t)
  /\ revoking' = revoking \cup {e}
  /\ UNCHANGED <<now, regVars, allocVars, keyVars, cert, pendVars, genVars, recon, auth, newest>>

Revoke(e) ==
  /\ e \in revoking
  /\ regState[e] # "none"
  /\ revoking' = revoking \ {e}
  /\ regState' = [regState EXCEPT ![e] = "revoked"]
  /\ cert' = [cert EXCEPT ![e] = None]
  /\ keyState' = RetireKeys({e})
  /\ allocState' = [p \in Prefixes |-> IF holder[p] = e THEN "quarantined" ELSE allocState[p]]
  /\ until' = [p \in Prefixes |-> IF holder[p] = e THEN now + Quarantine ELSE until[p]]
  /\ UNCHANGED <<now, idType, lease, prefix, alias, holder, overlapUntil, pendVars, replays,
                 recon, auth, uses, newest>>
  /\ createRouteGenerationTx

\* The second transaction fails: the token is spent, the registration unchanged.
RevokeFails(e) ==
  /\ e \in revoking
  /\ revoking' = revoking \ {e}
  /\ UNCHANGED <<now, regVars, allocVars, keyVars, cert, pendVars, replays, genVars, recon, auth,
                 uses, newest>>
-----------------------------------------------------------------------------
(* Lease and certificate renewal (registration server, renew).             *)

Renew(e, k) ==
  /\ Active(e)
  /\ KeyUsable(e, k)
  /\ lease' = [lease EXCEPT ![e] = now + LeaseFor[e]]
  /\ cert' = [cert EXCEPT ![e] = k]
  /\ UNCHANGED <<now, regState, idType, prefix, alias, allocVars, keyVars, pendVars, replays,
                 genVars, flight, uses, newest>>
-----------------------------------------------------------------------------
(* A connector session (edge, authenticate): ActiveIdentityKey at the      *)
(* handshake; once the session is stored, MarkReady and then               *)
(* CompleteIdentityRotation.  At most one handshake per key is in flight.  *)

Admit(e, k) ==
  /\ auth[e][k] = "idle"
  /\ regState[e] # "none"
  /\ KeyUsable(e, k)
  /\ auth' = [auth EXCEPT ![e][k] = "admitted"]
  /\ UNCHANGED <<now, regVars, allocVars, keyVars, cert, pendVars, replays, genVars, recon, revoking,
                 uses, newest>>

MarkReady(e, k) ==
  /\ auth[e][k] = "admitted"
  /\ auth' = [auth EXCEPT ![e][k] = "marked"]
  /\ regState' = [regState EXCEPT ![e] = IF @ = "approved" THEN "ready" ELSE @]
  /\ UNCHANGED <<now, idType, lease, prefix, alias, allocVars, keyVars, cert, pendVars, replays,
                 genVars, recon, revoking, uses, newest>>

\* Mutated form: the session's key need not be active any more.
CompleteRotationUnchecked(e, k) ==
  LET demoted == {j \in Keys \ {k} : keyState[e][j] = "active"} IN
  /\ auth[e][k] = "marked"
  /\ auth' = [auth EXCEPT ![e][k] = "idle"]
  /\ keyState' = [keyState EXCEPT ![e] =
                    [j \in Keys |-> IF j \in demoted THEN "overlap" ELSE @[j]]]
  /\ overlapUntil' = [overlapUntil EXCEPT ![e] =
                    [j \in Keys |-> IF j \in demoted THEN now + Overlap ELSE @[j]]]
  /\ UNCHANGED <<now, regVars, allocVars, cert, pendVars, replays, genVars, recon, revoking, uses,
                 newest>>

\* The other active keys get the overlap, unless this key is no longer active.
CompleteIdentityRotation(e, k) ==
  LET demoted == IF keyState[e][k] = "active"
                 THEN {j \in Keys \ {k} : keyState[e][j] = "active"} ELSE {} IN
  /\ auth[e][k] = "marked"
  /\ auth' = [auth EXCEPT ![e][k] = "idle"]
  /\ keyState' = [keyState EXCEPT ![e] =
                    [j \in Keys |-> IF j \in demoted THEN "overlap" ELSE @[j]]]
  /\ overlapUntil' = [overlapUntil EXCEPT ![e] =
                    [j \in Keys |-> IF j \in demoted THEN now + Overlap ELSE @[j]]]
  /\ UNCHANGED <<now, regVars, allocVars, cert, pendVars, replays, genVars, recon, revoking, uses,
                 newest>>

\* The session is refused or its connection fails before it is stored.
AdmitFails(e, k) ==
  /\ auth[e][k] = "admitted"
  /\ auth' = [auth EXCEPT ![e][k] = "idle"]
  /\ UNCHANGED <<now, regVars, allocVars, keyVars, cert, pendVars, replays, genVars, recon, revoking,
                 uses, newest>>
-----------------------------------------------------------------------------
(* The reconciler's tick: Expire, and the generation it reads and later    *)
(* completes (reconcile).                                                  *)

\* Mutated form: only registrations with a session expire.
ReadyLeaseElapsed == {e \in Envs : regState[e] = "ready" /\ lease[e] <= now}

LeaseElapsed == {e \in Envs : regState[e] \in Live /\ lease[e] <= now}

\* Quarantine the prefixes of the elapsed leases, then release every quarantine that is over.
ReleaseRoutes ==
  LET lost == {p \in Prefixes : holder[p] \in LeaseElapsed}
      over == Elapsed \ lost IN
  /\ allocState' = [p \in Prefixes |-> IF p \in over THEN "free"
                                       ELSE IF p \in lost THEN "quarantined" ELSE allocState[p]]
  /\ holder' = [p \in Prefixes |-> IF p \in over THEN None ELSE holder[p]]
  /\ until' = [p \in Prefixes |-> IF p \in over THEN 0
                                  ELSE IF p \in lost THEN now + Quarantine ELSE until[p]]

ExpireKeys ==
  keyState' = [e \in Envs |-> [k \in Keys |->
                 IF keyState[e][k] = "overlap" /\ overlapUntil[e][k] <= now
                 THEN "retired" ELSE RetireKeys(LeaseElapsed)[e][k]]]

\* Mutated form: no generation tells of the withdrawn routes.
ExpireSilently ==
  /\ regState' = [e \in Envs |-> IF e \in LeaseElapsed THEN "lease-expired" ELSE regState[e]]
  /\ cert' = [e \in Envs |-> IF e \in LeaseElapsed THEN None ELSE cert[e]]
  /\ ReleaseRoutes
  /\ ExpireKeys
  /\ replays' = {t \in replays : TokenExp[t] > now}
  /\ UNCHANGED <<now, idType, lease, prefix, alias, overlapUntil, pendVars, genVars, flight, uses,
                 newest>>

Expire ==
  /\ regState' = [e \in Envs |-> IF e \in LeaseElapsed THEN "lease-expired" ELSE regState[e]]
  /\ cert' = [e \in Envs |-> IF e \in LeaseElapsed THEN None ELSE cert[e]]
  /\ ReleaseRoutes
  /\ ExpireKeys
  /\ replays' = {t \in replays : TokenExp[t] > now}
  /\ UNCHANGED <<now, idType, lease, prefix, alias, overlapUntil, pendVars, flight, uses, newest>>
  /\ IF LeaseElapsed # {} THEN createRouteGenerationTx ELSE UNCHANGED genVars

PendingRouteGeneration ==
  /\ recon = 0
  /\ \E i \in 1..Len(gens) : OldestPending(i) /\ recon' = i
  /\ UNCHANGED <<now, regVars, allocVars, keyVars, cert, pendVars, replays, genVars, revoking, auth,
                 uses, newest>>

\* The routes were applied, or the attempt failed and is to be retried.
CompleteRouteGeneration(ok) ==
  /\ recon # 0
  /\ genState' = [genState EXCEPT ![recon] = IF ok THEN "applied" ELSE "pending"]
  /\ recon' = 0
  /\ UNCHANGED <<now, regVars, allocVars, keyVars, cert, pendVars, replays, gens, revoking,
                 auth, uses, newest>>
-----------------------------------------------------------------------------
Tick ==
  /\ now < MaxTime
  /\ now' = now + 1
  /\ UNCHANGED <<regVars, allocVars, keyVars, cert, pendVars, replays, genVars, flight, uses, newest>>

RequestStep ==
  \E r \in ReqIds, e \in Envs, k \in Keys, kind \in Kinds, s \in Sources, a \in Aliases :
    CreatePending(r, e, k, kind, s, a)

\* The handler approve: a request it rejects changes nothing.
ApprovalStep == \E r \in ReqIds, t \in Tokens : Approve(r, t)

\* The handler revoke.
RevocationStep ==
  \E e \in Envs :
    \/ \E t \in Tokens : ConsumeReplay(e, t)
    \/ Revoke(e)
    \/ RevokeFails(e)

SessionStep ==
  \E e \in Envs, k \in Keys :
    \/ Admit(e, k)
    \/ MarkReady(e, k)
    \/ CompleteIdentityRotation(e, k)
    \/ AdmitFails(e, k)
    \/ Renew(e, k)

Next ==
  \/ Start
  \/ \E c \in StaticConfig : StartMigration(c[1], c[2])
  \/ RequestStep
  \/ ApprovalStep
  \/ RevocationStep
  \/ SessionStep
  \/ Expire
  \/ PendingRouteGeneration
  \/ \E ok \in BOOLEAN : CompleteRouteGeneration(ok)
  \/ Tick

Spec == Init /\ [][Next]_vars

\* The clock runs and the reconciler ticks; nobody else has to act.
FairSpec == Spec /\ WF_vars(Tick) /\ WF_vars(Expire)
-----------------------------------------------------------------------------
(* Properties.                                                             *)

\* CreatePending keeps one pending request per environment, however requests, expiries
\* and approvals interleave: the workflow that looks for "the" pending request of an
\* environment (PendingForIdentity) never has to choose between two identity keys.
OnePendingPerEnvironment ==
  \A e \in Envs : \A r, q \in Pending(e) : r = q

\* An OIDC token authorises at most one change, by Approve and ConsumeReplay together,
\* although Expire deletes replay rows: a row goes only when the token itself is refused as
\* expired.  A token may be accepted more often: for a request that has been approved Approve
\* answers before it looks at the token (registry_test.go approves twice with one token), and
\* then changes nothing.
TokenChangesOnce ==
  \A t \in Tokens : uses[t] <= 1

\* A prefix in quarantine is not given to another environment before the quarantine is
\* over, neither by an approval nor by a static import at a restart.
QuarantineRespected ==
  [][\A p \in Prefixes, f \in Envs :
       allocState[p] = "quarantined" /\ until[p] > now /\ holder[p] # f =>
         (prefix'[f] = p => prefix[f] = p)]_vars

\* A revoked or lease-expired registration admits nobody: no identity key of it is active
\* or in overlap and it has no active certificate, also when a session that was admitted
\* before the revocation runs MarkReady and CompleteIdentityRotation after it.
WithdrawnAdmitsNobody ==
  \A e \in Envs : regState[e] \in {"revoked", "lease-expired"} =>
    /\ cert[e] = None
    /\ \A k \in Keys : keyState[e][k] \notin {"active", "overlap"}

\* A live dynamic registration always has an active identity key, whatever rotations,
\* overlaps and expiries did: its connector is never locked out while the lease runs.
LiveHasActiveKey ==
  \A e \in Envs : regState[e] \in Live /\ idType[e] = "dynamic-v3" =>
    \E k \in Keys : keyState[e][k] = "active"

LastRoutes == IF gens = <<>> THEN {} ELSE gens[Len(gens)]

\* The newest route generation lists the prefix of every active dynamic registration and
\* of no withdrawn one: approval, revocation and expiry each leave a generation behind
\* that tells the reconciler and the readiness check about the change.
NewestGenerationCurrent ==
  \A e \in Envs : idType[e] = "dynamic-v3" =>
    /\ Active(e) => prefix[e] \in LastRoutes
    /\ regState[e] \in {"revoked", "lease-expired"} => prefix[e] \notin LastRoutes

\* A live registration whose lease has elapsed is withdrawn by the reconciler's tick,
\* unless it is approved again, even if nobody ever revokes it.
ElapsedLeaseWithdrawn ==
  \A e \in Envs :
    (regState[e] \in Live /\ lease[e] <= now) ~> (regState[e] \notin Live \/ lease[e] > now)

\* docs/configuration.md: the quarantine is the "delay before a withdrawn /16 can be
\* allocated again".  A prefix the pool reports as free is held by no registration row,
\* so that allocatePrefixTx can hand it to a new environment.
FreePrefixAssignable ==
  \A p \in Prefixes : allocState[p] = "free" => \A e \in Envs : prefix[e] # p

\* docs/security.md: in a rotation "the old identity stays valid for a 24-hour overlap and
\* becomes inactive only after the new identity completes a QUIC session".  The key approved
\* last stays active while its registration is live; only older keys go into the overlap.
NewIdentityStaysActive ==
  \A e \in Envs : regState[e] \in Live /\ newest[e] # None => keyState[e][newest[e]] = "active"

-----------------------------------------------------------------------------
(* The registry implements the ledger the reconciler works from.           *)

LedgerRow(p) ==
  LET live == {e \in Envs : prefix[e] = p /\ regState[e] \in Live} IN
  IF live = {} THEN "off" ELSE regState[CHOOSE e \in live : TRUE]

Ledger == INSTANCE RouteLedger WITH
  rowState <- [p \in Prefixes |-> LedgerRow(p)],
  lapsed <- {prefix[e] : e \in LeaseElapsed}

\* Every step of the registry is a step of the ledger: no transaction changes the set of
\* live registrations, a route generation or its state in another way.
ImplementsLedger == Ledger!LedgerSpec
=============================================================================
