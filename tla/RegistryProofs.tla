--------------------------- MODULE RegistryProofs ---------------------------
(***************************************************************************)
(* The registry, for every number of environments, keys, prefixes,         *)
(* requests and tokens and for every value of the time bounds: its own     *)
(* invariants, and that it implements the ledger that the reconciler works *)
(* from.                                                                   *)
(***************************************************************************)
EXTENDS Registry, TLAPS

\* Every registration row has an identity type and a prefix (NOT NULL columns).
RowComplete ==
  \A e \in Envs :
    /\ regState[e] = "none" <=> idType[e] = "none"
    /\ regState[e] # "none" => prefix[e] \in Prefixes

TypeInv == TypeOK /\ RowComplete

\* The empty database of initialize() is well typed.
LEMMA InitTypeInv == Init => TypeInv
  BY ConstantsAssumption
  DEF Init, TypeInv, TypeOK, RegistrationType, AllocationType, KeyType, RequestType, TokenType,
      RouteType, HandlerType, RowComplete, NoRequest

\* A new generation lists the prefixes of the active rows; the reconciler keeps its id.
LEMMA GenerationType ==
  ASSUME RouteType, RowComplete', createRouteGenerationTx, UNCHANGED recon
  PROVE  /\ RouteType'
         /\ Len(gens') = Len(gens) + 1
         /\ gens'[Len(gens')] = ActiveRoutes'
<1>1. ActiveRoutes' \subseteq Prefixes
  BY Zenon DEF ActiveRoutes, Active, Live, RowComplete
<1>2. gens \in Seq(SUBSET Prefixes) /\ ActiveRoutes' \in SUBSET Prefixes
  BY <1>1, Zenon DEF RouteType
<1>3. /\ gens' \in Seq(SUBSET Prefixes)
      /\ Len(gens') = Len(gens) + 1
      /\ gens'[Len(gens')] = ActiveRoutes'
  BY <1>2 DEF createRouteGenerationTx
<1>4. genState' \in [1..Len(gens') -> {"pending", "superseded", "applied"}]
  BY <1>2, <1>3 DEF createRouteGenerationTx, RouteType
<1>5. recon' \in 0..Len(gens')
  BY <1>2, <1>3 DEF RouteType
<1> QED
  BY <1>3, <1>4, <1>5, Zenon DEF RouteType

\* A lease that starts now ends at a time (Approve, Renew).
LEMMA LeaseTime ==
  ASSUME now \in Nat, NEW e \in Envs
  PROVE  now + LeaseFor[e] \in Nat
  BY ConstantsAssumption

\* The clock is a number (Tick).
LEMMA ClockType == now \in Nat /\ Tick => now' \in Nat
  BY DEF Tick

\* Recording a use of a token keeps the tokens' types (ConsumeReplay, Approve).
LEMMA ReplayType ==
  ASSUME TokenType, NEW t \in Tokens, RecordReplay(t)
  PROVE  TokenType'
  BY DEF TokenType, RecordReplay

\* Demoting the older keys of a registration keeps the keys' types.
LEMMA RotationType ==
  ASSUME now \in Nat, KeyType, NEW e \in Envs, NEW k \in Keys, CompleteIdentityRotation(e, k)
  PROVE  KeyType'
<1>1. now + Overlap \in Nat
  BY ConstantsAssumption
<1>2. UNCHANGED <<cert, newest>>
  BY Zenon DEF CompleteIdentityRotation
<1>3. keyState' \in [Envs -> [Keys -> {"none", "active", "overlap", "retired"}]]
  BY ZenonT(60) DEF CompleteIdentityRotation, KeyType
<1>4. overlapUntil' \in [Envs -> [Keys -> Nat]]
  BY <1>1, Zenon DEF CompleteIdentityRotation, KeyType
<1> QED
  BY <1>2, <1>3, <1>4, Zenon DEF KeyType

\* The reconciler holds the id of a generation, or none.
LEMMA ReconType ==
  ASSUME RouteType,
         PendingRouteGeneration \/ \E ok \in BOOLEAN : CompleteRouteGeneration(ok)
  PROVE  RouteType'
<1>1. CASE PendingRouteGeneration
  <2>1. UNCHANGED <<gens, genState>> /\ recon' \in 1..Len(gens)
    BY <1>1, Zenon DEF PendingRouteGeneration, genVars
  <2> QED
    BY <2>1 DEF RouteType
<1>2. ASSUME NEW ok \in BOOLEAN, CompleteRouteGeneration(ok) PROVE RouteType'
  <2>1. /\ UNCHANGED gens /\ recon' = 0
        /\ genState' = [genState EXCEPT ![recon] = IF ok THEN "applied" ELSE "pending"]
    BY <1>2, Zenon DEF CompleteRouteGeneration
  <2>2. genState' \in [1..Len(gens) -> {"pending", "superseded", "applied"}]
    BY <2>1, ZenonT(60) DEF RouteType
  <2>3. Len(gens) \in Nat
    BY DEF RouteType
  <2>4. recon' \in 0..Len(gens)
    BY <2>1, <2>3
  <2> QED
    BY <2>1, <2>2, <2>4, ZenonT(60) DEF RouteType
<1> QED
  BY <1>1, <1>2, Zenon

\* A start without static connectors keeps the types (InitializePool).
LEMMA StartType == TypeInv /\ Start => TypeInv'
  BY ConstantsAssumption, SMTT(60)
  DEF TypeInv, Start, InitializePool, HandlersLost, RowComplete, TypeOK, RegistrationType,
      AllocationType, KeyType, RequestType, TokenType, RouteType, HandlerType, regVars,
      keyVars, pendVars, genVars

\* A start that imports a static connector keeps the types (ImportStatic).
LEMMA StartMigrationType ==
  ASSUME TypeInv, NEW e \in Envs, NEW p \in Prefixes, StartMigration(e, p)
  PROVE  TypeInv'
<1>1. RegistrationType' /\ RowComplete'
  <2> USE ConstantsAssumption DEF TypeInv, TypeOK, RegistrationType, RowComplete, regVars
  <2>1. CASE regState[e] = "none" /\ regState' = [regState EXCEPT ![e] = "ready"]
             /\ idType' = [idType EXCEPT ![e] = "static-v2"]
             /\ lease' = [lease EXCEPT ![e] = MaxTime + 1]
             /\ prefix' = [prefix EXCEPT ![e] = p]
             /\ alias' = [alias EXCEPT ![e] = e]
    BY <2>1
  <2>2. CASE idType[e] = "static-v2" /\ prefix' = [prefix EXCEPT ![e] = p]
             /\ UNCHANGED <<regState, idType, lease, alias>>
    BY <2>2, Zenon
  <2>3. CASE UNCHANGED regVars
    BY <2>3, Zenon
  <2> QED
    BY <2>1, <2>2, <2>3, Zenon DEF StartMigration, ImportRegistration
<1>2. AllocationType' /\ HandlerType' /\ RouteType'
  BY DEF StartMigration, HandlersLost, TypeInv, TypeOK, AllocationType, HandlerType, RouteType,
         genVars
<1>3. KeyType' /\ RequestType' /\ TokenType' /\ now' \in Nat
  BY Zenon DEF StartMigration, TypeInv, TypeOK, KeyType, RequestType, TokenType, keyVars, pendVars
<1> QED
  BY <1>1, <1>2, <1>3, Zenon DEF TypeInv, TypeOK

\* CreatePending keeps the types, whatever the request says.
LEMMA CreatePendingType ==
  ASSUME TypeInv, NEW r \in ReqIds, NEW e \in Envs, NEW k \in Keys, NEW kind \in Kinds,
         NEW s \in Sources, NEW a \in Aliases, CreatePending(r, e, k, kind, s, a)
  PROVE  TypeInv'
<1>1. pendState' \in [ReqIds -> {"none", "pending", "expired", "approved"}]
      /\ \A q \in ReqIds \ {r} : pendState'[q] # "none" => pendState[q] # "none"
  BY Zenon DEF CreatePending, TypeInv, TypeOK, RequestType, LatestPending, Pending
<1>2. Request(e, k, s, a) \in [env : Envs \cup {None}, key : Keys \cup {None},
                         source : Sources \cup {None}, alias : Aliases \cup {None},
                         expires : Nat]
      /\ Request(e, k, s, a).env = e
      /\ Request(e, k, s, a).key = k
      /\ Request(e, k, s, a).alias = a
  BY ConstantsAssumption DEF Request, TypeInv, TypeOK
<1>3. pend' = [pend EXCEPT ![r] = Request(e, k, s, a)]
  BY Zenon DEF CreatePending
<1>4. RequestType'
  BY <1>1, <1>2, <1>3, Zenon DEF RequestType, TypeInv, TypeOK
<1>5. UNCHANGED <<now, regVars, allocVars, keyVars, cert, replays, genVars, flight, uses,
                  newest>>
  BY ZenonT(60) DEF CreatePending
<1> QED
  BY <1>4, <1>5, Zenon
  DEF TypeInv, TypeOK, RegistrationType, AllocationType, KeyType, TokenType, RouteType,
      HandlerType, RowComplete, regVars, allocVars, keyVars, genVars, flight

\* ApprovePending keeps the types: a new row gets a prefix of the pool, an old one keeps its own.
LEMMA ApproveType ==
  ASSUME TypeInv, NEW r \in ReqIds, NEW t \in Tokens, ApprovePending(r, t)
  PROVE  TypeInv'
<1> DEFINE e == pend[r].env
           k == pend[r].key
           a == pend[r].alias
<1>1. e \in Envs /\ k \in Keys /\ a \in Aliases
  BY Zenon DEF ApprovePending, TypeInv, TypeOK, RequestType
<1>2. /\ RecordReplay(t) /\ now' = now /\ Activate(e, k, a) /\ UNCHANGED <<pend, flight>>
      /\ pendState' = [pendState EXCEPT ![r] = "approved"]
      /\ createRouteGenerationTx
      /\ \/ \E p \in Prefixes : AllocatePrefix(e, p) /\ prefix' = [prefix EXCEPT ![e] = p]
         \/ regState[e] # "none" /\ UNCHANGED <<allocVars, prefix>>
  BY Zenon DEF ApprovePending
<1> HIDE DEF e, k, a
<1>3. AllocationType' /\ prefix' \in [Envs -> Prefixes \cup {None}] /\ prefix'[e] \in Prefixes
      /\ \A f \in Envs \ {e} : prefix'[f] = prefix[f]
  BY <1>1, <1>2, SMTT(60)
  DEF TypeInv, TypeOK, AllocationType, RegistrationType, RowComplete, AllocatePrefix, allocVars
<1>4. RegistrationType' /\ RowComplete'
  <2>1. now + LeaseFor[e] \in Nat
    BY <1>1, LeaseTime, Zenon DEF TypeInv, TypeOK
  <2>2. /\ regState' = [regState EXCEPT ![e] = "approved"]
        /\ idType' = [idType EXCEPT ![e] = "dynamic-v3"]
        /\ lease' = [lease EXCEPT ![e] = now + LeaseFor[e]]
        /\ alias' = [alias EXCEPT ![e] = a]
    BY <1>2, Zenon DEF Activate
  <2>3. RegistrationType'
    BY <1>1, <1>3, <2>1, <2>2, Zenon DEF TypeInv, TypeOK, RegistrationType
  <2>4. RowComplete'
    BY <1>1, <1>3, <2>2, Zenon DEF TypeInv, TypeOK, RegistrationType, RowComplete
  <2> QED
    BY <2>3, <2>4, Zenon
<1>5. KeyType'
  BY <1>1, <1>2, Zenon DEF TypeInv, TypeOK, KeyType, Activate
<1>6. RequestType'
  BY <1>2, Zenon DEF TypeInv, TypeOK, RequestType, ApprovePending
<1>7. TokenType'
  BY <1>2 DEF TypeInv, TypeOK, TokenType, RecordReplay
<1>8. RouteType'
  BY <1>2, <1>4, GenerationType, Zenon DEF TypeInv, TypeOK, flight
<1>9. HandlerType' /\ now' \in Nat
  BY <1>2, Zenon DEF TypeInv, TypeOK, HandlerType, flight
<1> QED
  BY <1>3, <1>4, <1>5, <1>6, <1>7, <1>8, <1>9, Zenon DEF TypeInv, TypeOK

\* Revoke keeps the types.
LEMMA RevokeType ==
  ASSUME TypeInv, NEW e \in Envs, Revoke(e)
  PROVE  TypeInv'
<1>1. RegistrationType' /\ RowComplete'
  BY Zenon DEF TypeInv, TypeOK, Revoke, RegistrationType, RowComplete
<1>2. AllocationType'
  BY ConstantsAssumption DEF TypeInv, TypeOK, Revoke, AllocationType
<1>3. KeyType'
  BY Zenon DEF TypeInv, TypeOK, Revoke, KeyType, RetireKeys
<1>4. RouteType'
  BY <1>1, GenerationType, Zenon DEF TypeInv, TypeOK, Revoke
<1>5. RequestType' /\ TokenType' /\ HandlerType' /\ now' \in Nat
  BY Zenon DEF TypeInv, TypeOK, Revoke, RequestType, TokenType, HandlerType, pendVars
<1> QED
  BY <1>1, <1>2, <1>3, <1>4, <1>5, Zenon DEF TypeInv, TypeOK

\* The steps that neither change a registration row's existence nor create a generation.
LEMMA TokenStepType ==
  ASSUME TypeInv, NEW e \in Envs,
         RevokeFails(e) \/ \E t \in Tokens : ConsumeReplay(e, t)
  PROVE  TypeInv'
<1> USE DEF TypeInv, TypeOK, RegistrationType, AllocationType, KeyType, RequestType, RouteType,
            HandlerType, TokenType, RowComplete, regVars, allocVars, keyVars, pendVars, genVars
<1>1. CASE RevokeFails(e)
  BY <1>1, Zenon DEF RevokeFails
<1>2. ASSUME NEW t \in Tokens, ConsumeReplay(e, t) PROVE TypeInv'
  <2>1. TokenType'
    BY <1>2, ReplayType, ZenonT(60) DEF ConsumeReplay
  <2> QED
    BY <1>2, <2>1, ZenonT(60) DEF ConsumeReplay
<1> QED
  BY <1>1, <1>2, ZenonT(60)

\* Admission, MarkReady, rotation and Renew keep the types.
LEMMA SessionType == TypeInv /\ SessionStep => TypeInv'
<1> SUFFICES ASSUME TypeInv, NEW e \in Envs, NEW k \in Keys,
                    \/ Admit(e, k)
                    \/ MarkReady(e, k)
                    \/ CompleteIdentityRotation(e, k)
                    \/ AdmitFails(e, k)
                    \/ Renew(e, k)
             PROVE  TypeInv'
  BY ZenonT(60) DEF SessionStep
<1> USE DEF TypeInv, TypeOK, AllocationType, RequestType, RouteType, TokenType, allocVars,
            pendVars, genVars
<1>1. CASE Admit(e, k)
  <2>1. HandlerType'
    BY <1>1, Zenon DEF Admit, HandlerType
  <2> QED
    BY <1>1, <2>1, Zenon DEF Admit, RegistrationType, RowComplete, KeyType, regVars, keyVars
<1>2. CASE AdmitFails(e, k)
  <2>1. HandlerType'
    BY <1>2, Zenon DEF AdmitFails, HandlerType
  <2> QED
    BY <1>2, <2>1, ZenonT(60) DEF AdmitFails, RegistrationType, RowComplete, KeyType, regVars, keyVars
<1>3. CASE MarkReady(e, k)
  BY <1>3, ZenonT(60) DEF MarkReady, RegistrationType, RowComplete, KeyType, HandlerType, keyVars
<1>4. CASE CompleteIdentityRotation(e, k)
  <2>1. KeyType'
    BY <1>4, RotationType, ZenonT(60)
  <2> QED
    BY <1>4, <2>1, ZenonT(60)
    DEF CompleteIdentityRotation, RegistrationType, RowComplete, HandlerType,
                      regVars
<1>5. CASE Renew(e, k)
  <2>1. now + LeaseFor[e] \in Nat
    BY LeaseTime, ZenonT(60)
  <2> QED
    BY <1>5, <2>1, ZenonT(60)
    DEF Renew, RegistrationType, RowComplete, KeyType, HandlerType, keyVars, flight
<1> QED
  BY <1>1, <1>2, <1>3, <1>4, <1>5, ZenonT(60)

\* Expire keeps the types, with and without a new generation.
LEMMA ExpireType == TypeInv /\ Expire => TypeInv'
<1> SUFFICES ASSUME TypeInv, Expire PROVE TypeInv'
  BY Zenon
<1>1. RegistrationType' /\ RowComplete'
  BY ZenonT(60) DEF TypeInv, TypeOK, Expire, RegistrationType, RowComplete, LeaseElapsed, Live
<1>2. AllocationType'
  BY ConstantsAssumption, SMTT(30) DEF TypeInv, TypeOK, Expire, ReleaseRoutes, AllocationType
<1>3. KeyType'
  BY Zenon DEF TypeInv, TypeOK, Expire, ExpireKeys, RetireKeys, KeyType
<1>4. RouteType'
  <2>1. CASE createRouteGenerationTx
    BY <1>1, <2>1, GenerationType, ZenonT(60) DEF TypeInv, TypeOK, Expire, flight
  <2>2. CASE UNCHANGED genVars
    BY <2>2, ZenonT(60) DEF TypeInv, TypeOK, Expire, flight, RouteType, genVars
  <2> QED
    BY <2>1, <2>2, ZenonT(60) DEF Expire
<1>5. RequestType'
  BY ZenonT(60) DEF TypeInv, TypeOK, Expire, RequestType, pendVars
<1>6. TokenType'
  BY ZenonT(60) DEF TypeInv, TypeOK, Expire, TokenType
<1>7. HandlerType' /\ now' \in Nat
  BY ZenonT(60) DEF TypeInv, TypeOK, Expire, HandlerType, flight
<1> QED
  BY <1>1, <1>2, <1>3, <1>4, <1>5, <1>6, <1>7, Zenon DEF TypeInv, TypeOK

\* The reconciler's reads and reports, and the clock, keep the types.
LEMMA ReconcileType ==
  ASSUME TypeInv,
         \/ PendingRouteGeneration
         \/ \E ok \in BOOLEAN : CompleteRouteGeneration(ok)
         \/ Tick
         \/ UNCHANGED vars
  PROVE  TypeInv'
<1> USE DEF TypeInv, TypeOK, RegistrationType, AllocationType, KeyType, RequestType,
            HandlerType, TokenType, RowComplete, regVars, allocVars, keyVars, pendVars
<1>1. CASE PendingRouteGeneration
  <2>1. RouteType'
    BY <1>1, ReconType, ZenonT(60)
  <2> QED
    BY <1>1, <2>1, ZenonT(60) DEF PendingRouteGeneration
<1>2. ASSUME NEW ok \in BOOLEAN, CompleteRouteGeneration(ok) PROVE TypeInv'
  <2>1. RouteType'
    BY <1>2, ReconType, ZenonT(60)
  <2> QED
    BY <1>2, <2>1, ZenonT(60) DEF CompleteRouteGeneration
<1>3. CASE Tick
  <2>1. now' \in Nat
    BY <1>3, ClockType, ZenonT(60)
  <2> QED
    BY <1>3, <2>1, ZenonT(60) DEF Tick, RouteType, genVars, flight
<1>4. CASE UNCHANGED vars
  BY <1>4, ZenonT(60) DEF vars, RouteType, genVars, flight
<1> QED
  BY <1>1, <1>2, <1>3, <1>4, ZenonT(60)

\* TypeInv is inductive.
LEMMA NextTypeInv == TypeInv /\ [Next]_vars => TypeInv'
<1> SUFFICES ASSUME TypeInv, [Next]_vars PROVE TypeInv'
  BY Zenon
<1>1. ASSUME NEW c \in StaticConfig, StartMigration(c[1], c[2]) PROVE TypeInv'
  <2>1. c[1] \in Envs /\ c[2] \in Prefixes
    BY ConstantsAssumption, Zenon
  <2> QED
    BY <1>1, <2>1, StartMigrationType, Zenon
<1>2. CASE RequestStep
  BY <1>2, CreatePendingType, Zenon DEF RequestStep
<1>3. ASSUME NEW r \in ReqIds, NEW t \in Tokens, ApprovePending(r, t) PROVE TypeInv'
  BY <1>3, ApproveType, Zenon
<1>4. ASSUME NEW e \in Envs, Revoke(e) PROVE TypeInv'
  BY <1>4, RevokeType, Zenon
<1> QED
  BY <1>1, <1>2, <1>3, <1>4, StartType, TokenStepType, SessionType, ExpireType, ReconcileType,
     Zenon
  DEF Next, ApprovalStep, Approve, ApprovedBefore, RevocationStep

\* Every variable has values of its type in every reachable state, for every size of the
\* registry: in particular a route generation only ever lists prefixes (never the NULL of a
\* missing row), and the reconciler's remembered id is that of an existing generation.
THEOREM TypeCorrect == Spec => []TypeOK
<1>1. Spec => []TypeInv
  BY InitTypeInv, NextTypeInv, PTL DEF Spec
<1> QED
  BY <1>1, PTL DEF TypeInv
-----------------------------------------------------------------------------
(* Replay protection.  That a token authorised at most one change is not   *)
(* inductive: one must know that a token that was recorded is still in     *)
(* oidc_replays or is refused because it is expired.                       *)

TokenInv ==
  \A t \in Tokens :
    /\ uses[t] <= 1
    /\ uses[t] = 1 => t \in replays \/ TokenExp[t] <= now

\* A token that RecordReplay records has authorised nothing before.
LEMMA RecordReplayToken ==
  ASSUME TypeInv, TokenInv, NEW t \in Tokens, RecordReplay(t), UNCHANGED now
  PROVE  TokenInv'
<1> USE ConstantsAssumption DEF TypeInv, TypeOK, TokenType
<1>1. uses[t] = 0
  <2>1. uses[t] \in Nat /\ now \in Nat /\ TokenExp[t] \in Nat
    BY Zenon
  <2>2. t \notin replays /\ TokenExp[t] > now
    BY Zenon DEF RecordReplay
  <2> QED
    BY <2>1, <2>2 DEF TokenInv
<1> QED
  BY <1>1 DEF TokenInv, RecordReplay

\* TokenInv is inductive.
LEMMA NextTokenInv == TypeInv /\ TokenInv /\ [Next]_vars => TokenInv'
<1> SUFFICES ASSUME TypeInv, TokenInv, [Next]_vars PROVE TokenInv'
  BY Zenon
<1>1. CASE UNCHANGED <<now, replays, uses>>
  BY <1>1, Zenon DEF TokenInv
<1>2. ASSUME NEW r \in ReqIds, NEW t \in Tokens, ApprovePending(r, t) PROVE TokenInv'
  BY <1>2, RecordReplayToken, ZenonT(60) DEF ApprovePending
<1>3. ASSUME NEW e \in Envs, NEW t \in Tokens, ConsumeReplay(e, t) PROVE TokenInv'
  BY <1>3, RecordReplayToken, Zenon DEF ConsumeReplay
<1>4. CASE Expire
  <2>1. replays' = {t \in replays : TokenExp[t] > now} /\ UNCHANGED <<now, uses>>
    BY <1>4, Zenon DEF Expire
  <2> QED
    BY <2>1, ConstantsAssumption DEF TokenInv, TypeInv, TypeOK
<1>5. CASE Tick
  BY <1>5, ConstantsAssumption DEF Tick, TokenInv, TypeInv, TypeOK
<1>6. CASE RequestStep \/ SessionStep
  <2>1. UNCHANGED <<now, replays, uses>>
    BY <1>6, ZenonT(60) DEF RequestStep, CreatePending, SessionStep, Admit, MarkReady,
                CompleteIdentityRotation, AdmitFails, Renew
  <2> QED
    BY <1>1, <2>1, ZenonT(60)
<1> QED
  BY <1>1, <1>2, <1>3, <1>4, <1>5, <1>6, ZenonT(60)
  DEF Next, ApprovalStep, Approve, ApprovedBefore, RevocationStep, vars,
      Start, StartMigration, Revoke, RevokeFails, PendingRouteGeneration,
      CompleteRouteGeneration

\* An OIDC token authorises at most one approval or revocation, although Expire deletes
\* replay rows and the clock, the deletion and the two handlers interleave freely.  A call
\* about a request that was approved before is accepted with any token and changes nothing.
THEOREM TokensChangeOnce == Spec => []TokenChangesOnce
<1>1. Init => TokenInv
  BY DEF Init, TokenInv
<1>2. TokenInv => TokenChangesOnce
  BY Zenon DEF TokenInv, TokenChangesOnce
<1> QED
  BY <1>1, <1>2, InitTypeInv, NextTypeInv, NextTokenInv, PTL DEF Spec
-----------------------------------------------------------------------------
(* One pending request per environment.                                    *)

\* CreatePending returns the pending request or expires it before it inserts another.
LEMMA CreatePendingOne ==
  ASSUME TypeInv, OnePendingPerEnvironment, NEW r \in ReqIds, NEW e \in Envs, NEW k \in Keys,
         NEW kind \in Kinds, NEW s \in Sources, NEW a \in Aliases,
         CreatePending(r, e, k, kind, s, a)
  PROVE  OnePendingPerEnvironment'
<1>1. /\ pendState[r] = "none"
      /\ pend' = [pend EXCEPT ![r] = Request(e, k, s, a)]
      /\ Request(e, k, s, a).env = e
      /\ \/ Pending(e) = {} /\ pendState' = [pendState EXCEPT ![r] = "pending"]
         \/ \E q \in LatestPending(e) :
              pendState' = [pendState EXCEPT ![q] = "expired", ![r] = "pending"]
  BY Zenon DEF CreatePending, Request
<1>2. pendState \in [ReqIds -> {"none", "pending", "expired", "approved"}]
      /\ DOMAIN pend = ReqIds /\ pend' = [q \in ReqIds |-> IF q = r THEN pend'[r] ELSE pend[q]]
      /\ pend'[r].env = e
  BY <1>1, ZenonT(60) DEF TypeInv, TypeOK, RequestType
<1>3. Pending(e)' = {r}
  BY <1>1, <1>2 DEF Pending, LatestPending, OnePendingPerEnvironment
<1>4. \A f \in Envs \ {e} : Pending(f)' = Pending(f)
  BY <1>1, <1>2 DEF Pending, LatestPending
<1> QED
  BY <1>3, <1>4, SMTT(30) DEF OnePendingPerEnvironment

\* OnePendingPerEnvironment is inductive, given the types.
LEMMA NextOnePending ==
  TypeInv /\ OnePendingPerEnvironment /\ [Next]_vars => OnePendingPerEnvironment'
<1> SUFFICES ASSUME TypeInv, OnePendingPerEnvironment, [Next]_vars
             PROVE  OnePendingPerEnvironment'
  BY Zenon
<1>1. CASE UNCHANGED pendVars
  BY <1>1, Zenon DEF OnePendingPerEnvironment, Pending, pendVars
<1>2. CASE RequestStep
  BY <1>2, CreatePendingOne, Zenon DEF RequestStep
<1>3. ASSUME NEW r \in ReqIds, NEW t \in Tokens, ApprovePending(r, t)
      PROVE  OnePendingPerEnvironment'
  <2>1. pendState' = [pendState EXCEPT ![r] = "approved"] /\ pend' = pend
    BY <1>3, Zenon DEF ApprovePending
  <2> QED
    BY <2>1, ZenonT(60) DEF OnePendingPerEnvironment, Pending, TypeInv, TypeOK, RequestType
<1> QED
  BY <1>1, <1>2, <1>3, ZenonT(60)
  DEF Next, ApprovalStep, Approve, ApprovedBefore, RevocationStep, vars,
      Start, StartMigration, ConsumeReplay, Revoke, RevokeFails, Expire, Tick,
      SessionStep, Admit, MarkReady, CompleteIdentityRotation, AdmitFails, Renew,
      PendingRouteGeneration, CompleteRouteGeneration

\* CreatePending never leaves two pending requests for one environment.
THEOREM OnePending == Spec => []OnePendingPerEnvironment
<1>1. Init => OnePendingPerEnvironment
  BY Zenon DEF Init, OnePendingPerEnvironment, Pending
<1> QED
  BY <1>1, InitTypeInv, NextTypeInv, NextOnePending, PTL DEF Spec
-----------------------------------------------------------------------------
(* Identity keys and certificates follow the registration's state.         *)

KeyInv == WithdrawnAdmitsNobody /\ LiveHasActiveKey

\* Approve makes a row live and its key active in one transaction.
LEMMA ApproveKey ==
  ASSUME TypeInv, KeyInv, NEW r \in ReqIds, NEW t \in Tokens, ApprovePending(r, t)
  PROVE  KeyInv'
<1> DEFINE e == pend[r].env
           k == pend[r].key
<1>1. e \in Envs /\ k \in Keys
  BY ZenonT(60) DEF ApprovePending, TypeInv, TypeOK, RequestType
<1>2. /\ regState' = [regState EXCEPT ![e] = "approved"]
      /\ idType' = [idType EXCEPT ![e] = "dynamic-v3"]
      /\ keyState' = [keyState EXCEPT ![e][k] = "active"]
      /\ cert' = [cert EXCEPT ![e] = k]
  BY Zenon DEF ApprovePending, Activate
<1> HIDE DEF e, k
<1>3. \A f \in Envs \ {e} : /\ regState'[f] = regState[f] /\ idType'[f] = idType[f]
                            /\ keyState'[f] = keyState[f] /\ cert'[f] = cert[f]
  BY <1>1, <1>2, Zenon DEF TypeInv, TypeOK, RegistrationType, KeyType
<1>4. regState'[e] = "approved" /\ keyState'[e][k] = "active"
  BY <1>1, <1>2, Zenon DEF TypeInv, TypeOK, RegistrationType, KeyType
<1> QED
  BY <1>1, <1>3, <1>4, SMTT(60) DEF KeyInv, WithdrawnAdmitsNobody, LiveHasActiveKey

\* Revoke retires the keys and the certificate with the row.
LEMMA RevokeKey ==
  ASSUME TypeInv, KeyInv, NEW e \in Envs, Revoke(e)
  PROVE  KeyInv'
<1>1. /\ regState' = [regState EXCEPT ![e] = "revoked"]
      /\ idType' = idType
      /\ cert' = [cert EXCEPT ![e] = None]
      /\ keyState' = RetireKeys({e})
  BY ZenonT(60) DEF Revoke
<1>2. \A f \in Envs \ {e} : /\ regState'[f] = regState[f] /\ cert'[f] = cert[f]
                            /\ \A k \in Keys : keyState'[f][k] = keyState[f][k]
  BY <1>1, Zenon DEF TypeInv, TypeOK, RegistrationType, KeyType, RetireKeys
<1>3. /\ regState'[e] = "revoked" /\ cert'[e] = None
      /\ \A k \in Keys : keyState'[e][k] \notin {"active", "overlap"}
  BY <1>1, Zenon DEF TypeInv, TypeOK, RegistrationType, KeyType, RetireKeys
<1>4. WithdrawnAdmitsNobody'
  BY <1>1, <1>2, <1>3, ZenonT(60) DEF KeyInv, WithdrawnAdmitsNobody
<1>5. LiveHasActiveKey'
  <2> SUFFICES ASSUME NEW f \in Envs, regState'[f] \in Live, idType'[f] = "dynamic-v3"
               PROVE  \E k \in Keys : keyState'[f][k] = "active"
    BY Zenon DEF LiveHasActiveKey
  <2>1. f # e
    BY <1>3, Zenon DEF Live
  <2>2. \E k \in Keys : keyState[f][k] = "active"
    BY <1>1, <1>2, <2>1, Zenon DEF KeyInv, LiveHasActiveKey
  <2> QED
    BY <1>2, <2>1, <2>2, Zenon
<1> QED
  BY <1>4, <1>5, Zenon DEF KeyInv

\* Expire retires the keys of the rows it withdraws; of a live row only overlap keys.
LEMMA ExpireKey == TypeInv /\ KeyInv /\ Expire => KeyInv'
<1> SUFFICES ASSUME TypeInv, KeyInv, Expire PROVE KeyInv'
  BY Zenon
<1>1. /\ regState' = [e \in Envs |-> IF e \in LeaseElapsed THEN "lease-expired" ELSE regState[e]]
      /\ cert' = [e \in Envs |-> IF e \in LeaseElapsed THEN None ELSE cert[e]]
      /\ idType' = idType
  BY ZenonT(60) DEF Expire
<1>2. \A e \in Envs, k \in Keys :
        /\ e \in LeaseElapsed => keyState'[e][k] \notin {"active", "overlap"}
        /\ keyState[e][k] \notin {"active", "overlap"} =>
             keyState'[e][k] \notin {"active", "overlap"}
        /\ e \notin LeaseElapsed /\ keyState[e][k] = "active" => keyState'[e][k] = "active"
  BY Zenon DEF Expire, ExpireKeys, RetireKeys, TypeInv, TypeOK, KeyType
<1>3. WithdrawnAdmitsNobody'
  BY <1>1, <1>2, ZenonT(60) DEF KeyInv, WithdrawnAdmitsNobody
<1>4. LiveHasActiveKey'
  <2>1. LiveHasActiveKey
    BY Zenon DEF KeyInv
  <2>2. \A e \in Envs : regState'[e] \in Live => e \notin LeaseElapsed /\ regState'[e] = regState[e]
    BY <1>1, Zenon DEF Live
  <2> QED
    BY <1>1, <1>2, <2>1, <2>2, ZenonT(60) DEF LiveHasActiveKey
<1> QED
  BY <1>3, <1>4, Zenon DEF KeyInv

\* Late steps of a session and renewals keep KeyInv.
LEMMA SessionKey == TypeInv /\ KeyInv /\ SessionStep => KeyInv'
<1> SUFFICES ASSUME TypeInv, KeyInv, NEW e \in Envs, NEW k \in Keys,
                    \/ Admit(e, k)
                    \/ MarkReady(e, k)
                    \/ CompleteIdentityRotation(e, k)
                    \/ AdmitFails(e, k)
                    \/ Renew(e, k)
             PROVE  KeyInv'
  BY Zenon DEF SessionStep
<1> USE DEF KeyInv, WithdrawnAdmitsNobody, LiveHasActiveKey
<1>1. CASE Admit(e, k) \/ AdmitFails(e, k)
  BY <1>1, ZenonT(60) DEF Admit, AdmitFails, regVars, keyVars
<1>2. CASE MarkReady(e, k)
  BY <1>2, ZenonT(60) DEF MarkReady, keyVars, Live, TypeInv, TypeOK, RegistrationType
<1>3. CASE CompleteIdentityRotation(e, k)
  <2>1. /\ \A f \in Envs \ {e} : keyState'[f] = keyState[f]
        /\ keyState[e][k] # "active" => \A j \in Keys : keyState'[e][j] = keyState[e][j]
        /\ keyState[e][k] = "active" => keyState'[e][k] = "active"
    BY <1>3, ZenonT(60) DEF CompleteIdentityRotation, TypeInv, TypeOK, KeyType
  <2>2. UNCHANGED <<regState, idType, cert>>
    BY <1>3, ZenonT(60) DEF CompleteIdentityRotation, regVars
  <2>3. keyState[e][k] = "active" => regState[e] \notin {"revoked", "lease-expired"}
    BY ZenonT(60)
  <2>4. WithdrawnAdmitsNobody'
    <3> SUFFICES ASSUME NEW f \in Envs, regState[f] \in {"revoked", "lease-expired"}
                 PROVE  cert[f] = None /\ \A j \in Keys : keyState'[f][j] = keyState[f][j]
      BY <2>2, ZenonT(60)
    <3> QED
      BY <2>1, <2>3, ZenonT(60)
  <2>5. LiveHasActiveKey'
    <3> SUFFICES ASSUME NEW f \in Envs, regState[f] \in Live, idType[f] = "dynamic-v3"
                 PROVE  \E j \in Keys : keyState'[f][j] = "active"
      BY <2>2, ZenonT(60) DEF Live
    <3>1. PICK j \in Keys : keyState[f][j] = "active"
      BY ZenonT(60)
    <3>2. CASE f # e
      BY <2>1, <3>1, <3>2, ZenonT(60)
    <3>3. CASE f = e
      <4>1. CASE keyState[e][k] = "active"
        BY <2>1, <4>1, <3>3, ZenonT(60)
      <4>2. CASE keyState[e][k] # "active"
        BY <2>1, <3>1, <3>3, <4>2, ZenonT(60)
      <4> QED
        BY <4>1, <4>2, ZenonT(60)
    <3> QED
      BY <3>2, <3>3, ZenonT(60)
  <2> QED
    BY <2>4, <2>5, ZenonT(60)
<1>4. CASE Renew(e, k)
  BY <1>4, ZenonT(60) DEF Renew, keyVars, Active, Live, TypeInv, TypeOK, KeyType
<1> QED
  BY <1>1, <1>2, <1>3, <1>4, ZenonT(60)

\* KeyInv is inductive, given the types.
LEMMA NextKeyInv == TypeInv /\ KeyInv /\ [Next]_vars => KeyInv'
<1> SUFFICES ASSUME TypeInv, KeyInv, [Next]_vars PROVE KeyInv'
  BY Zenon
<1>1. CASE UNCHANGED <<regVars, keyVars, cert>>
  BY <1>1, ZenonT(60) DEF KeyInv, WithdrawnAdmitsNobody, LiveHasActiveKey, regVars, keyVars
<1>2. ASSUME NEW c \in StaticConfig, StartMigration(c[1], c[2]) PROVE KeyInv'
  <2> DEFINE e == c[1]
  <2>1. e \in Envs /\ UNCHANGED <<keyVars, cert>>
    BY <1>2, ConstantsAssumption, Zenon DEF StartMigration
  <2>2. \/ /\ regState[e] = "none"
           /\ regState' = [regState EXCEPT ![e] = "ready"]
           /\ idType' = [idType EXCEPT ![e] = "static-v2"]
        \/ UNCHANGED <<regState, idType>>
    BY <1>2, ZenonT(60) DEF StartMigration, ImportRegistration, regVars
  <2> HIDE DEF e
  <2> QED
    BY <2>1, <2>2, ZenonT(60)
    DEF KeyInv, WithdrawnAdmitsNobody, LiveHasActiveKey, Live, keyVars, TypeInv,
                      TypeOK, RegistrationType
<1>3. CASE RequestStep
  <2>1. UNCHANGED <<regVars, keyVars, cert>>
    BY <1>3 DEF RequestStep, CreatePending
  <2> QED
    BY <1>1, <2>1, Zenon
<1>4. ASSUME NEW r \in ReqIds, NEW t \in Tokens, ApprovePending(r, t) PROVE KeyInv'
  BY <1>4, ApproveKey, Zenon
<1>5. ASSUME NEW e \in Envs, Revoke(e) PROVE KeyInv'
  BY <1>5, RevokeKey, Zenon
<1> QED
  BY <1>1, <1>2, <1>3, <1>4, <1>5, ExpireKey, SessionKey, ZenonT(60)
  DEF Next, ApprovalStep, Approve, ApprovedBefore, RevocationStep, vars,
      Start, ConsumeReplay, RevokeFails, PendingRouteGeneration,
      CompleteRouteGeneration, Tick

\* A revoked or lease-expired registration has no usable key and no active certificate, even
\* if a session admitted earlier finishes its MarkReady and CompleteIdentityRotation late.
THEOREM WithdrawnIsClosed == Spec => []WithdrawnAdmitsNobody
<1>1. Init => KeyInv
  BY ZenonT(60) DEF Init, KeyInv, WithdrawnAdmitsNobody, LiveHasActiveKey, Live
<1>2. KeyInv => WithdrawnAdmitsNobody
  BY Zenon DEF KeyInv
<1> QED
  BY <1>1, <1>2, InitTypeInv, NextTypeInv, NextKeyInv, PTL DEF Spec

\* No sequence of rotations, overlaps and expiries leaves a live dynamic registration
\* without an active identity key.
THEOREM LiveNotLockedOut == Spec => []LiveHasActiveKey
<1>1. Init => KeyInv
  BY ZenonT(60) DEF Init, KeyInv, WithdrawnAdmitsNobody, LiveHasActiveKey, Live
<1>2. KeyInv => LiveHasActiveKey
  BY ZenonT(60) DEF KeyInv
<1> QED
  BY <1>1, <1>2, InitTypeInv, NextTypeInv, NextKeyInv, PTL DEF Spec
-----------------------------------------------------------------------------
(* Prefixes.  A quarantined prefix remembers its last holder, and two      *)
(* rows never have the same prefix.                                        *)

QuarantineHeld ==
  \A p \in Prefixes : allocState[p] = "quarantined" => holder[p] \in Envs

PrefixUnique ==
  \A e, f \in Envs : e # f /\ prefix[e] # None => prefix[e] # prefix[f]

PrefixInv == QuarantineHeld /\ PrefixUnique

\* PrefixInv is inductive, given the types.
LEMMA NextPrefixInv == TypeInv /\ PrefixInv /\ [Next]_vars => PrefixInv'
<1> SUFFICES ASSUME TypeInv, PrefixInv, [Next]_vars PROVE PrefixInv'
  BY Zenon
<1>1. CASE UNCHANGED <<prefix, allocState, holder>>
  BY <1>1, Zenon DEF PrefixInv, QuarantineHeld, PrefixUnique
<1>2. CASE Start
  BY <1>2, ZenonT(60) DEF Start, InitializePool, regVars, PrefixInv, QuarantineHeld, PrefixUnique
<1>3. ASSUME NEW c \in StaticConfig, StartMigration(c[1], c[2]) PROVE PrefixInv'
  <2> DEFINE e == c[1]
             p == c[2]
  <2>1. e \in Envs /\ p \in Prefixes
    BY ConstantsAssumption, Zenon
  <2>2. \/ UniquePrefix(e, p) /\ prefix' = [prefix EXCEPT ![e] = p]
        \/ prefix' = prefix
    BY <1>3, ZenonT(60) DEF StartMigration, ImportRegistration, regVars
  <2>3. /\ \A q \in Prefixes : allocState'[q] = "quarantined" => allocState[q] = "quarantined"
        /\ holder' = [holder EXCEPT ![p] = e]
    BY <1>3, ZenonT(60) DEF StartMigration
  <2> HIDE DEF e, p
  <2>4. PrefixUnique'
    <3>1. CASE prefix' = prefix
      BY <3>1, ZenonT(60) DEF PrefixInv, PrefixUnique
    <3>2. CASE UniquePrefix(e, p) /\ prefix' = [prefix EXCEPT ![e] = p]
      <4>1. prefix'[e] = p /\ \A f \in Envs : f # e => prefix'[f] = prefix[f] /\ prefix[f] # p
        BY <2>1, <3>2, ZenonT(60) DEF UniquePrefix, TypeInv, TypeOK, RegistrationType
      <4> QED
        BY <4>1, ZenonT(60) DEF PrefixInv, PrefixUnique
    <3> QED
      BY <2>2, <3>1, <3>2, Zenon
  <2>5. QuarantineHeld'
    BY <2>1, <2>3, Zenon DEF PrefixInv, QuarantineHeld, TypeInv, TypeOK, AllocationType
  <2> QED
    BY <2>4, <2>5, Zenon DEF PrefixInv
<1>4. ASSUME NEW r \in ReqIds, NEW t \in Tokens, ApprovePending(r, t) PROVE PrefixInv'
  <2> DEFINE e == pend[r].env
  <2>1. e \in Envs
    BY <1>4, ZenonT(60) DEF ApprovePending, TypeInv, TypeOK, RequestType
  <2>2. \/ \E p \in Prefixes : /\ AllocatePrefix(e, p) /\ UniquePrefix(e, p)
                               /\ prefix' = [prefix EXCEPT ![e] = p]
        \/ UNCHANGED <<allocVars, prefix>>
    BY <1>4, ZenonT(60) DEF ApprovePending
  <2> HIDE DEF e
  <2>3. PrefixUnique'
    BY <2>1, <2>2, ConstantsAssumption, SMTT(60)
    DEF PrefixInv, PrefixUnique, UniquePrefix, TypeInv, TypeOK, RegistrationType
  <2>4. QuarantineHeld'
    BY <2>1, <2>2, SMTT(30)
    DEF PrefixInv, QuarantineHeld, AllocatePrefix, allocVars, TypeInv, TypeOK, AllocationType
  <2> QED
    BY <2>3, <2>4, Zenon DEF PrefixInv
<1>5. ASSUME NEW e \in Envs, Revoke(e) PROVE PrefixInv'
  BY <1>5, ZenonT(60) DEF Revoke, PrefixInv, QuarantineHeld, PrefixUnique
<1>6. CASE Expire
  <2>1. ReleaseRoutes /\ prefix' = prefix
    BY <1>6, ZenonT(60) DEF Expire
  <2>2. QuarantineHeld'
    BY <2>1, ZenonT(60) DEF ReleaseRoutes, LeaseElapsed, PrefixInv, QuarantineHeld
  <2> QED
    BY <2>1, <2>2, Zenon DEF PrefixInv, PrefixUnique
<1>7. CASE RequestStep \/ SessionStep
  <2>1. CASE RequestStep
    BY <1>1, <2>1 DEF RequestStep, CreatePending, regVars, allocVars
  <2>2. ASSUME NEW e \in Envs, NEW k \in Keys,
               \/ Admit(e, k) \/ MarkReady(e, k) \/ AdmitFails(e, k) \/ Renew(e, k)
               \/ CompleteIdentityRotation(e, k)
        PROVE  UNCHANGED <<prefix, allocState, holder>>
    <3>1. CASE Admit(e, k) \/ AdmitFails(e, k)
      BY <3>1, Zenon DEF Admit, AdmitFails, regVars, allocVars
    <3>2. CASE MarkReady(e, k)
      BY <3>2, Zenon DEF MarkReady, allocVars
    <3>3. CASE CompleteIdentityRotation(e, k)
      BY <3>3, Zenon DEF CompleteIdentityRotation, regVars, allocVars
    <3>4. CASE Renew(e, k)
      BY <3>4, Zenon DEF Renew, allocVars
    <3> QED
      BY <2>2, <3>1, <3>2, <3>3, <3>4, Zenon
  <2>3. CASE SessionStep
    BY <1>1, <2>2, <2>3, Zenon DEF SessionStep
  <2> QED
    BY <1>7, <2>1, <2>3, Zenon
<1> QED
  BY <1>1, <1>2, <1>3, <1>4, <1>5, <1>6, <1>7, ZenonT(60)
  DEF Next, ApprovalStep, Approve, ApprovedBefore, RevocationStep, vars,
      ConsumeReplay, RevokeFails, PendingRouteGeneration, CompleteRouteGeneration,
      Tick, regVars, allocVars

\* At the start there are no prefixes and no allocations.
LEMMA InitPrefixInv == Init => PrefixInv
  BY Zenon DEF Init, PrefixInv, QuarantineHeld, PrefixUnique

\* Steps that leave every row's prefix alone.
LEMMA PrefixUnchanged ==
  ASSUME [Next]_vars,
         ~ \E c \in StaticConfig : StartMigration(c[1], c[2]),
         ~ \E r \in ReqIds, t \in Tokens : ApprovePending(r, t)
  PROVE  prefix' = prefix
<1>1. CASE RequestStep \/ SessionStep
  BY <1>1, ZenonT(60) DEF RequestStep, CreatePending, SessionStep, Admit, MarkReady,
              CompleteIdentityRotation, AdmitFails, Renew, regVars
<1> QED
  BY <1>1, ZenonT(60) DEF Next, ApprovalStep, Approve, ApprovedBefore, RevocationStep, vars,
              Start, ConsumeReplay, Revoke, RevokeFails, Expire,
              PendingRouteGeneration, CompleteRouteGeneration, Tick, regVars

\* A prefix under quarantine is given to no other environment, by no approval, re-approval
\* or static import, before quarantine_until has passed.
THEOREM QuarantineHolds == Spec => QuarantineRespected
<1> DEFINE Respected == \A p \in Prefixes, f \in Envs :
             allocState[p] = "quarantined" /\ until[p] > now /\ holder[p] # f =>
               (prefix'[f] = p => prefix[f] = p)
<1>1. TypeInv /\ PrefixInv /\ [Next]_vars => Respected
  <2> SUFFICES ASSUME TypeInv, PrefixInv, [Next]_vars,
                      NEW p \in Prefixes, NEW f \in Envs,
                      allocState[p] = "quarantined", until[p] > now, holder[p] # f,
                      prefix'[f] = p
               PROVE  prefix[f] = p
    BY ZenonT(60)
  <2>1. ASSUME NEW c \in StaticConfig, StartMigration(c[1], c[2]) PROVE prefix[f] = p
    <3>1. c[1] \in Envs /\ c[2] \in Prefixes
      BY ConstantsAssumption, Zenon
    <3>2. \/ prefix' = [prefix EXCEPT ![c[1]] = c[2]]
          \/ prefix' = prefix
      BY <2>1, ZenonT(60) DEF StartMigration, ImportRegistration, regVars
    <3>3. holder[c[2]] \in {None, c[1]}
      BY <2>1, ZenonT(60) DEF StartMigration
    <3>4. holder[p] # None
      BY ConstantsAssumption, Zenon DEF PrefixInv, QuarantineHeld
    <3> QED
      BY <3>1, <3>2, <3>3, <3>4, Zenon DEF TypeInv, TypeOK, RegistrationType
  <2>2. ASSUME NEW r \in ReqIds, NEW t \in Tokens, ApprovePending(r, t) PROVE prefix[f] = p
    <3> DEFINE e == pend[r].env
    <3>1. \/ \E q \in Prefixes : AllocatePrefix(e, q) /\ prefix' = [prefix EXCEPT ![e] = q]
          \/ prefix' = prefix
      BY <2>2, ZenonT(60) DEF ApprovePending
    <3> HIDE DEF e
    <3>2. \A q \in Prefixes : AllocatePrefix(e, q) => q # p
      <4>1. p \notin Elapsed /\ allocState[p] # "free"
        BY DEF Elapsed, TypeInv, TypeOK, AllocationType
      <4> QED
        BY <4>1, ZenonT(60) DEF AllocatePrefix
    <3> QED
      BY <3>1, <3>2, ZenonT(60) DEF TypeInv, TypeOK, RegistrationType
  <2> QED
    BY <2>1, <2>2, PrefixUnchanged, Zenon
<1>2. TypeInv /\ PrefixInv /\ [Next]_vars => [Respected]_vars
  BY <1>1, ZenonT(60)
<1> QED
  BY <1>2, InitTypeInv, NextTypeInv, InitPrefixInv, NextPrefixInv, PTL
  DEF Spec, QuarantineRespected
-----------------------------------------------------------------------------
(* Route generations.                                                      *)

\* createRouteGenerationTx leaves the routes of the active rows as the newest generation.
LEMMA NewGenerationCurrent ==
  ASSUME TypeInv, TypeInv', PrefixInv', createRouteGenerationTx, UNCHANGED recon
  PROVE  NewestGenerationCurrent'
<1>1. LastRoutes' = ActiveRoutes'
  BY GenerationType DEF TypeInv, TypeOK, LastRoutes, RouteType
<1>2. ASSUME NEW e \in Envs, idType'[e] = "dynamic-v3", Active(e)'
      PROVE  prefix'[e] \in ActiveRoutes'
  BY <1>2, Zenon DEF ActiveRoutes
<1>3. ASSUME NEW e \in Envs, regState'[e] \in {"revoked", "lease-expired"},
             prefix'[e] \in ActiveRoutes'
      PROVE  FALSE
  <2>1. PICK f \in Envs : Active(f)' /\ prefix'[f] = prefix'[e]
    BY <1>3, Zenon DEF ActiveRoutes
  <2>2. f # e
    BY <1>3, <2>1, Zenon DEF Active, Live
  <2>3. prefix'[f] # None
    BY <2>1, ConstantsAssumption, ZenonT(60) DEF TypeInv, RowComplete, Active, Live
  <2> QED
    BY <2>1, <2>2, <2>3, Zenon DEF PrefixInv, PrefixUnique
<1> QED
  BY <1>1, <1>2, <1>3, Zenon DEF NewestGenerationCurrent

\* A step that adds no generation keeps the newest one current if it neither activates nor
\* withdraws a dynamic row.
LEMMA OldGenerationCurrent ==
  ASSUME NewestGenerationCurrent, UNCHANGED gens,
         \A e \in Envs : idType'[e] = "dynamic-v3" =>
           /\ idType[e] = "dynamic-v3" /\ prefix'[e] = prefix[e]
           /\ Active(e)' => Active(e)
           /\ regState'[e] \in {"revoked", "lease-expired"} =>
                regState[e] \in {"revoked", "lease-expired"}
  PROVE  NewestGenerationCurrent'
  BY ZenonT(60) DEF NewestGenerationCurrent, LastRoutes

\* NewestGenerationCurrent is preserved by every step.
LEMMA NextGenerationCurrent ==
  TypeInv /\ TypeInv' /\ PrefixInv' /\ NewestGenerationCurrent /\ [Next]_vars
    => NewestGenerationCurrent'
<1> SUFFICES ASSUME TypeInv, TypeInv', PrefixInv', NewestGenerationCurrent, [Next]_vars
             PROVE  NewestGenerationCurrent'
  BY Zenon
<1>1. CASE UNCHANGED <<now, regVars, gens>>
  BY <1>1, OldGenerationCurrent, ZenonT(60) DEF regVars, Active
<1>2. ASSUME NEW c \in StaticConfig, StartMigration(c[1], c[2])
      PROVE  NewestGenerationCurrent'
  <2> DEFINE e == c[1]
  <2>1. e \in Envs /\ UNCHANGED <<now, gens>>
    BY <1>2, ConstantsAssumption, ZenonT(60) DEF StartMigration, genVars
  <2>2. \/ /\ idType' = [idType EXCEPT ![e] = "static-v2"]
           /\ regState' = [regState EXCEPT ![e] = "ready"]
           /\ lease' = [lease EXCEPT ![e] = MaxTime + 1]
           /\ prefix' = [prefix EXCEPT ![e] = c[2]]
        \/ /\ idType[e] = "static-v2" /\ UNCHANGED <<regState, idType, lease>>
           /\ prefix' = [prefix EXCEPT ![e] = c[2]]
        \/ UNCHANGED regVars
    BY <1>2, ZenonT(60) DEF StartMigration, ImportRegistration
  <2> HIDE DEF e
  <2>3. \A f \in Envs : idType'[f] = "dynamic-v3" =>
          /\ idType[f] = "dynamic-v3" /\ prefix'[f] = prefix[f]
          /\ regState'[f] = regState[f] /\ lease'[f] = lease[f]
    BY <2>1, <2>2, ZenonT(60) DEF regVars, TypeInv, TypeOK, RegistrationType
  <2> QED
    BY <2>1, <2>3, OldGenerationCurrent, ZenonT(60) DEF Active
<1>3. ASSUME NEW r \in ReqIds, NEW t \in Tokens, ApprovePending(r, t)
      PROVE  NewestGenerationCurrent'
  BY <1>3, NewGenerationCurrent, ZenonT(60) DEF ApprovePending, flight
<1>4. ASSUME NEW e \in Envs, Revoke(e) PROVE NewestGenerationCurrent'
  BY <1>4, NewGenerationCurrent, ZenonT(60) DEF Revoke
<1>5. CASE Expire
  <2>1. CASE createRouteGenerationTx
    BY <1>5, <2>1, NewGenerationCurrent, ZenonT(60) DEF Expire, flight
  <2>2. CASE LeaseElapsed = {} /\ UNCHANGED gens
    <3>1. /\ UNCHANGED <<now, idType, lease, prefix>>
          /\ \A e \in Envs : regState'[e] = regState[e]
      BY <1>5, <2>2, ZenonT(60) DEF Expire
    <3> QED
      BY <2>2, <3>1, OldGenerationCurrent, ZenonT(60) DEF Active
  <2> QED
    BY <1>5, <2>1, <2>2, ZenonT(60) DEF Expire, genVars
<1>6. CASE Tick
  <2>1. UNCHANGED <<regVars, gens>> /\ now' = now + 1
    BY <1>6, Zenon DEF Tick, genVars
  <2>2. \A e \in Envs : Active(e)' => Active(e)
    BY <2>1, SMTT(30) DEF Active, regVars, TypeInv, TypeOK, RegistrationType
  <2> QED
    BY <2>1, <2>2, OldGenerationCurrent, ZenonT(60) DEF regVars
<1>7. CASE SessionStep
  <2> PICK e \in Envs, k \in Keys :
             \/ Admit(e, k)
             \/ MarkReady(e, k)
             \/ CompleteIdentityRotation(e, k)
             \/ AdmitFails(e, k)
             \/ Renew(e, k)
    BY <1>7, Zenon DEF SessionStep
  <2>1. CASE MarkReady(e, k)
    <3>1. /\ UNCHANGED <<now, gens, idType, lease, prefix>>
          /\ regState' = [regState EXCEPT ![e] = IF @ = "approved" THEN "ready" ELSE @]
      BY <2>1, Zenon DEF MarkReady, genVars
    <3>2. \A f \in Envs :
            /\ regState'[f] \in Live => regState[f] \in Live
            /\ regState'[f] \in {"revoked", "lease-expired"} =>
                 regState[f] \in {"revoked", "lease-expired"}
      BY <3>1, ZenonT(60) DEF Live, TypeInv, TypeOK, RegistrationType
    <3> QED
      BY <3>1, <3>2, OldGenerationCurrent, ZenonT(60) DEF Active
  <2>2. CASE Renew(e, k)
    <3>1. /\ UNCHANGED <<now, gens, idType, regState, prefix>>
          /\ lease' = [lease EXCEPT ![e] = now + LeaseFor[e]]
          /\ Active(e)
      BY <2>2, Zenon DEF Renew, genVars
    <3>2. \A f \in Envs : Active(f)' => Active(f)
      BY <3>1, ZenonT(60) DEF Active, TypeInv, TypeOK, RegistrationType
    <3> QED
      BY <3>1, <3>2, OldGenerationCurrent, ZenonT(60)
  <2> QED
    BY <1>1, <2>1, <2>2, ZenonT(60) DEF Admit, CompleteIdentityRotation, AdmitFails, genVars
<1>8. CASE RequestStep
  <2>1. UNCHANGED <<now, regVars, gens>>
    BY <1>8 DEF RequestStep, CreatePending, genVars
  <2> QED
    BY <1>1, <2>1, ZenonT(60)
<1> QED
  BY <1>1, <1>2, <1>3, <1>4, <1>5, <1>6, <1>7, <1>8, ZenonT(60)
  DEF Next, ApprovalStep, Approve, ApprovedBefore, RevocationStep, vars,
      Start, ConsumeReplay, RevokeFails, PendingRouteGeneration,
      CompleteRouteGeneration, genVars

\* After every approval, revocation and expiry the newest route generation lists exactly the
\* dynamic registrations that are entitled to their route.
THEOREM GenerationsCurrent == Spec => []NewestGenerationCurrent
<1>1. Init => NewestGenerationCurrent
  BY DEF Init, NewestGenerationCurrent
<1> QED
  BY <1>1, InitTypeInv, NextTypeInv, InitPrefixInv, NextPrefixInv, NextGenerationCurrent, PTL
  DEF Spec

-----------------------------------------------------------------------------
(* The registry implements the ledger.                                     *)

\* What a static row looks like: it has a lease beyond the end of time and no identity key,
\* so that nothing renews or expires it, and the import that moves it finds it ready or
\* revoked.
StaticInv ==
  /\ now <= MaxTime
  /\ \A e \in Envs :
       /\ idType[e] # "dynamic-v3" => \A k \in Keys : keyState[e][k] = "none"
       /\ idType[e] = "static-v2" => /\ regState[e] \in {"ready", "revoked"}
                                     /\ lease[e] = MaxTime + 1

\* The types, unique prefixes and static rows together make the mapping work.
LedgerInv == TypeInv /\ PrefixInv /\ StaticInv

\* The two substituted variables of the ledger.
Rows == [p \in Prefixes |-> LedgerRow(p)]
LapsedRoutes == {prefix[e] : e \in LeaseElapsed}

\* The mapping without CHOOSE: the ledger's row of a prefix is the live registration with
\* that prefix, and there is at most one.
RowView ==
  /\ \A e \in Envs : regState[e] \in Live => /\ prefix[e] \in Prefixes
                                             /\ LedgerRow(prefix[e]) = regState[e]
  /\ \A p \in Prefixes : (\A e \in Envs : prefix[e] = p => regState[e] \notin Live) =>
                            LedgerRow(p) = "off"
  /\ \A e, f \in Envs : e # f /\ regState[e] \in Live => prefix[e] # prefix[f]

\* UNIQUE(virtual_prefix) makes the mapping single-valued.
LEMMA RowsSeen == TypeInv /\ PrefixInv => RowView
<1> SUFFICES ASSUME TypeInv, PrefixInv PROVE RowView
  BY Zenon
<1>1. ASSUME NEW e \in Envs, NEW f \in Envs, e # f, regState[e] \in Live
      PROVE  prefix[e] # prefix[f]
  BY <1>1, ConstantsAssumption, Zenon
  DEF PrefixInv, PrefixUnique, TypeInv, RowComplete, Live
<1>2. ASSUME NEW e \in Envs, regState[e] \in Live
      PROVE  prefix[e] \in Prefixes /\ LedgerRow(prefix[e]) = regState[e]
  <2> DEFINE live == {f \in Envs : prefix[f] = prefix[e] /\ regState[f] \in Live}
  <2>1. prefix[e] \in Prefixes
    BY <1>2, Zenon DEF TypeInv, RowComplete, Live
  <2>2. live = {e}
    BY <1>1, <1>2, ZenonT(30)
  <2>3. (CHOOSE f \in live : TRUE) = e
    BY <2>2, ZenonT(30)
  <2> QED
    BY <2>1, <2>2, <2>3, ZenonT(30) DEF LedgerRow
<1>3. ASSUME NEW p \in Prefixes, \A e \in Envs : prefix[e] = p => regState[e] \notin Live
      PROVE  LedgerRow(p) = "off"
  BY <1>3, ZenonT(30) DEF LedgerRow
<1> QED
  BY <1>1, <1>2, <1>3, ZenonT(30) DEF RowView

\* The same in the next state.
LEMMA RowsSeenNext == TypeInv' /\ PrefixInv' => RowView'
  BY RowsSeen, PTL

\* The routes of a generation are the ledger's active ones.
ActiveView == ActiveRoutes = {p \in Prefixes : Rows[p] # "off"} \ LapsedRoutes

\* Active registrations are the live ones whose lease is not over.
LEMMA ActiveSeen == TypeInv /\ PrefixInv => ActiveView
<1> SUFFICES ASSUME TypeInv, PrefixInv PROVE ActiveView
  BY Zenon
<1>1. RowView
  BY RowsSeen, Zenon
<1>2. \A e \in Envs : lease[e] \in Nat /\ now \in Nat
  BY Zenon DEF TypeInv, TypeOK, RegistrationType
<1>3. \A e \in Envs : regState[e] \in Live => (Active(e) <=> e \notin LeaseElapsed)
  BY <1>2, SMTT(30) DEF Active, LeaseElapsed
<1>4. ASSUME NEW p \in ActiveRoutes
      PROVE  p \in {q \in Prefixes : Rows[q] # "off"} \ LapsedRoutes
  <2>1. PICK e \in Envs : Active(e) /\ p = prefix[e]
    BY Zenon DEF ActiveRoutes
  <2>2. regState[e] \in Live /\ p \in Prefixes /\ Rows[p] = regState[e]
    BY <1>1, <2>1, Zenon DEF Active, RowView, Rows
  <2>3. p \notin LapsedRoutes
    BY <1>1, <1>3, <2>1, <2>2, ZenonT(30) DEF LapsedRoutes, RowView, LeaseElapsed
  <2> QED
    BY <2>2, <2>3, Zenon DEF Live
<1>5. ASSUME NEW p \in Prefixes, Rows[p] # "off", p \notin LapsedRoutes
      PROVE  p \in ActiveRoutes
  <2>1. PICK e \in Envs : prefix[e] = p /\ regState[e] \in Live
    BY <1>1, <1>5, ZenonT(30) DEF RowView, Rows
  <2>2. e \notin LeaseElapsed
    BY <1>5, <2>1, ZenonT(30) DEF LapsedRoutes
  <2> QED
    BY <1>3, <2>1, <2>2, ZenonT(30) DEF ActiveRoutes
<1> QED
  BY <1>4, <1>5, ZenonT(30) DEF ActiveView

\* The same in the next state.
LEMMA ActiveSeenNext == TypeInv' /\ PrefixInv' => ActiveView'
  BY ActiveSeen, PTL
-----------------------------------------------------------------------------
\* A start imports a static row as it is described, or moves it.
LEMMA StartMigrationStatic ==
  ASSUME TypeInv, StaticInv, NEW e \in Envs, NEW p \in Prefixes, StartMigration(e, p)
  PROVE  StaticInv'
<1>1. UNCHANGED <<now, keyState>>
  BY ZenonT(60) DEF StartMigration, keyVars
<1>2. \/ /\ regState[e] = "none"
         /\ regState' = [regState EXCEPT ![e] = "ready"]
         /\ idType' = [idType EXCEPT ![e] = "static-v2"]
         /\ lease' = [lease EXCEPT ![e] = MaxTime + 1]
      \/ UNCHANGED <<regState, idType, lease>>
  BY ZenonT(60) DEF StartMigration, ImportRegistration, regVars
<1>3. CASE regState[e] = "none" /\ regState' = [regState EXCEPT ![e] = "ready"]
           /\ idType' = [idType EXCEPT ![e] = "static-v2"]
           /\ lease' = [lease EXCEPT ![e] = MaxTime + 1]
  BY <1>1, <1>3, ZenonT(60) DEF StaticInv, TypeInv, TypeOK, RegistrationType, RowComplete
<1> QED
  BY <1>1, <1>2, <1>3, ZenonT(60) DEF StaticInv

\* StaticInv is inductive, given the types: only an approval gives a row a key, and it makes
\* the row dynamic.
LEMMA NextStaticInv == TypeInv /\ StaticInv /\ [Next]_vars => StaticInv'
<1> SUFFICES ASSUME TypeInv, StaticInv, [Next]_vars PROVE StaticInv'
  BY Zenon
<1>1. CASE UNCHANGED <<now, regState, idType, lease, keyState>>
  BY <1>1, Zenon DEF StaticInv
<1>2. ASSUME NEW c \in StaticConfig, StartMigration(c[1], c[2]) PROVE StaticInv'
  <2>1. c[1] \in Envs /\ c[2] \in Prefixes
    BY ConstantsAssumption, Zenon
  <2> QED
    BY <1>2, <2>1, StartMigrationStatic, ZenonT(30)
<1>3. ASSUME NEW r \in ReqIds, NEW t \in Tokens, ApprovePending(r, t) PROVE StaticInv'
  <2> DEFINE e == pend[r].env
             k == pend[r].key
  <2>1. e \in Envs
    BY <1>3, Zenon DEF ApprovePending, TypeInv, TypeOK, RequestType
  <2>2. Activate(e, k, pend[r].alias) /\ UNCHANGED now
    BY <1>3, ZenonT(60) DEF ApprovePending
  <2> HIDE DEF e, k
  <2>3. \A f \in Envs : f # e => /\ regState'[f] = regState[f] /\ idType'[f] = idType[f]
                                 /\ lease'[f] = lease[f] /\ keyState'[f] = keyState[f]
    BY <2>1, <2>2, ZenonT(60) DEF Activate, TypeInv, TypeOK, RegistrationType, KeyType
  <2>4. idType'[e] = "dynamic-v3"
    BY <2>1, <2>2, Zenon DEF Activate, TypeInv, TypeOK, RegistrationType
  <2> QED
    BY <2>2, <2>3, <2>4, SMTT(30) DEF StaticInv
<1>4. ASSUME NEW e \in Envs, Revoke(e) PROVE StaticInv'
  <2>1. /\ UNCHANGED <<now, idType, lease>>
        /\ regState' = [regState EXCEPT ![e] = "revoked"]
        /\ keyState' = RetireKeys({e})
    BY <1>4, ZenonT(60) DEF Revoke
  <2> QED
    BY <2>1, SMTT(30) DEF StaticInv, RetireKeys, TypeInv, TypeOK, RegistrationType
<1>5. CASE Expire
  <2>1. /\ UNCHANGED <<now, idType, lease>>
        /\ regState' = [f \in Envs |-> IF f \in LeaseElapsed THEN "lease-expired"
                                       ELSE regState[f]]
        /\ ExpireKeys
    BY <1>5, ZenonT(60) DEF Expire
  <2>2. \A f \in Envs : idType[f] = "static-v2" => f \notin LeaseElapsed
    BY ConstantsAssumption, SMTT(30) DEF StaticInv, LeaseElapsed, TypeInv, TypeOK
  <2>3. \A f \in Envs, k \in Keys : keyState[f][k] = "none" => keyState'[f][k] = "none"
    BY <2>1, Zenon DEF ExpireKeys, RetireKeys
  <2> QED
    BY <2>1, <2>2, <2>3, ZenonT(60) DEF StaticInv
<1>6. CASE Tick
  <2>1. now' = now + 1 /\ now < MaxTime /\ UNCHANGED <<regState, idType, lease, keyState>>
    BY <1>6, Zenon DEF Tick, regVars, keyVars
  <2> QED
    BY <2>1, ConstantsAssumption, SMTT(30) DEF StaticInv, TypeInv, TypeOK
<1>7. CASE SessionStep
  <2> PICK e \in Envs, k \in Keys :
             \/ Admit(e, k)
             \/ MarkReady(e, k)
             \/ CompleteIdentityRotation(e, k)
             \/ AdmitFails(e, k)
             \/ Renew(e, k)
    BY <1>7, Zenon DEF SessionStep
  <2>1. CASE MarkReady(e, k)
    <3>1. /\ UNCHANGED <<now, idType, lease, keyState>>
          /\ regState' = [regState EXCEPT ![e] = IF @ = "approved" THEN "ready" ELSE @]
      BY <2>1, Zenon DEF MarkReady, keyVars
    <3>2. \A f \in Envs : regState[f] \in {"ready", "revoked"} => regState'[f] = regState[f]
      BY <3>1, Zenon DEF TypeInv, TypeOK, RegistrationType
    <3> QED
      BY <3>1, <3>2, Zenon DEF StaticInv
  <2>2. CASE Renew(e, k)
    <3>1. /\ UNCHANGED <<now, idType, regState, keyState>>
          /\ lease' = [lease EXCEPT ![e] = now + LeaseFor[e]]
          /\ KeyUsable(e, k)
      BY <2>2, Zenon DEF Renew, keyVars
    <3>2. idType[e] = "dynamic-v3"
      <4>1. keyState[e][k] # "none"
        BY <3>1, Zenon DEF KeyUsable
      <4> QED
        BY <4>1, Zenon DEF StaticInv
    <3>3. \A f \in Envs \ {e} : lease'[f] = lease[f]
      BY <3>1, Zenon DEF TypeInv, TypeOK, RegistrationType
    <3>4. \A f \in Envs : idType[f] = "static-v2" => f \in Envs \ {e}
      BY <3>2, Zenon
    <3> QED
      BY <3>1, <3>3, <3>4, Zenon DEF StaticInv
  <2>3. CASE CompleteIdentityRotation(e, k)
    <3>1. UNCHANGED <<now, idType, regState, lease>>
      BY <2>3, Zenon DEF CompleteIdentityRotation, regVars
    <3>2. \A f \in Envs, j \in Keys : keyState[f][j] = "none" => keyState'[f][j] = "none"
      BY <2>3, Zenon DEF CompleteIdentityRotation, TypeInv, TypeOK, KeyType
    <3> QED
      BY <3>1, <3>2, ZenonT(60) DEF StaticInv
  <2> QED
    BY <1>1, <2>1, <2>2, <2>3, Zenon DEF Admit, AdmitFails, regVars, keyVars
<1>8. CASE RequestStep
  BY <1>1, <1>8, ZenonT(60) DEF RequestStep, CreatePending, regVars, keyVars
<1> QED
  BY <1>1, <1>2, <1>3, <1>4, <1>5, <1>6, <1>7, <1>8, Zenon
  DEF Next, ApprovalStep, Approve, ApprovedBefore, RevocationStep, vars, Start, ConsumeReplay, RevokeFails,
      PendingRouteGeneration, CompleteRouteGeneration, regVars, keyVars
-----------------------------------------------------------------------------
\* The ledger sees nothing of a step that leaves rows, leases over and generations alone.
LEMMA ViewUnchanged ==
  ASSUME UNCHANGED <<regState, prefix, gens, genState>>, LeaseElapsed' = LeaseElapsed
  PROVE  UNCHANGED Ledger!ledgerVars
<1>1. \A p \in Prefixes : LedgerRow(p)' = LedgerRow(p)
  BY DEF LedgerRow
<1>2. LapsedRoutes' = LapsedRoutes
  BY Zenon DEF LapsedRoutes
<1> QED
  BY <1>1, <1>2, Zenon DEF Ledger!ledgerVars, LapsedRoutes

\* createRouteGenerationTx lists the routes that the ledger has as active.
LEMMA GenerationSeen ==
  ASSUME TypeInv', PrefixInv', createRouteGenerationTx
  PROVE  Ledger!NewGeneration
<1>1. ActiveRoutes' = Ledger!Active'
  BY ActiveSeenNext, ZenonT(30) DEF ActiveView, Rows, LapsedRoutes, Ledger!Active, Ledger!On
<1> QED
  BY <1>1, ZenonT(30) DEF createRouteGenerationTx, Ledger!NewGeneration

\* A step that changes the row of one environment changes the ledger at its old and its new
\* prefix only.
LEMMA OneRowChanges ==
  ASSUME RowView, RowView', NEW e \in Envs, prefix'[e] \in Prefixes,
         \A f \in Envs : f # e => regState'[f] = regState[f] /\ prefix'[f] = prefix[f]
  PROVE  \A p \in Prefixes :
           LedgerRow(p)' = IF p = prefix'[e]
                           THEN IF regState'[e] \in Live THEN regState'[e] ELSE "off"
                           ELSE IF p = prefix[e] THEN "off" ELSE LedgerRow(p)
<1> SUFFICES ASSUME NEW p \in Prefixes
             PROVE  LedgerRow(p)' = IF p = prefix'[e]
                                    THEN IF regState'[e] \in Live THEN regState'[e] ELSE "off"
                                    ELSE IF p = prefix[e] THEN "off" ELSE LedgerRow(p)
  BY Zenon
<1> DEFINE Used == \E f \in Envs : prefix[f] = p /\ regState[f] \in Live
           UsedNext == \E f \in Envs : prefix'[f] = p /\ regState'[f] \in Live
<1>1. ~UsedNext => LedgerRow(p)' = "off"
  BY ZenonT(30) DEF RowView
<1>2. ~Used => LedgerRow(p) = "off"
  BY ZenonT(30) DEF RowView
<1>3. \A f \in Envs : prefix'[f] = p /\ regState'[f] \in Live => LedgerRow(p)' = regState'[f]
  BY ZenonT(30) DEF RowView
<1>4. \A f \in Envs : prefix[f] = p /\ regState[f] \in Live => LedgerRow(p) = regState[f]
  BY ZenonT(30) DEF RowView
<1>5. CASE p = prefix'[e]
  <2>1. regState'[e] \notin Live => ~UsedNext
    BY <1>5, ZenonT(30) DEF RowView
  <2> QED
    BY <1>1, <1>3, <1>5, <2>1, ZenonT(30)
<1>6. CASE p # prefix'[e] /\ p = prefix[e]
  <2>1. ~UsedNext
    BY <1>6, ZenonT(60) DEF RowView
  <2> QED
    BY <1>1, <1>6, <2>1, ZenonT(30)
<1>7. CASE p # prefix'[e] /\ p # prefix[e]
  <2>1. CASE Used
    BY <1>3, <1>4, <1>7, <2>1, ZenonT(30)
  <2>2. CASE ~Used
    <3>1. ~UsedNext
      BY <1>7, <2>2, ZenonT(30)
    <3> QED
      BY <1>1, <1>2, <1>7, <2>2, <3>1, ZenonT(30)
  <2> QED
    BY <2>1, <2>2, Zenon
<1> QED
  BY <1>5, <1>6, <1>7, ZenonT(30)

\* When the step also ends what is left of the row's lease, or renews it, its prefix leaves
\* the lapsed ones.
LEMMA OneLapseEnds ==
  ASSUME RowView, NEW e \in Envs, LeaseElapsed' = LeaseElapsed \ {e},
         e \in LeaseElapsed => prefix'[e] = prefix[e], RowView',
         \A f \in Envs : f # e => regState'[f] = regState[f] /\ prefix'[f] = prefix[f]
  PROVE  LapsedRoutes' = LapsedRoutes \ {prefix'[e]}
<1>1. \A f \in LeaseElapsed : f \in Envs /\ regState[f] \in Live
  BY ZenonT(30) DEF LeaseElapsed
<1>2. \A f \in LeaseElapsed \ {e} : prefix'[f] = prefix[f] /\ prefix'[f] # prefix'[e]
  BY <1>1, ZenonT(30) DEF RowView
<1>3. e \in LeaseElapsed => prefix'[e] = prefix[e]
  BY Zenon
<1>4. ASSUME NEW p PROVE p \in LapsedRoutes' <=> p \in LapsedRoutes \ {prefix'[e]}
  <2>1. ASSUME p \in LapsedRoutes' PROVE p \in LapsedRoutes \ {prefix'[e]}
    <3>1. PICK f \in LeaseElapsed \ {e} : p = prefix'[f]
      BY <2>1, Zenon DEF LapsedRoutes
    <3> QED BY <1>2, <3>1, Zenon DEF LapsedRoutes
  <2>2. ASSUME p \in LapsedRoutes \ {prefix'[e]} PROVE p \in LapsedRoutes'
    <3>1. PICK f \in LeaseElapsed : p = prefix[f]
      BY <2>2, Zenon DEF LapsedRoutes
    <3>2. f # e
      BY <1>3, <2>2, <3>1, Zenon
    <3> QED BY <1>2, <3>1, <3>2, Zenon DEF LapsedRoutes
  <2> QED BY <2>1, <2>2, Zenon
<1> QED
  BY <1>4, Zenon
-----------------------------------------------------------------------------
(* One lemma for each step of the registry that the ledger sees.           *)

\* An approval turns the environment's prefix on and starts its lease.
LEMMA ApproveSeen ==
  ASSUME LedgerInv, LedgerInv', NEW r \in ReqIds, NEW t \in Tokens, ApprovePending(r, t)
  PROVE  \E p \in Prefixes : Ledger!Approve(p)
<1> DEFINE e == pend[r].env
           k == pend[r].key
<1>1. e \in Envs
  BY Zenon DEF ApprovePending, LedgerInv, TypeInv, TypeOK, RequestType
<1>2. /\ Activate(e, k, pend[r].alias)
      /\ now' = now
      /\ createRouteGenerationTx
      /\ \/ regState[e] = "none" /\ \E p \in Prefixes : prefix' = [prefix EXCEPT ![e] = p]
         \/ regState[e] # "none" /\ prefix' = prefix
  BY ZenonT(60) DEF ApprovePending
<1> HIDE DEF e, k
<1>3. RowView /\ RowView'
  BY RowsSeen, RowsSeenNext, ZenonT(30) DEF LedgerInv
<1>4. \A f \in Envs : f # e => /\ regState'[f] = regState[f] /\ prefix'[f] = prefix[f]
                               /\ lease'[f] = lease[f]
  BY <1>1, <1>2, SMTT(30) DEF Activate, LedgerInv, TypeInv, TypeOK, RegistrationType
<1>5. regState'[e] = "approved" /\ lease'[e] = now + LeaseFor[e]
  BY <1>1, <1>2, SMTT(30) DEF Activate, LedgerInv, TypeInv, TypeOK, RegistrationType
<1>6. prefix'[e] \in Prefixes
  BY <1>1, <1>5, Zenon DEF LedgerInv, TypeInv, RowComplete
<1>7. LeaseElapsed' = LeaseElapsed \ {e}
  <2>1. ~ (lease'[e] <= now')
    BY <1>1, <1>2, <1>5, ConstantsAssumption, SMTT(60) DEF LedgerInv, TypeInv, TypeOK
  <2> QED
    BY <1>2, <1>4, <2>1, Zenon DEF LeaseElapsed
<1>8. regState[e] # "none" => prefix'[e] = prefix[e]
  BY <1>2, Zenon
<1>9. e \in LeaseElapsed => prefix'[e] = prefix[e]
  BY <1>8, Zenon DEF LeaseElapsed, Live
<1>10. LapsedRoutes' = LapsedRoutes \ {prefix'[e]}
  BY <1>1, <1>3, <1>4, <1>7, <1>9, OneLapseEnds, ZenonT(30)
<1>11. \A p \in Prefixes :
         LedgerRow(p)' = IF p = prefix'[e] THEN "approved" ELSE LedgerRow(p)
  <2> SUFFICES ASSUME NEW p \in Prefixes
               PROVE  LedgerRow(p)' = IF p = prefix'[e] THEN "approved" ELSE LedgerRow(p)
    BY Zenon
  <2>1. LedgerRow(p)' = IF p = prefix'[e]
                        THEN IF regState'[e] \in Live THEN regState'[e] ELSE "off"
                        ELSE IF p = prefix[e] THEN "off" ELSE LedgerRow(p)
    BY <1>1, <1>3, <1>4, <1>6, OneRowChanges, ZenonT(30)
  <2>2. "approved" \in Live
    BY Zenon DEF Live
  <2>3. CASE p = prefix[e] /\ p # prefix'[e]
    <3>1. regState[e] \notin Live
      BY <1>8, <2>3, Zenon DEF Live
    <3>2. \A f \in Envs : prefix[f] = p => regState[f] \notin Live
      BY <1>1, <1>3, <2>3, <3>1, ZenonT(30) DEF RowView
    <3>3. LedgerRow(p) = "off"
      BY <1>3, <3>2, ZenonT(30) DEF RowView
    <3> QED
      BY <2>1, <2>3, <3>3, Zenon
  <2> QED
    BY <1>5, <2>1, <2>2, <2>3, ZenonT(30)
<1>12. Ledger!NewGeneration
  BY <1>2, GenerationSeen, ZenonT(30) DEF LedgerInv
<1>13. PICK p \in Prefixes : p = prefix'[e]
  BY <1>6, Zenon
<1>14. Ledger!Approve(p)
  BY <1>10, <1>11, <1>12, <1>13, Zenon DEF Ledger!Approve, LapsedRoutes
<1> QED
  BY <1>14, Zenon

\* A revocation turns it off.
LEMMA RevokeSeen ==
  ASSUME LedgerInv, LedgerInv', NEW e \in Envs, Revoke(e)
  PROVE  \E p \in Prefixes : Ledger!Revoke(p)
<1>1. /\ regState[e] # "none"
      /\ regState' = [regState EXCEPT ![e] = "revoked"]
      /\ UNCHANGED <<now, lease, prefix>>
      /\ createRouteGenerationTx
  BY ZenonT(60) DEF Revoke
<1>2. RowView /\ RowView'
  BY RowsSeen, RowsSeenNext, ZenonT(30) DEF LedgerInv
<1>3. /\ prefix'[e] = prefix[e] /\ prefix[e] \in Prefixes
      /\ regState'[e] = "revoked"
      /\ \A f \in Envs : f # e => regState'[f] = regState[f] /\ prefix'[f] = prefix[f]
  BY <1>1, ZenonT(60) DEF LedgerInv, TypeInv, RowComplete, TypeOK, RegistrationType
<1>4. LeaseElapsed' = LeaseElapsed \ {e}
  BY <1>1, <1>3, Zenon DEF LeaseElapsed, Live
<1>5. LapsedRoutes' = LapsedRoutes \ {prefix[e]}
  BY <1>2, <1>3, <1>4, OneLapseEnds, ZenonT(30)
<1>6. \A p \in Prefixes : LedgerRow(p)' = IF p = prefix[e] THEN "off" ELSE LedgerRow(p)
  <2>1. regState'[e] \notin Live
    BY <1>3, Zenon DEF Live
  <2> QED
    BY <1>2, <1>3, <2>1, OneRowChanges, ZenonT(30)
<1>7. Ledger!NewGeneration
  BY <1>1, GenerationSeen, ZenonT(30) DEF LedgerInv
<1>8. PICK p \in Prefixes : p = prefix[e]
  BY <1>3, Zenon
<1>9. Ledger!Revoke(p)
  BY <1>5, <1>6, <1>7, <1>8, Zenon DEF Ledger!Revoke, LapsedRoutes
<1> QED
  BY <1>9, Zenon

\* The reconciler's tick turns off what has lapsed.
LEMMA ExpireSeen ==
  ASSUME LedgerInv, LedgerInv', Expire
  PROVE  Ledger!Expire
<1>1. /\ regState' = [f \in Envs |-> IF f \in LeaseElapsed THEN "lease-expired" ELSE regState[f]]
      /\ UNCHANGED <<now, lease, prefix>>
      /\ IF LeaseElapsed # {} THEN createRouteGenerationTx ELSE UNCHANGED genVars
  BY ZenonT(60) DEF Expire
<1>2. RowView /\ RowView'
  BY RowsSeen, RowsSeenNext, ZenonT(30) DEF LedgerInv
<1>3. \A f \in Envs : regState'[f] \in Live <=> regState[f] \in Live /\ f \notin LeaseElapsed
  BY <1>1, Zenon DEF Live
<1>4. LeaseElapsed' = {}
  BY <1>1, <1>3, Zenon DEF LeaseElapsed
<1>5. LapsedRoutes' = {}
  BY <1>4, Zenon DEF LapsedRoutes
<1>6. \A p \in Prefixes : LedgerRow(p)' = IF p \in LapsedRoutes THEN "off" ELSE LedgerRow(p)
  <2> SUFFICES ASSUME NEW p \in Prefixes
               PROVE  LedgerRow(p)' = IF p \in LapsedRoutes THEN "off" ELSE LedgerRow(p)
    BY Zenon
  <2>1. CASE p \in LapsedRoutes
    <3>1. PICK e \in LeaseElapsed : p = prefix[e]
      BY <2>1, Zenon DEF LapsedRoutes
    <3>2. \A f \in Envs : prefix'[f] = p => regState'[f] \notin Live
      BY <1>1, <1>2, <1>3, <3>1, ZenonT(30) DEF RowView, LeaseElapsed
    <3> QED
      BY <1>2, <2>1, <3>2, ZenonT(30) DEF RowView
  <2>2. CASE p \notin LapsedRoutes /\ \E f \in Envs : prefix[f] = p /\ regState[f] \in Live
    <3>1. PICK f \in Envs : prefix[f] = p /\ regState[f] \in Live
      BY <2>2, Zenon
    <3>2. f \notin LeaseElapsed
      BY <2>2, <3>1, ZenonT(30) DEF LapsedRoutes
    <3>3. regState'[f] = regState[f] /\ prefix'[f] = p /\ regState'[f] \in Live
      BY <1>1, <3>1, <3>2, ZenonT(30)
    <3>4. LedgerRow(p)' = regState'[f] /\ LedgerRow(p) = regState[f]
      BY <1>2, <3>1, <3>3, ZenonT(30) DEF RowView
    <3> QED
      BY <2>2, <3>3, <3>4, Zenon
  <2>3. CASE p \notin LapsedRoutes /\ \A f \in Envs : prefix[f] = p => regState[f] \notin Live
    <3>1. LedgerRow(p) = "off"
      BY <1>2, <2>3, ZenonT(30) DEF RowView
    <3>2. \A f \in Envs : prefix'[f] = p => regState'[f] \notin Live
      BY <1>1, <1>3, <2>3, ZenonT(30)
    <3>3. LedgerRow(p)' = "off"
      BY <1>2, <3>2, ZenonT(30) DEF RowView
    <3> QED
      BY <2>3, <3>1, <3>3, Zenon
  <2> QED
    BY <2>1, <2>2, <2>3, ZenonT(30)
<1>7. LapsedRoutes # {} <=> LeaseElapsed # {}
  BY ZenonT(30) DEF LapsedRoutes
<1>8. IF LapsedRoutes # {} THEN Ledger!NewGeneration ELSE UNCHANGED <<gens, genState>>
  BY <1>1, <1>7, GenerationSeen, ZenonT(30) DEF LedgerInv, genVars
<1> QED
  BY <1>5, <1>6, <1>8, Zenon DEF Ledger!Expire, LapsedRoutes

\* The clock can only make more leases lapse.
LEMMA TickSeen ==
  ASSUME LedgerInv, LedgerInv', Tick
  PROVE  \E P \in SUBSET Ledger!On : Ledger!Lapse(P)
<1>1. UNCHANGED <<regState, lease, prefix, gens, genState>> /\ now' = now + 1
  BY Zenon DEF Tick, regVars, genVars
<1>2. LeaseElapsed \subseteq LeaseElapsed'
  BY <1>1, SMTT(30) DEF LeaseElapsed, LedgerInv, TypeInv, TypeOK, RegistrationType
<1>3. LapsedRoutes' = LapsedRoutes \cup LapsedRoutes'
  BY <1>1, <1>2, Zenon DEF LapsedRoutes
<1>4. \A p \in Prefixes : LedgerRow(p)' = LedgerRow(p)
  BY <1>1 DEF LedgerRow
<1>5. LapsedRoutes' \subseteq Ledger!On
  <2>1. RowView
    BY RowsSeen, ZenonT(30) DEF LedgerInv
  <2>2. \A e \in LeaseElapsed' : e \in Envs /\ regState[e] \in Live
    BY <1>1, ZenonT(30) DEF LeaseElapsed
  <2>3. \A e \in LeaseElapsed' : prefix[e] \in Prefixes /\ LedgerRow(prefix[e]) # "off"
    BY <2>1, <2>2, Zenon DEF RowView, Live
  <2> QED
    BY <1>1, <2>3, Zenon DEF LapsedRoutes, Ledger!On
<1>6. PICK P \in SUBSET Ledger!On : P = LapsedRoutes'
  BY <1>5, Zenon
<1>7. Ledger!Lapse(P)
  BY <1>1, <1>3, <1>4, <1>6, Zenon DEF Ledger!Lapse, LapsedRoutes
<1> QED
  BY <1>7, Zenon
\* The first session of an approved row makes it ready; later ones are not seen.
LEMMA MarkReadySeen ==
  ASSUME LedgerInv, LedgerInv', NEW e \in Envs, NEW k \in Keys, MarkReady(e, k)
  PROVE  (\E p \in Prefixes : Ledger!MarkReady(p)) \/ UNCHANGED Ledger!ledgerVars
<1>1. /\ regState' = [regState EXCEPT ![e] = IF @ = "approved" THEN "ready" ELSE @]
      /\ UNCHANGED <<now, lease, prefix, gens, genState>>
  BY Zenon DEF MarkReady, genVars
<1>2. \A f \in Envs : regState'[f] \in Live <=> regState[f] \in Live
  BY <1>1, Zenon DEF Live, LedgerInv, TypeInv, TypeOK, RegistrationType
<1>3. LeaseElapsed' = LeaseElapsed
  BY <1>1, <1>2, Zenon DEF LeaseElapsed
<1>4. CASE regState[e] = "approved"
  <2>1. RowView /\ RowView'
    BY RowsSeen, RowsSeenNext, ZenonT(30) DEF LedgerInv
  <2>2. /\ prefix'[e] = prefix[e] /\ prefix[e] \in Prefixes
        /\ regState'[e] = "ready"
        /\ \A f \in Envs : f # e => regState'[f] = regState[f] /\ prefix'[f] = prefix[f]
    BY <1>1, <1>4, ZenonT(60) DEF LedgerInv, TypeInv, RowComplete, TypeOK, RegistrationType
  <2>3. "ready" \in Live /\ "approved" \in Live
    BY Zenon DEF Live
  <2>4. \A p \in Prefixes : LedgerRow(p)' = IF p = prefix[e] THEN "ready" ELSE LedgerRow(p)
    BY <2>1, <2>2, <2>3, OneRowChanges, ZenonT(30)
  <2>5. LedgerRow(prefix[e]) = "approved"
    BY <1>4, <2>1, <2>3, ZenonT(60) DEF RowView
  <2>6. LapsedRoutes' = LapsedRoutes
    BY <1>1, <1>3, Zenon DEF LapsedRoutes
  <2>7. PICK p \in Prefixes : p = prefix[e]
    BY <2>2, ZenonT(60)
  <2>8. Ledger!MarkReady(p)
    BY <1>1, <2>4, <2>5, <2>6, <2>7, Zenon DEF Ledger!MarkReady, LapsedRoutes
  <2> QED
    BY <2>8, Zenon
<1>5. CASE regState[e] # "approved"
  <2>1. regState' = regState
    BY <1>1, <1>5, Zenon DEF LedgerInv, TypeInv, TypeOK, RegistrationType
  <2> QED
    BY <1>1, <1>3, <2>1, ViewUnchanged, ZenonT(60)
<1> QED
  BY <1>4, <1>5, Zenon

\* The lease of a static row does not elapse.
LEMMA LongLease == LedgerInv => ~ (MaxTime + 1 <= now)
<1> SUFFICES ASSUME LedgerInv PROVE ~ (MaxTime + 1 <= now)
  BY Zenon
<1>1. now \in Nat /\ now <= MaxTime
  BY ZenonT(30) DEF LedgerInv, StaticInv, TypeInv, TypeOK
<1> QED
  BY <1>1, ConstantsAssumption

\* A start that imports a static connector turns its prefix on, moves it, or changes nothing
\* the ledger sees (the same configuration again, a revoked row, a dynamic row).
LEMMA StartMigrationSeen ==
  ASSUME LedgerInv, LedgerInv', NEW e \in Envs, NEW p \in Prefixes, StartMigration(e, p)
  PROVE  (\E q, s \in Prefixes : Ledger!Import(q, s)) \/ UNCHANGED Ledger!ledgerVars
<1>1. UNCHANGED <<now, gens, genState>>
  BY ZenonT(60) DEF StartMigration, genVars
<1>2. RowView /\ RowView'
  BY RowsSeen, RowsSeenNext, ZenonT(30) DEF LedgerInv
<1>3. \/ /\ regState[e] = "none"
         /\ UniquePrefix(e, p)
         /\ regState' = [regState EXCEPT ![e] = "ready"]
         /\ lease' = [lease EXCEPT ![e] = MaxTime + 1]
         /\ prefix' = [prefix EXCEPT ![e] = p]
      \/ /\ idType[e] = "static-v2"
         /\ UniquePrefix(e, p)
         /\ prefix' = [prefix EXCEPT ![e] = p]
         /\ UNCHANGED <<regState, lease>>
      \/ UNCHANGED <<regState, lease, prefix>>
  BY ZenonT(60) DEF StartMigration, ImportRegistration, regVars
<1>4. CASE UNCHANGED <<regState, lease, prefix>>
  <2>1. LeaseElapsed' = LeaseElapsed
    BY <1>1, <1>4, Zenon DEF LeaseElapsed
  <2> QED
    BY <1>1, <1>4, <2>1, ViewUnchanged, ZenonT(30)
<1>5. ASSUME UniquePrefix(e, p), prefix' = [prefix EXCEPT ![e] = p], regState'[e] = "ready",
             regState[e] = "none" \/ (regState[e] = "ready" /\ prefix[e] # p),
             \A f \in Envs : f # e => regState'[f] = regState[f] /\ lease'[f] = lease[f],
             e \notin LeaseElapsed, lease'[e] = MaxTime + 1
      PROVE  \E q, s \in Prefixes : Ledger!Import(q, s)
  <2>1. /\ prefix'[e] = p
        /\ \A f \in Envs : f # e => regState'[f] = regState[f] /\ prefix'[f] = prefix[f]
    BY <1>5, ZenonT(60) DEF LedgerInv, TypeInv, TypeOK, RegistrationType
  <2>2. "ready" \in Live /\ "none" \notin Live
    BY Zenon DEF Live
  <2>3. \A f \in Envs : prefix[f] = p => regState[f] \notin Live
    BY <1>5, <2>2, ZenonT(30) DEF UniquePrefix
  <2>4. LedgerRow(p) = "off"
    BY <1>2, <2>3, ZenonT(30) DEF RowView
  <2>5. e \notin LeaseElapsed'
    <3>1. now' = now /\ lease'[e] = MaxTime + 1
      BY <1>1, <1>5, ZenonT(30)
    <3> QED
      BY <3>1, LongLease, ZenonT(30) DEF LeaseElapsed
  <2>6. LeaseElapsed' = LeaseElapsed
    <3>1. \A f \in Envs : f # e => (f \in LeaseElapsed' <=> f \in LeaseElapsed)
      BY <1>1, <1>5, ZenonT(30) DEF LeaseElapsed
    <3>2. LeaseElapsed \subseteq Envs /\ LeaseElapsed' \subseteq Envs
      BY ZenonT(30) DEF LeaseElapsed
    <3> HIDE DEF LeaseElapsed
    <3>3. e \notin LeaseElapsed
      BY <1>5, ZenonT(30)
    <3> QED
      BY <2>5, <3>1, <3>2, <3>3
  <2>7. LapsedRoutes' = LapsedRoutes
    <3>1. \A f \in LeaseElapsed : prefix'[f] = prefix[f]
      BY <1>5, <2>1, ZenonT(30) DEF LeaseElapsed
    <3> QED
      BY <2>6, <3>1, Zenon DEF LapsedRoutes
  <2>8. PICK q \in Prefixes : q = IF regState[e] = "none" THEN p ELSE prefix[e]
    <3>1. regState[e] # "none" => prefix[e] \in Prefixes
      BY ZenonT(60) DEF LedgerInv, TypeInv, RowComplete
    <3> QED
      BY <3>1, Zenon
  <2>9. \A x \in Prefixes :
          LedgerRow(x)' = IF x = p THEN "ready" ELSE IF x = q THEN "off" ELSE LedgerRow(x)
    <3> SUFFICES ASSUME NEW x \in Prefixes
                 PROVE  LedgerRow(x)' = IF x = p THEN "ready"
                                        ELSE IF x = q THEN "off" ELSE LedgerRow(x)
      BY Zenon
    <3>1. LedgerRow(x)' = IF x = p THEN "ready"
                          ELSE IF x = prefix[e] THEN "off" ELSE LedgerRow(x)
      <4>1. prefix'[e] \in Prefixes
        BY <2>1, Zenon
      <4>2. LedgerRow(x)' = IF x = prefix'[e]
                            THEN IF regState'[e] \in Live THEN regState'[e] ELSE "off"
                            ELSE IF x = prefix[e] THEN "off" ELSE LedgerRow(x)
        BY <1>2, <2>1, <4>1, OneRowChanges, ZenonT(60)
      <4>3. regState'[e] = "ready"
        BY <1>5, Zenon
      <4> QED
        BY <2>1, <2>2, <4>2, <4>3, ZenonT(30)
    <3>2. CASE regState[e] = "none" /\ x = prefix[e]
      <4>1. \A f \in Envs : prefix[f] = x => regState[f] \notin Live
        BY <1>2, <2>2, <3>2, ZenonT(60) DEF RowView
      <4>2. LedgerRow(x) = "off"
        BY <1>2, <4>1, ZenonT(30) DEF RowView
      <4> QED
        BY <2>8, <3>1, <3>2, <4>2, Zenon
    <3>3. CASE regState[e] = "none" /\ x # prefix[e]
      BY <2>8, <3>1, <3>3, Zenon
    <3>4. CASE regState[e] # "none"
      BY <2>8, <3>1, <3>4, Zenon
    <3> QED
      BY <3>2, <3>3, <3>4, Zenon
  <2>10. Ledger!Import(q, p)
    BY <1>1, <2>4, <2>7, <2>9, Zenon DEF Ledger!Import, LapsedRoutes
  <2> QED
    BY <2>10, Zenon
<1>6. CASE regState[e] = "none" /\ UniquePrefix(e, p)
           /\ regState' = [regState EXCEPT ![e] = "ready"]
           /\ lease' = [lease EXCEPT ![e] = MaxTime + 1]
           /\ prefix' = [prefix EXCEPT ![e] = p]
  <2>1. /\ regState'[e] = "ready" /\ lease'[e] = MaxTime + 1
        /\ \A f \in Envs : f # e => regState'[f] = regState[f] /\ lease'[f] = lease[f]
    BY <1>6, ZenonT(60) DEF LedgerInv, TypeInv, TypeOK, RegistrationType
  <2>2. e \notin LeaseElapsed
    BY <1>6, Zenon DEF LeaseElapsed, Live
  <2> QED
    BY <1>5, <1>6, <2>1, <2>2, ZenonT(60)
<1>7. CASE idType[e] = "static-v2" /\ UniquePrefix(e, p) /\ prefix' = [prefix EXCEPT ![e] = p]
           /\ UNCHANGED <<regState, lease>>
  <2>1. lease[e] = MaxTime + 1 /\ regState[e] \in {"ready", "revoked"}
    BY <1>7, ZenonT(30) DEF LedgerInv, StaticInv
  <2>2. e \notin LeaseElapsed
    BY <2>1, LongLease, ZenonT(30) DEF LeaseElapsed
  <2>3. LeaseElapsed' = LeaseElapsed
    BY <1>1, <1>7, ZenonT(60) DEF LeaseElapsed
  <2>4. CASE prefix[e] = p
    <3>1. prefix' = prefix
      BY <1>7, <2>4, Zenon DEF LedgerInv, TypeInv, TypeOK, RegistrationType
    <3> QED
      BY <1>1, <1>7, <2>3, <3>1, ViewUnchanged, ZenonT(60)
  <2>5. CASE regState[e] = "ready" /\ prefix[e] # p
    <3>1. /\ regState'[e] = "ready" /\ lease'[e] = MaxTime + 1
          /\ \A f \in Envs : f # e => regState'[f] = regState[f] /\ lease'[f] = lease[f]
      BY <1>7, <2>1, <2>5, Zenon
    <3> QED
      BY <1>5, <1>7, <2>2, <2>5, <3>1, ZenonT(60)
  <2>6. CASE regState[e] = "revoked" /\ prefix[e] # p
    <3>1. /\ prefix'[e] = p
          /\ \A f \in Envs : f # e => regState'[f] = regState[f] /\ prefix'[f] = prefix[f]
      BY <1>7, Zenon DEF LedgerInv, TypeInv, TypeOK, RegistrationType
    <3>2. regState[e] \notin Live /\ regState'[e] \notin Live
      BY <1>7, <2>6, Zenon DEF Live
    <3>3. \A x \in Prefixes : LedgerRow(x)' = LedgerRow(x)
      <4> SUFFICES ASSUME NEW x \in Prefixes PROVE LedgerRow(x)' = LedgerRow(x)
        BY Zenon
      <4>1. LedgerRow(x)' = IF x = p THEN "off"
                            ELSE IF x = prefix[e] THEN "off" ELSE LedgerRow(x)
        BY <1>2, <3>1, <3>2, OneRowChanges, ZenonT(60)
      <4>2. x = p \/ x = prefix[e] => \A f \in Envs : prefix[f] = x => regState[f] \notin Live
        <5>1. CASE x = p
          BY <1>7, <3>2, <5>1, ZenonT(60) DEF UniquePrefix
        <5>2. CASE x = prefix[e]
          BY <1>2, <3>2, <5>2, ZenonT(60) DEF RowView
        <5> QED
          BY <5>1, <5>2, Zenon
      <4>3. x = p \/ x = prefix[e] => LedgerRow(x) = "off"
        BY <1>2, <4>2, ZenonT(30) DEF RowView
      <4> QED
        BY <4>1, <4>3, ZenonT(30)
    <3>4. LapsedRoutes' = LapsedRoutes
      BY <2>2, <2>3, <3>1, ZenonT(60) DEF LapsedRoutes, LeaseElapsed
    <3> QED
      BY <1>1, <3>3, <3>4, Zenon DEF Ledger!ledgerVars, LapsedRoutes
  <2> QED
    BY <2>1, <2>4, <2>5, <2>6, ZenonT(30)
<1> QED
  BY <1>3, <1>4, <1>6, <1>7, ZenonT(30)

\* The reconciler completes the generation it had read.
LEMMA CompleteSeen ==
  ASSUME LedgerInv, LedgerInv', NEW ok \in BOOLEAN, CompleteRouteGeneration(ok)
  PROVE  \E i \in 1..Len(gens) : Ledger!Complete(i, ok)
<1>1. /\ recon # 0 /\ UNCHANGED <<now, regState, lease, prefix, gens>>
      /\ genState' = [genState EXCEPT ![recon] = IF ok THEN "applied" ELSE "pending"]
  BY ZenonT(60) DEF CompleteRouteGeneration, regVars
<1>2. recon \in 1..Len(gens)
  BY <1>1, SMTT(30) DEF LedgerInv, TypeInv, TypeOK, RouteType
<1>3. LapsedRoutes' = LapsedRoutes
  BY <1>1, Zenon DEF LapsedRoutes, LeaseElapsed
<1>4. \A p \in Prefixes : LedgerRow(p)' = LedgerRow(p)
  BY <1>1 DEF LedgerRow
<1>5. PICK i \in 1..Len(gens) : i = recon
  BY <1>2, Zenon
<1>6. Ledger!Complete(i, ok)
  BY <1>1, <1>3, <1>4, <1>5, Zenon DEF Ledger!Complete, LapsedRoutes
<1> QED
  BY <1>6, Zenon

\* A renewal extends a lease that is not over.
LEMMA RenewUnseen ==
  ASSUME LedgerInv, NEW e \in Envs, NEW k \in Keys, Renew(e, k)
  PROVE  UNCHANGED Ledger!ledgerVars
<1>1. /\ UNCHANGED <<now, regState, prefix, gens, genState>>
      /\ lease' = [lease EXCEPT ![e] = now + LeaseFor[e]]
      /\ Active(e)
  BY Zenon DEF Renew, genVars
<1>2. lease'[e] = now + LeaseFor[e] /\ \A f \in Envs : f # e => lease'[f] = lease[f]
  BY <1>1, Zenon DEF LedgerInv, TypeInv, TypeOK, RegistrationType
<1>3. ~(lease'[e] <= now) /\ ~(lease[e] <= now)
  <2>1. now \in Nat /\ lease[e] \in Nat /\ lease[e] > now
    BY <1>1, Zenon DEF Active, LedgerInv, TypeInv, TypeOK, RegistrationType
  <2>2. LeaseFor[e] \in Nat \ {0}
    BY ConstantsAssumption, Zenon
  <2> QED
    BY <1>2, <2>1, <2>2, SMTT(30)
<1>4. LeaseElapsed' = LeaseElapsed
  BY <1>1, <1>2, <1>3, ZenonT(30) DEF LeaseElapsed
<1> QED
  BY <1>1, <1>4, ViewUnchanged, ZenonT(30)

\* Every step of the registry is a step of the ledger or is not seen by it.
LEMMA StepSeen ==
  LedgerInv /\ LedgerInv' /\ [Next]_vars => [Ledger!LedgerNext]_(Ledger!ledgerVars)
<1> SUFFICES ASSUME LedgerInv, LedgerInv', [Next]_vars
             PROVE  Ledger!LedgerNext \/ UNCHANGED Ledger!ledgerVars
  BY Zenon
<1>1. CASE UNCHANGED <<now, regState, lease, prefix, gens, genState>>
  <2>1. LeaseElapsed' = LeaseElapsed
    BY <1>1, Zenon DEF LeaseElapsed
  <2> QED
    BY <1>1, <2>1, ViewUnchanged, ZenonT(30)
<1>2. ASSUME NEW c \in StaticConfig, StartMigration(c[1], c[2])
      PROVE  Ledger!LedgerNext \/ UNCHANGED Ledger!ledgerVars
  <2>1. c[1] \in Envs /\ c[2] \in Prefixes
    BY ConstantsAssumption, Zenon
  <2>2. (\E q, s \in Prefixes : Ledger!Import(q, s)) \/ UNCHANGED Ledger!ledgerVars
    BY <1>2, <2>1, StartMigrationSeen, ZenonT(30)
  <2> QED
    BY <2>2, ZenonT(30) DEF Ledger!LedgerNext
<1>3. ASSUME NEW r \in ReqIds, NEW t \in Tokens, ApprovePending(r, t) PROVE Ledger!LedgerNext
  BY <1>3, ApproveSeen, ZenonT(30) DEF Ledger!LedgerNext
<1>4. ASSUME NEW e \in Envs, Revoke(e) PROVE Ledger!LedgerNext
  BY <1>4, RevokeSeen, ZenonT(30) DEF Ledger!LedgerNext
<1>5. CASE Expire
  BY <1>5, ExpireSeen, ZenonT(30) DEF Ledger!LedgerNext
<1>6. CASE Tick
  BY <1>6, TickSeen, ZenonT(30) DEF Ledger!LedgerNext
<1>7. ASSUME NEW ok \in BOOLEAN, CompleteRouteGeneration(ok) PROVE Ledger!LedgerNext
  BY <1>7, CompleteSeen, ZenonT(30) DEF Ledger!LedgerNext
<1>8. ASSUME NEW e \in Envs, NEW k \in Keys, MarkReady(e, k)
      PROVE  Ledger!LedgerNext \/ UNCHANGED Ledger!ledgerVars
  BY <1>8, MarkReadySeen, ZenonT(30) DEF Ledger!LedgerNext
<1>9. ASSUME NEW e \in Envs, NEW k \in Keys, Renew(e, k)
      PROVE  UNCHANGED Ledger!ledgerVars
  BY <1>9, RenewUnseen, ZenonT(60)
<1>10. ASSUME NEW e \in Envs, NEW k \in Keys,
              Admit(e, k) \/ CompleteIdentityRotation(e, k) \/ AdmitFails(e, k)
       PROVE  UNCHANGED <<now, regState, lease, prefix, gens, genState>>
  BY <1>10, Zenon DEF Admit, CompleteIdentityRotation, AdmitFails, regVars, genVars
<1>11. CASE RequestStep
  <2>1. UNCHANGED <<now, regState, lease, prefix, gens, genState>>
    BY <1>11 DEF RequestStep, CreatePending, regVars, genVars
  <2> QED
    BY <1>1, <2>1, ZenonT(60)
<1>12. CASE UNCHANGED vars \/ Start \/ PendingRouteGeneration
            \/ \E e \in Envs : RevokeFails(e) \/ \E t \in Tokens : ConsumeReplay(e, t)
  <2>1. UNCHANGED <<now, regState, lease, prefix, gens, genState>>
    BY <1>12, ZenonT(60)
    DEF vars, Start, PendingRouteGeneration, RevokeFails, ConsumeReplay, regVars, genVars
  <2> QED
    BY <1>1, <2>1, Zenon
<1>13. CASE SessionStep
  BY <1>1, <1>8, <1>9, <1>10, <1>13, ZenonT(60) DEF SessionStep
<1> QED
  BY <1>2, <1>3, <1>4, <1>5, <1>6, <1>7, <1>11, <1>12, <1>13, ZenonT(60)
  DEF Next, ApprovalStep, Approve, ApprovedBefore, RevocationStep

\* The empty database is the empty ledger.
LEMMA InitSeen == Init => StaticInv /\ Ledger!LedgerInit
<1> SUFFICES ASSUME Init PROVE StaticInv /\ Ledger!LedgerInit
  BY Zenon
<1>1. StaticInv
  BY ConstantsAssumption, SMTT(30) DEF Init, StaticInv
<1>2. LeaseElapsed = {} /\ \A e \in Envs : regState[e] \notin Live
  BY Zenon DEF Init, LeaseElapsed, Live
<1>3. \A p \in Prefixes : LedgerRow(p) = "off"
  BY <1>2, ZenonT(30) DEF LedgerRow
<1>4. gens = <<>> /\ genState = <<>>
  BY Zenon DEF Init
<1> QED
  BY <1>1, <1>2, <1>3, <1>4, Zenon DEF Ledger!LedgerInit

\* The registry implements the route ledger, for every number of environments, keys, prefixes,
\* requests and tokens: no transaction changes the live registrations, the leases that are
\* over or the generations in another way than the reconciler counts on.
THEOREM RegistryImplementsLedger == Spec => ImplementsLedger
<1>1. TypeInv /\ PrefixInv /\ StaticInv <=> LedgerInv
  BY Zenon DEF LedgerInv
<1> QED
  BY <1>1, InitTypeInv, NextTypeInv, InitPrefixInv, NextPrefixInv, NextStaticInv, InitSeen,
     StepSeen, PTL
  DEF Spec, ImplementsLedger, Ledger!LedgerSpec
=============================================================================
