------------------------ MODULE RouteReconcileProofs ------------------------
(***************************************************************************)
(* A generation that is recorded as applied is what the interface, the     *)
(* nftables set and Tailscale have, and a ready registration is part of    *)
(* it, for every number of environments and generations and wherever the   *)
(* reconciler and the edge stop.                                           *)
(*                                                                         *)
(* The invariant follows one pass: up to the call that has failed, or to   *)
(* the one that comes next, each target has the routes of the newest       *)
(* generation or of one that had them when the pass began.  A start fills  *)
(* the route table from the active registrations before the loop runs, and *)
(* until it has its policy nothing is claimed of the policy.               *)
(***************************************************************************)
EXTENDS RouteReconcile, WellFoundedInduction, TLAPS

Newest == gens[Len(gens)]

Applied == gens # <<>> /\ genState[Len(gens)] = "applied"

\* The loop works for the newest generation.
UpToDate == generation # 0 /\ generation = Len(gens)

\* X has the routes that are active, and none that was not when the newest generation was made.
Fits(X) == Routes \subseteq X /\ X \subseteq StaticRoutes \cup Newest

\* Positions where want, and want and previous, are those of this iteration.
Applying == {"withdraw", "withdrawPolicy", "readvertise", "extend", "extendSet", "restorePolicy",
             "failed", "verify", "complete"}
Wanting == Applying \cup {"prefs"}

LedgerOK ==
  /\ LedgerTypeOK
  /\ gens = <<>> => On = {}
  /\ gens # <<>> => Active \subseteq Newest /\ genState[Len(gens)] # "superseded"

AppliedOK ==
  Applied => /\ Fits(advertised) /\ Fits(entries)
             /\ pc \notin {"boot", "apply"} => Fits(policy \cap Prefixes)
             /\ pc \in Wanting => Fits(want)
             /\ pc \in Applying => Fits(previous)

CurrentOK ==
  UpToDate => /\ pc \in Wanting => Fits(want)
              /\ pc \in {"extendSet", "verify", "complete"} => Fits(entries)

PathOK ==
  /\ pc \in {"withdraw", "extend", "extendSet"} => previous = advertised
  /\ pc \in {"extend", "extendSet"} => advertised \subseteq want
  /\ pc \in {"extendSet", "verify", "complete"} => policy = want
  /\ pc \in {"withdrawPolicy", "verify", "complete"} => advertised = want

ReconcileInv ==
  TypeOK /\ LedgerOK /\ AppliedOK /\ CurrentOK /\ PathOK

-----------------------------------------------------------------------------
\* A set of naturals that is not empty has a least member.
LEMMA Least ==
  ASSUME NEW T, T \subseteq Nat, T # {}
  PROVE  \E m \in T : \A n \in T : m <= n
<1> DEFINE R == OpToRel(<, Nat)
<1>1. IsWellFoundedOn(R, Nat)
  BY NatLessThanWellFounded, Zenon
<1>2. \A x \in Nat, y \in Nat : <<y, x>> \in R <=> y < x
  BY Zenon DEF OpToRel
<1> HIDE DEF R
<1>3. PICK x \in T : \A y \in T : ~ (<<y, x>> \in R)
  BY <1>1, WFMin, Zenon
<1>4. ASSUME NEW y \in T PROVE x <= y
  <2>1. x \in Nat /\ y \in Nat /\ ~ (y < x)
    BY <1>2, <1>3, Zenon
  <2> QED BY <2>1
<1> QED BY <1>4, Zenon

\* What OldestPending returns.
LEMMA PendingFound ==
  ASSUME LedgerTypeOK
  PROVE  /\ OldestPending \in 0..Len(gens)
         /\ OldestPending # 0 => genState[OldestPending] = "pending"
         /\ OldestPending = 0 => \A i \in 1..Len(gens) : genState[i] # "pending"
<1> DEFINE pending == {i \in 1..Len(gens) : genState[i] = "pending"}
<1>0. Len(gens) \in Nat
  BY DEF LedgerTypeOK
<1>1. CASE pending = {}
  <2>1. OldestPending = 0
    BY <1>1, Zenon DEF OldestPending
  <2>2. \A i \in 1..Len(gens) : genState[i] # "pending"
    BY <1>1, Zenon
  <2> QED BY <1>0, <2>1, <2>2
<1>2. CASE pending # {}
  <2>1. pending \subseteq Nat
    BY <1>0
  <2>2. OldestPending = CHOOSE i \in pending : \A j \in pending : i <= j
    BY <1>2, Zenon DEF OldestPending
  <2> HIDE DEF pending
  <2>3. \E i \in pending : \A j \in pending : i <= j
    BY <1>2, <2>1, Least, Zenon
  <2>4. OldestPending \in pending
    BY <2>2, <2>3, Zenon
  <2> QED BY <1>0, <2>4 DEF pending
<1> QED BY <1>1, <1>2, Zenon

\* A new generation is the newest and the only one pending.
LEMMA Appended ==
  ASSUME LedgerTypeOK, NewGeneration, rowState' \in [Prefixes -> {"off", "approved", "ready"}],
         (lapsed \subseteq Prefixes)'
  PROVE  /\ LedgerTypeOK' /\ Len(gens') = Len(gens) + 1 /\ Len(gens) \in Nat /\ gens' # <<>>
         /\ Newest' = Active' /\ genState'[Len(gens')] = "pending"
         /\ \A i \in 1..Len(gens') : genState'[i] = "pending" => i = Len(gens')
<1>1. Active' \in SUBSET Prefixes
  BY Zenon DEF Active, On
<1>2. /\ gens' \in Seq(SUBSET Prefixes) /\ Len(gens') = Len(gens) + 1 /\ Len(gens) \in Nat
      /\ gens' # <<>> /\ gens'[Len(gens) + 1] = Active'
  BY <1>1 DEF LedgerTypeOK, NewGeneration
<1>3. /\ genState' \in [1..Len(gens') -> {"pending", "superseded", "applied"}]
      /\ genState'[Len(gens')] = "pending"
      /\ \A i \in 1..Len(gens') : genState'[i] = "pending" => i = Len(gens')
  BY <1>2 DEF LedgerTypeOK, NewGeneration
<1> QED BY <1>2, <1>3, Zenon DEF LedgerTypeOK, Newest

\* A step of the registry while the loop is at pc, or starts again.
LedgerStep ==
  /\ pc' = pc \/ (pc = "wait" /\ pc' = "start")
  /\ UNCHANGED <<locals, world, budget>>
  /\ rowState' \in [Prefixes -> {"off", "approved", "ready"}] /\ (lapsed \subseteq Prefixes)'

\* NewGeneration keeps the invariant.
LEMMA NewGenerationKeeps ==
  ASSUME ReconcileInv, LedgerStep, NewGeneration
  PROVE  ReconcileInv'
<1>1. /\ LedgerTypeOK' /\ Len(gens') = Len(gens) + 1 /\ Len(gens) \in Nat /\ gens' # <<>>
      /\ Newest' = Active' /\ genState'[Len(gens')] = "pending"
      /\ \A i \in 1..Len(gens') : genState'[i] = "pending" => i = Len(gens')
  BY Appended, Zenon DEF ReconcileInv, LedgerOK, LedgerStep
<1>2. TypeOK'
  BY <1>1 DEF ReconcileInv, TypeOK, LedgerStep, locals, world, budget
<1>3. LedgerOK'
  BY <1>1, Zenon DEF LedgerOK
<1>4. AppliedOK' /\ CurrentOK'
  <2>1. ~ Applied'
    BY <1>1, Zenon DEF Applied
  <2>2. ~ UpToDate'
    BY <1>1 DEF ReconcileInv, TypeOK, UpToDate, LedgerStep, locals
  <2> QED BY <2>1, <2>2, Zenon DEF AppliedOK, CurrentOK
<1>5. PathOK'
  BY Zenon DEF ReconcileInv, PathOK, LedgerStep, locals, world
<1> QED BY <1>2, <1>3, <1>4, <1>5, Zenon DEF ReconcileInv

\* NoGeneration keeps the invariant.
LEMMA NoGenerationKeeps ==
  ASSUME ReconcileInv, LedgerStep, UNCHANGED <<gens, genState>>, (On)' \subseteq On, Active' \subseteq Active
  PROVE  ReconcileInv'
<1>1. LedgerTypeOK'
  BY Zenon DEF ReconcileInv, LedgerOK, LedgerTypeOK, LedgerStep
<1>2. TypeOK'
  BY <1>1, Zenon DEF ReconcileInv, TypeOK, LedgerStep, locals, world, budget
<1>3. Newest' = Newest
  BY Zenon DEF Newest
<1>4. LedgerOK'
  BY <1>1, <1>3, Zenon DEF ReconcileInv, LedgerOK
<1>5. ASSUME NEW X, Fits(X) PROVE Routes' \subseteq X /\ X \subseteq StaticRoutes \cup Newest'
  BY <1>3, <1>5, Zenon DEF Fits, Routes
<1>6. AppliedOK'
  BY <1>5, Zenon
     DEF ReconcileInv, AppliedOK, Applied, Fits, Wanting, Applying, LedgerStep, locals, world
<1>7. CurrentOK'
  BY <1>5, Zenon
     DEF ReconcileInv, CurrentOK, UpToDate, Fits, Wanting, Applying, LedgerStep, locals, world
<1>8. PathOK'
  BY Zenon DEF ReconcileInv, PathOK, LedgerStep, locals, world
<1> QED BY <1>2, <1>4, <1>6, <1>7, <1>8, Zenon DEF ReconcileInv

\* Every step of the store keeps the invariant.
LEMMA StoreKeeps ==
  ASSUME ReconcileInv, StoreStep
  PROVE  ReconcileInv'
<1>0. /\ rowState \in [Prefixes -> {"off", "approved", "ready"}] /\ lapsed \subseteq Prefixes
      /\ admitting \subseteq Prefixes
      /\ UNCHANGED <<pc, locals, world, budget>>
  BY Zenon DEF ReconcileInv, LedgerOK, LedgerTypeOK, TypeOK, StoreStep
<1>1. CASE \E p \in Prefixes \ StaticRoutes : Approve(p)
  <2>1. LedgerStep /\ NewGeneration
    BY <1>0, <1>1, Zenon DEF Approve, LedgerStep
  <2> QED BY <2>1, NewGenerationKeeps, Zenon
<1>2. CASE \E p \in On : Revoke(p)
  <2>1. LedgerStep /\ NewGeneration
    BY <1>0, <1>2, Zenon DEF Revoke, LedgerStep, On
  <2> QED BY <2>1, NewGenerationKeeps, Zenon
<1>3. CASE \E p \in On \ lapsed : Lapse({p})
  <2>1. LedgerStep /\ UNCHANGED <<gens, genState>> /\ On' \subseteq On /\ Active' \subseteq Active
    BY <1>0, <1>3, Zenon DEF Lapse, LedgerStep, On, Active
  <2> QED BY <2>1, NoGenerationKeeps, Zenon
<1>4. CASE \E p \in admitting : MarkReady(p)
  <2>1. PICK p \in Prefixes : MarkReady(p)
    BY <1>0, <1>4, Zenon
  <2>2. LedgerStep /\ UNCHANGED <<gens, genState>>
    BY <1>0, <2>1, Zenon DEF MarkReady, LedgerStep
  <2>3. On' = On
    BY <1>0, <2>1, Zenon DEF MarkReady, On
  <2>4. Active' = Active
    BY <2>1, <2>3, Zenon DEF MarkReady, Active
  <2> QED BY <2>2, <2>3, <2>4, NoGenerationKeeps, Zenon
<1> QED BY <1>1, <1>2, <1>3, <1>4, Zenon DEF StoreStep

\* A step of the loop that does not change the registry leaves the routes and generations.
LEMMA SameLedger ==
  ASSUME ReconcileInv, UNCHANGED ledgerVars
  PROVE  /\ Routes' = Routes /\ Newest' = Newest /\ Applied' = Applied /\ LedgerOK' /\ LedgerTypeOK'
         /\ Len(gens') = Len(gens) /\ UNCHANGED <<gens, genState>>
<1>1. LedgerOK' /\ LedgerTypeOK'
  BY Zenon DEF ReconcileInv, ledgerVars, LedgerOK, LedgerTypeOK, On, Active, Newest
<1> QED BY <1>1, Zenon DEF ledgerVars, Routes, Active, On, Newest, Applied

\* PendingRouteGeneration keeps the invariant.
LEMMA PendingRouteGenerationKeeps ==
  ASSUME ReconcileInv, PendingRouteGeneration
  PROVE  ReconcileInv'
<1>0. /\ Routes' = Routes /\ Newest' = Newest /\ Applied' = Applied /\ LedgerOK' /\ LedgerTypeOK'
      /\ Len(gens') = Len(gens) /\ UNCHANGED <<gens, genState>>
  BY SameLedger, Zenon DEF PendingRouteGeneration
<1>1. /\ pc = "start" /\ pc' = "active" /\ UNCHANGED <<want, previous, world, restarts>>
      /\ failures' \in 0..MaxFailures
  BY ReconcileAssumption DEF PendingRouteGeneration, Succeed, Fail, Goto, budget, ReconcileInv,
     TypeOK
<1>2. generation' \in 0..Len(gens)
  BY PendingFound DEF PendingRouteGeneration, ReconcileInv, LedgerOK
<1>3. TypeOK'
  BY <1>0, <1>1, <1>2, Zenon DEF ReconcileInv, TypeOK, world
<1>4. AppliedOK' /\ CurrentOK'
  BY <1>0, <1>1, Zenon DEF ReconcileInv, AppliedOK, CurrentOK, Fits, Wanting, Applying, world
<1>5. PathOK'
  BY <1>1, Zenon DEF PathOK
<1> QED BY <1>0, <1>3, <1>4, <1>5, Zenon DEF ReconcileInv

\* The active routes themselves fit.
LEMMA RoutesFit ==
  ASSUME ReconcileInv
  PROVE  /\ Routes \subseteq Prefixes
         /\ Applied => Fits(Routes)
         /\ UpToDate => Fits(Routes)
<1>1. Routes \subseteq Prefixes
  BY ReconcileAssumption, Zenon DEF Routes, Active, On
<1>2. gens # <<>> => Fits(Routes)
  BY Zenon DEF ReconcileInv, LedgerOK, Fits, Routes
<1>3. UpToDate => gens # <<>>
  BY Zenon DEF UpToDate
<1> QED BY <1>1, <1>2, <1>3, Zenon DEF Applied

\* What a failing or succeeding call does to the budget.
LEMMA CallOutcome ==
  ASSUME ReconcileInv, NEW then, NEW else, Succeed(then) \/ Fail(else)
  PROVE  /\ failures' \in 0..MaxFailures /\ restarts' = restarts
         /\ pc' \in {then, else}
  BY ReconcileAssumption DEF ReconcileInv, TypeOK, Succeed, Fail, Goto, budget

\* ReadActive keeps the invariant.
LEMMA ReadActiveKeeps ==
  ASSUME ReconcileInv, ReadActive
  PROVE  ReconcileInv'
<1>0. /\ Routes' = Routes /\ Newest' = Newest /\ Applied' = Applied /\ LedgerOK' /\ LedgerTypeOK'
      /\ Len(gens') = Len(gens) /\ UNCHANGED <<gens, genState>>
  BY SameLedger, Zenon DEF ReadActive
<1>1. /\ pc = "active" /\ pc' = "prefs" /\ want' = Routes
      /\ UNCHANGED <<generation, previous, advertised, policy, entries, admitting, failures, restarts>>
  BY Zenon DEF ReadActive, Succeed, Goto, budget, world
<1>2. /\ Routes \subseteq Prefixes
      /\ Applied => Fits(Routes)
      /\ UpToDate => Fits(Routes)
  BY RoutesFit, Zenon
<1>3. TypeOK'
  BY <1>0, <1>1, <1>2, ZenonT(60) DEF ReconcileInv, TypeOK
<1>4. AppliedOK'
  BY <1>0, <1>1, <1>2, Zenon DEF ReconcileInv, AppliedOK, Fits, Applying
<1>5. CurrentOK'
  BY <1>0, <1>1, <1>2, Zenon DEF CurrentOK, UpToDate, Fits
<1>6. PathOK'
  BY <1>0, <1>1, Zenon DEF ReconcileInv, PathOK
<1> QED BY <1>0, <1>3, <1>4, <1>5, <1>6, Zenon DEF ReconcileInv

\* ReadPrefs keeps the invariant.
LEMMA ReadPrefsKeeps ==
  ASSUME ReconcileInv, ReadPrefs
  PROVE  ReconcileInv'
<1>0. /\ Routes' = Routes /\ Newest' = Newest /\ Applied' = Applied /\ LedgerOK' /\ LedgerTypeOK'
      /\ Len(gens') = Len(gens) /\ UNCHANGED <<gens, genState>>
  BY SameLedger, Zenon DEF ReadPrefs
<1>1. /\ pc = "prefs" /\ pc' = IF advertised \subseteq want THEN "extend" ELSE "withdraw"
      /\ previous' = advertised
      /\ UNCHANGED <<generation, want, advertised, policy, entries, admitting, failures, restarts>>
  BY Zenon DEF ReadPrefs, Succeed, Goto, budget, world
<1>3. TypeOK'
  BY <1>0, <1>1, ZenonT(60) DEF ReconcileInv, TypeOK
<1>4. AppliedOK' /\ CurrentOK'
  BY <1>0, <1>1, Zenon DEF ReconcileInv, AppliedOK, CurrentOK, UpToDate, Fits, Wanting
<1>6. PathOK'
  BY <1>0, <1>1, Zenon DEF ReconcileInv, PathOK
<1> QED BY <1>0, <1>3, <1>4, <1>6, Zenon DEF ReconcileInv

\* ReadFails keeps the invariant.
LEMMA ReadFailsKeeps ==
  ASSUME ReconcileInv, ReadFails
  PROVE  ReconcileInv'
<1>0. /\ Routes' = Routes /\ Newest' = Newest /\ Applied' = Applied /\ LedgerOK' /\ LedgerTypeOK'
      /\ Len(gens') = Len(gens) /\ UNCHANGED <<gens, genState>>
  BY SameLedger, Zenon DEF ReadFails
<1>1. /\ pc \in {"active", "prefs"} /\ pc' = "wait" /\ failures' \in 0..MaxFailures
      /\ UNCHANGED <<generation, want, previous, advertised, policy, entries, admitting, restarts>>
  BY ReconcileAssumption DEF ReconcileInv, TypeOK, ReadFails, Fail, Goto, world, locals
<1>3. TypeOK'
  BY <1>0, <1>1, Zenon DEF ReconcileInv, TypeOK
<1>4. AppliedOK' /\ CurrentOK'
  BY <1>0, <1>1, Zenon DEF ReconcileInv, AppliedOK, CurrentOK, UpToDate, Fits, Wanting, Applying
<1>6. PathOK'
  BY <1>0, <1>1, Zenon DEF ReconcileInv, PathOK
<1> QED BY <1>0, <1>3, <1>4, <1>6, Zenon DEF ReconcileInv

\* What one call of SetRoutes keeps, wherever the loop makes it.
LEMMA SetRoutesKeeps ==
  ASSUME ReconcileInv, pc \in Applying,
         NEW routes \in SUBSET Prefixes, Applied => Fits(routes),
         NEW then, NEW else, SetRoutes(routes, then, else),
         then \in {"withdrawPolicy", "verify", "failed"}, else \in {"restorePolicy", "failed"},
         then = "verify" => pc = "extendSet"
  PROVE  /\ TypeOK' /\ LedgerOK' /\ AppliedOK' /\ CurrentOK' /\ UNCHANGED <<gens, genState>>
         /\ UNCHANGED <<want, previous, policy, restarts>> /\ pc' \in {then, else}
         /\ pc' = then /\ then # else => advertised' = routes
<1>0. /\ Routes' = Routes /\ Newest' = Newest /\ Applied' = Applied /\ LedgerOK' /\ LedgerTypeOK'
      /\ Len(gens') = Len(gens) /\ UNCHANGED <<gens, genState>>
  BY SameLedger, Zenon DEF SetRoutes
<1>1. /\ UNCHANGED <<generation, want, previous, policy, entries, admitting>>
      /\ advertised' \in {advertised, routes}
      /\ Succeed(then) \/ Fail(else)
      /\ (advertised' = routes /\ Succeed(then)) \/ Fail(else)
  BY Zenon DEF SetRoutes, locals
<1>2. /\ failures' \in 0..MaxFailures /\ restarts' = restarts
      /\ pc' \in {then, else}
  BY <1>1, CallOutcome, Zenon
<1>3. /\ pc' = then /\ then # else => advertised' = routes
  BY <1>1, ReconcileAssumption DEF Fail, Goto, ReconcileInv, TypeOK
<1>4. TypeOK'
  BY <1>0, <1>1, <1>2, Zenon DEF ReconcileInv, TypeOK
<1>5. AppliedOK'
  BY <1>0, <1>1, <1>2, Zenon DEF ReconcileInv, AppliedOK, Fits, Wanting, Applying
<1>6. CurrentOK'
  BY <1>0, <1>1, <1>2, Zenon DEF ReconcileInv, CurrentOK, UpToDate, Fits, Wanting, Applying
<1> QED BY <1>0, <1>1, <1>2, <1>3, <1>4, <1>5, <1>6, Zenon

\* What one call of Replace keeps, wherever the loop makes it.
LEMMA ReplaceKeeps ==
  ASSUME ReconcileInv, pc \in Applying,
         NEW routes \in SUBSET Prefixes, Applied => Fits(routes),
         NEW then, NEW else, Replace(routes, then, else),
         then \in {"verify", "extendSet", "failed"}, else \in {"readvertise", "failed"}
  PROVE  /\ TypeOK' /\ LedgerOK' /\ AppliedOK' /\ CurrentOK' /\ UNCHANGED <<gens, genState>>
         /\ UNCHANGED <<want, previous, advertised, restarts>> /\ pc' \in {then, else}
         /\ pc' = then /\ then # else => policy' = routes
<1>0. /\ Routes' = Routes /\ Newest' = Newest /\ Applied' = Applied /\ LedgerOK' /\ LedgerTypeOK'
      /\ Len(gens') = Len(gens) /\ UNCHANGED <<gens, genState>>
  BY SameLedger, Zenon DEF Replace
<1>1. /\ UNCHANGED <<generation, want, previous, advertised>>
      /\ policy' \in {policy, routes} /\ entries' \in {entries, Routes}
      /\ admitting' = admitting \cup entries'
      /\ Succeed(then) \/ Fail(else)
      /\ (policy' = routes /\ entries' = Routes /\ Succeed(then)) \/ Fail(else)
  BY Zenon DEF Replace, locals
<1>2. /\ failures' \in 0..MaxFailures /\ restarts' = restarts
      /\ pc' \in {then, else}
  BY <1>1, CallOutcome, Zenon
<1>3. /\ pc' = then /\ then # else => policy' = routes /\ entries' = Routes
  BY <1>1, ReconcileAssumption DEF Fail, Goto, ReconcileInv, TypeOK
<1>4. /\ Routes \subseteq Prefixes
      /\ Applied => Fits(Routes)
      /\ UpToDate => Fits(Routes)
  BY RoutesFit, Zenon
<1>5. TypeOK'
  BY <1>0, <1>1, <1>2, <1>4, Zenon DEF ReconcileInv, TypeOK
<1>6. AppliedOK'
  <2>1. Applied => Fits(policy' \cap Prefixes) /\ Fits(entries')
    BY <1>1, <1>4, Zenon DEF ReconcileInv, AppliedOK, Applying, Fits
  <2> QED BY <1>0, <1>1, <1>2, <2>1, Zenon DEF ReconcileInv, AppliedOK, Fits, Wanting, Applying
<1>7. CurrentOK'
  BY <1>0, <1>1, <1>2, <1>3, <1>4, Zenon
     DEF ReconcileInv, CurrentOK, UpToDate, Fits, Wanting, Applying
<1> QED BY <1>0, <1>1, <1>2, <1>3, <1>5, <1>6, <1>7, Zenon

\* Withdraw keeps the invariant.
LEMMA WithdrawKeeps ==
  ASSUME ReconcileInv, Withdraw
  PROVE  ReconcileInv'
<1>0. pc = "withdraw" /\ pc \in Applying /\ SetRoutes(want, "withdrawPolicy", "failed")
  BY Zenon DEF Withdraw, Applying
<1>1. want \in SUBSET Prefixes /\ (Applied => Fits(want))
  BY <1>0, Zenon DEF ReconcileInv, TypeOK, AppliedOK, Wanting
<1>2. /\ TypeOK' /\ LedgerOK' /\ AppliedOK' /\ CurrentOK' /\ UNCHANGED <<gens, genState>>
      /\ UNCHANGED <<want, previous, policy, restarts>> /\ pc' \in {"withdrawPolicy", "failed"}
      /\ pc' = "withdrawPolicy" /\ "withdrawPolicy" # "failed" => advertised' = want
  BY <1>0, <1>1, SetRoutesKeeps, Zenon
<1>3. PathOK'
  BY <1>0, <1>2, Zenon DEF ReconcileInv, PathOK
<1> QED BY <1>2, <1>3, Zenon DEF ReconcileInv

\* WithdrawPolicy keeps the invariant.
LEMMA WithdrawPolicyKeeps ==
  ASSUME ReconcileInv, WithdrawPolicy
  PROVE  ReconcileInv'
<1>0. pc = "withdrawPolicy" /\ pc \in Applying /\ Replace(want, "verify", "readvertise")
  BY Zenon DEF WithdrawPolicy, Applying
<1>1. want \in SUBSET Prefixes /\ (Applied => Fits(want))
  BY <1>0, Zenon DEF ReconcileInv, TypeOK, AppliedOK, Wanting
<1>2. /\ TypeOK' /\ LedgerOK' /\ AppliedOK' /\ CurrentOK' /\ UNCHANGED <<gens, genState>>
      /\ UNCHANGED <<want, previous, advertised, restarts>> /\ pc' \in {"verify", "readvertise"}
      /\ pc' = "verify" /\ "verify" # "readvertise" => policy' = want
  BY <1>0, <1>1, ReplaceKeeps, Zenon
<1>3. PathOK'
  BY <1>0, <1>2, Zenon DEF ReconcileInv, PathOK
<1> QED BY <1>2, <1>3, Zenon DEF ReconcileInv

\* Readvertise keeps the invariant.
LEMMA ReadvertiseKeeps ==
  ASSUME ReconcileInv, Readvertise
  PROVE  ReconcileInv'
<1>0. pc = "readvertise" /\ pc \in Applying /\ SetRoutes(previous, "failed", "failed")
  BY Zenon DEF Readvertise, Applying
<1>1. previous \in SUBSET Prefixes /\ (Applied => Fits(previous))
  BY <1>0, Zenon DEF ReconcileInv, TypeOK, AppliedOK, Wanting
<1>2. /\ TypeOK' /\ LedgerOK' /\ AppliedOK' /\ CurrentOK' /\ UNCHANGED <<gens, genState>>
      /\ UNCHANGED <<want, previous, policy, restarts>> /\ pc' \in {"failed", "failed"}
      /\ pc' = "failed" /\ "failed" # "failed" => advertised' = previous
  BY <1>0, <1>1, SetRoutesKeeps, Zenon
<1>3. PathOK'
  BY <1>0, <1>2, Zenon DEF ReconcileInv, PathOK
<1> QED BY <1>2, <1>3, Zenon DEF ReconcileInv

\* Extend keeps the invariant.
LEMMA ExtendKeeps ==
  ASSUME ReconcileInv, Extend
  PROVE  ReconcileInv'
<1>0. pc = "extend" /\ pc \in Applying /\ Replace(want, "extendSet", "failed")
  BY Zenon DEF Extend, Applying
<1>1. want \in SUBSET Prefixes /\ (Applied => Fits(want))
  BY <1>0, Zenon DEF ReconcileInv, TypeOK, AppliedOK, Wanting
<1>2. /\ TypeOK' /\ LedgerOK' /\ AppliedOK' /\ CurrentOK' /\ UNCHANGED <<gens, genState>>
      /\ UNCHANGED <<want, previous, advertised, restarts>> /\ pc' \in {"extendSet", "failed"}
      /\ pc' = "extendSet" /\ "extendSet" # "failed" => policy' = want
  BY <1>0, <1>1, ReplaceKeeps, Zenon
<1>3. PathOK'
  BY <1>0, <1>2, Zenon DEF ReconcileInv, PathOK
<1> QED BY <1>2, <1>3, Zenon DEF ReconcileInv

\* ExtendSet keeps the invariant.
LEMMA ExtendSetKeeps ==
  ASSUME ReconcileInv, ExtendSet
  PROVE  ReconcileInv'
<1>0. pc = "extendSet" /\ pc \in Applying /\ SetRoutes(want, "verify", "restorePolicy")
  BY Zenon DEF ExtendSet, Applying
<1>1. want \in SUBSET Prefixes /\ (Applied => Fits(want))
  BY <1>0, Zenon DEF ReconcileInv, TypeOK, AppliedOK, Wanting
<1>2. /\ TypeOK' /\ LedgerOK' /\ AppliedOK' /\ CurrentOK' /\ UNCHANGED <<gens, genState>>
      /\ UNCHANGED <<want, previous, policy, restarts>> /\ pc' \in {"verify", "restorePolicy"}
      /\ pc' = "verify" /\ "verify" # "restorePolicy" => advertised' = want
  BY <1>0, <1>1, SetRoutesKeeps, Zenon
<1>3. PathOK'
  BY <1>0, <1>2, Zenon DEF ReconcileInv, PathOK
<1> QED BY <1>2, <1>3, Zenon DEF ReconcileInv

\* RestorePolicy keeps the invariant.
LEMMA RestorePolicyKeeps ==
  ASSUME ReconcileInv, RestorePolicy
  PROVE  ReconcileInv'
<1>0. pc = "restorePolicy" /\ pc \in Applying /\ Replace(previous, "failed", "failed")
  BY Zenon DEF RestorePolicy, Applying
<1>1. previous \in SUBSET Prefixes /\ (Applied => Fits(previous))
  BY <1>0, Zenon DEF ReconcileInv, TypeOK, AppliedOK, Wanting
<1>2. /\ TypeOK' /\ LedgerOK' /\ AppliedOK' /\ CurrentOK' /\ UNCHANGED <<gens, genState>>
      /\ UNCHANGED <<want, previous, advertised, restarts>> /\ pc' \in {"failed", "failed"}
      /\ pc' = "failed" /\ "failed" # "failed" => policy' = previous
  BY <1>0, <1>1, ReplaceKeeps, Zenon
<1>3. PathOK'
  BY <1>0, <1>2, Zenon DEF ReconcileInv, PathOK
<1> QED BY <1>2, <1>3, Zenon DEF ReconcileInv

\* Verify keeps the invariant.
LEMMA VerifyKeeps ==
  ASSUME ReconcileInv, Verify
  PROVE  ReconcileInv'
<1>0. /\ Routes' = Routes /\ Newest' = Newest /\ Applied' = Applied /\ LedgerOK' /\ LedgerTypeOK'
      /\ Len(gens') = Len(gens) /\ UNCHANGED <<gens, genState>>
  BY SameLedger, Zenon DEF Verify
<1>1. /\ pc = "verify" /\ advertised = want
      /\ Succeed("complete") \/ Fail("failed")
      /\ UNCHANGED <<generation, want, previous, advertised, policy, entries, admitting>>
  BY Zenon DEF ReconcileInv, PathOK, Verify, world, locals
<1>2. /\ failures' \in 0..MaxFailures /\ restarts' = restarts
      /\ pc' \in {"complete", "failed"}
  BY <1>1, CallOutcome, Zenon
<1>3. TypeOK'
  BY <1>0, <1>1, <1>2, Zenon DEF ReconcileInv, TypeOK
<1>4. AppliedOK' /\ CurrentOK'
  BY <1>0, <1>1, <1>2, Zenon
     DEF ReconcileInv, AppliedOK, CurrentOK, UpToDate, Fits, Wanting, Applying
<1>5. PathOK'
  BY <1>1, <1>2, Zenon DEF ReconcileInv, PathOK
<1> QED BY <1>0, <1>3, <1>4, <1>5, Zenon DEF ReconcileInv

\* The generation is completed: applied only where the loop has brought everything about.
LEMMA CompletedKeeps ==
  ASSUME ReconcileInv, UNCHANGED <<locals, world, failures, restarts>>, pc' = "wait",
         NEW ok \in BOOLEAN, ok => pc = "complete", ~ ok => pc = "failed",
         Complete(generation, ok)
  PROVE  ReconcileInv'
<1>0. /\ UNCHANGED <<generation, want, previous, advertised, policy, entries, admitting, failures, restarts>>
      /\ Routes' = Routes /\ Newest' = Newest /\ UNCHANGED <<rowState, lapsed, gens>>
      /\ Len(gens) \in Nat /\ gens' = gens
  BY DEF ReconcileInv, LedgerOK, LedgerTypeOK, locals, world, Complete, Routes, Active, On, Newest
<1>1. /\ genState' \in [1..Len(gens) -> {"pending", "superseded", "applied"}]
      /\ generation \in 1..Len(gens)
      /\ genState'[generation] = IF ok THEN "applied" ELSE "pending"
      /\ \A i \in 1..Len(gens) : i # generation => genState'[i] = genState[i]
  BY Zenon DEF ReconcileInv, LedgerOK, LedgerTypeOK, Complete
<1>2. LedgerTypeOK' /\ TypeOK'
  BY <1>0, <1>1, Zenon DEF ReconcileInv, TypeOK, LedgerOK, LedgerTypeOK
<1>3. LedgerOK'
  <2>1. Active' = Active /\ On' = On
    BY <1>0, Zenon DEF Active, On
  <2>2. gens # <<>> => Len(gens) \in 1..Len(gens)
    BY <1>0 DEF ReconcileInv, LedgerOK, LedgerTypeOK
  <2>3. gens # <<>> => genState'[Len(gens)] # "superseded"
    BY <1>1, <2>2, Zenon DEF ReconcileInv, LedgerOK
  <2> QED BY <1>0, <1>2, <2>1, <2>3, Zenon DEF ReconcileInv, LedgerOK
<1>4. AppliedOK'
  <2>1. CASE ok /\ generation = Len(gens)
    <3>1. UpToDate /\ pc = "complete"
      BY <1>0, <1>1, <2>1 DEF UpToDate
    <3>2. Fits(want) /\ Fits(entries) /\ policy = want /\ advertised = want
      BY <3>1, Zenon DEF ReconcileInv, CurrentOK, PathOK, Wanting, Applying
    <3>3. policy \cap Prefixes = want
      BY <3>2, Zenon DEF ReconcileInv, TypeOK
    <3> QED BY <1>0, <3>2, <3>3, Zenon DEF AppliedOK, Fits, Wanting, Applying
  <2>2. CASE ~ (ok /\ generation = Len(gens))
    <3>1. Applied' => Applied
      BY <1>0, <1>1, <2>2 DEF Applied, ReconcileInv, LedgerOK, LedgerTypeOK
    <3> QED BY <1>0, <3>1, Zenon DEF ReconcileInv, AppliedOK, Fits, Wanting, Applying
  <2> QED BY <2>1, <2>2, Zenon
<1>5. CurrentOK' /\ PathOK'
  BY Zenon DEF CurrentOK, PathOK, Wanting, Applying
<1> QED BY <1>2, <1>3, <1>4, <1>5, Zenon DEF ReconcileInv

\* Unreported keeps the invariant.
LEMMA UnreportedKeeps ==
  ASSUME ReconcileInv, UNCHANGED <<ledgerVars, locals, world, restarts>>, pc' = "wait",
         pc \in {"complete", "failed"}, failures' \in 0..MaxFailures
  PROVE  ReconcileInv'
<1>0. /\ Routes' = Routes /\ Newest' = Newest /\ Applied' = Applied /\ LedgerOK' /\ LedgerTypeOK'
      /\ Len(gens') = Len(gens) /\ UNCHANGED <<gens, genState>>
  BY SameLedger, Zenon
<1>1. UNCHANGED <<generation, want, previous, advertised, policy, entries, admitting>>
  BY Zenon DEF locals, world
<1>2. TypeOK'
  BY <1>0, <1>1, Zenon DEF ReconcileInv, TypeOK
<1>3. AppliedOK' /\ CurrentOK' /\ PathOK'
  BY <1>0, <1>1, Zenon DEF ReconcileInv, AppliedOK, CurrentOK, PathOK, Fits, Wanting, Applying
<1> QED BY <1>0, <1>2, <1>3, Zenon DEF ReconcileInv

\* CompleteRouteGeneration keeps the invariant.
LEMMA CompleteRouteGenerationKeeps ==
  ASSUME ReconcileInv, CompleteRouteGeneration
  PROVE  ReconcileInv'
<1>1. PICK ok \in BOOLEAN : Report(ok) /\ (ok => pc = "complete") /\ (~ ok => pc = "failed")
  BY Zenon DEF CompleteRouteGeneration
<1>2. CASE Complete(generation, ok) /\ Succeed("wait")
  <2>1. UNCHANGED <<locals, world, failures, restarts>> /\ pc' = "wait"
    BY <1>1, <1>2, Zenon DEF Report, Succeed, Goto, budget
  <2> QED BY <1>1, <1>2, <2>1, CompletedKeeps, Zenon
<1>3. CASE UNCHANGED ledgerVars /\ (Succeed("wait") \/ Fail("wait"))
  <2>1. UNCHANGED <<locals, world>> /\ pc \in {"complete", "failed"}
    BY <1>1, Zenon DEF Report
  <2>2. /\ failures' \in 0..MaxFailures /\ restarts' = restarts
        /\ pc' = "wait"
    BY <1>3, CallOutcome, Zenon
  <2> QED BY <1>3, <2>1, <2>2, UnreportedKeeps, Zenon
<1> QED BY <1>1, <1>2, <1>3, Zenon DEF Report

\* Tick keeps the invariant.
LEMMA TickKeeps ==
  ASSUME ReconcileInv, Tick
  PROVE  ReconcileInv'
<1>0. /\ rowState \in [Prefixes -> {"off", "approved", "ready"}]
      /\ UNCHANGED <<locals, world>> /\ pc = "wait" /\ pc' = "start"
  BY Zenon DEF ReconcileInv, LedgerOK, LedgerTypeOK, Tick, Succeed, Fail, Goto
<1>1. CASE Expire /\ Succeed("start")
  <2>1. LedgerStep
    BY <1>0, <1>1, Zenon DEF LedgerStep, Expire, Succeed, Goto
  <2>2. Active' = Active /\ On' \subseteq On
    BY <1>0, <1>1, Zenon DEF Expire, Active, On
  <2>3. CASE lapsed # {}
    BY <1>1, <2>1, <2>3, NewGenerationKeeps, Zenon DEF Expire
  <2>4. CASE lapsed = {}
    BY <1>1, <2>1, <2>2, <2>4, NoGenerationKeeps, Zenon DEF Expire
  <2> QED BY <2>3, <2>4, Zenon
<1>2. CASE UNCHANGED ledgerVars /\ Fail("start")
  <2>0. /\ Routes' = Routes /\ Newest' = Newest /\ Applied' = Applied /\ LedgerOK' /\ LedgerTypeOK'
        /\ Len(gens') = Len(gens) /\ UNCHANGED <<gens, genState>>
    BY <1>2, SameLedger, Zenon
  <2>1. /\ UNCHANGED <<generation, want, previous, advertised, policy, entries, admitting>>
        /\ failures' \in 0..MaxFailures /\ restarts' = restarts
    BY <1>0, <1>2, ReconcileAssumption DEF locals, world, Fail, ReconcileInv, TypeOK
  <2>2. TypeOK'
    BY <1>0, <2>0, <2>1, Zenon DEF ReconcileInv, TypeOK
  <2>3. AppliedOK' /\ CurrentOK' /\ PathOK'
    BY <1>0, <2>0, <2>1, Zenon
       DEF ReconcileInv, AppliedOK, CurrentOK, PathOK, Fits, Wanting, Applying
  <2> QED BY <2>0, <2>2, <2>3, Zenon DEF ReconcileInv
<1> QED BY <1>1, <1>2, Zenon DEF Tick

\* Restart keeps the invariant.
LEMMA RestartKeeps ==
  ASSUME ReconcileInv, Restart
  PROVE  ReconcileInv'
<1>0. /\ Routes' = Routes /\ Newest' = Newest /\ Applied' = Applied /\ LedgerOK' /\ LedgerTypeOK'
      /\ Len(gens') = Len(gens) /\ UNCHANGED <<gens, genState>>
  BY SameLedger, Zenon DEF Restart
<1>1. /\ Routes \subseteq Prefixes
      /\ Applied => Fits(Routes)
  BY RoutesFit, Zenon
<1>2. /\ pc' = "boot" /\ generation' = 0 /\ want' = {} /\ previous' = {}
      /\ entries' = Routes /\ admitting' = {} /\ policy' \in {policy, {}}
      /\ UNCHANGED <<advertised, failures>>
  BY Zenon DEF Restart, Goto
<1>3. TypeOK'
  <2>1. generation' \in 0..Len(gens') /\ restarts' \in 0..MaxRestarts
    BY <1>0, <1>2, ReconcileAssumption DEF ReconcileInv, TypeOK, Restart
  <2>2. policy' \subseteq Prefixes \cup AllowedRoutes
    BY <1>2, Zenon DEF ReconcileInv, TypeOK
  <2> QED BY <1>0, <1>1, <1>2, <2>1, <2>2, Zenon DEF ReconcileInv, TypeOK
<1>4. AppliedOK'
  BY <1>0, <1>1, <1>2, Zenon DEF ReconcileInv, AppliedOK, Fits, Wanting, Applying
<1>5. CurrentOK' /\ PathOK'
  BY <1>2, Zenon DEF CurrentOK, PathOK, Wanting, Applying
<1> QED BY <1>0, <1>3, <1>4, <1>5, Zenon DEF ReconcileInv

\* Every step of a start keeps the invariant.
LEMMA StartsKeeps ==
  ASSUME ReconcileInv, Starts
  PROVE  ReconcileInv'
<1>0. /\ Routes' = Routes /\ Newest' = Newest /\ Applied' = Applied /\ LedgerOK' /\ LedgerTypeOK'
      /\ Len(gens') = Len(gens) /\ UNCHANGED <<gens, genState>>
  BY SameLedger, Zenon DEF Starts, CleanPolicy, ApplyPolicy
<1>1. /\ UNCHANGED <<generation, want, previous, advertised, entries, failures, restarts>>
      /\ pc' \in {"apply", "start"} /\ admitting' \in {admitting, entries}
      /\ policy' \in {{}, AllowedRoutes, entries}
      /\ pc' = "start" => policy' = InitialPolicy(entries)
  BY Zenon DEF Starts, CleanPolicy, ApplyPolicy, InitialPolicy, Succeed, Goto, budget, locals
<1>2. TypeOK'
  <2>1. policy' \subseteq Prefixes \cup AllowedRoutes
    BY <1>1, Zenon DEF ReconcileInv, TypeOK
  <2>2. admitting' \subseteq Prefixes
    BY <1>1, Zenon DEF ReconcileInv, TypeOK
  <2> QED BY <1>0, <1>1, <2>1, <2>2, Zenon DEF ReconcileInv, TypeOK
<1>3. AppliedOK'
  <2>1. InitialPolicy(entries) \cap Prefixes = entries
    BY ReconcileAssumption, Zenon DEF ReconcileInv, TypeOK, InitialPolicy
  <2>2. pc' = "start" => policy' \cap Prefixes = entries
    BY <1>1, <2>1, Zenon
  <2> QED BY <1>0, <1>1, <2>2, Zenon DEF ReconcileInv, AppliedOK, Fits, Wanting, Applying
<1>4. CurrentOK' /\ PathOK'
  BY <1>1, Zenon DEF CurrentOK, PathOK, Wanting, Applying
<1> QED BY <1>0, <1>2, <1>3, <1>4, Zenon DEF ReconcileInv

\* The invariant holds when the edge is about to start.
LEMMA ReconcileInit == Init => ReconcileInv
<1> SUFFICES ASSUME Init PROVE ReconcileInv
  BY Zenon
<1>1. gens = <<>> /\ genState = <<>> /\ Len(gens) = 0 /\ On = {}
  BY Zenon DEF Init, LedgerInit, On
<1>2. LedgerTypeOK
  <2>1. genState \in [1..Len(gens) -> {"pending", "superseded", "applied"}]
    BY <1>1
  <2> QED BY <1>1, <2>1 DEF LedgerTypeOK, Init, LedgerInit
<1>3. policy \subseteq Prefixes \cup AllowedRoutes
  BY Zenon DEF Init
<1>4. TypeOK
  BY <1>1, <1>2, <1>3, ReconcileAssumption DEF TypeOK, Init
<1>5. LedgerOK /\ AppliedOK /\ CurrentOK
  BY <1>1, <1>2, Zenon DEF LedgerOK, AppliedOK, Applied, CurrentOK, UpToDate, Init
<1>6. PathOK
  BY <1>1 DEF PathOK, Init
<1> QED BY <1>4, <1>5, <1>6, Zenon DEF ReconcileInv

\* A step of nothing keeps the invariant.
LEMMA ReconcileStutter ==
  ASSUME ReconcileInv, UNCHANGED vars
  PROVE  ReconcileInv'
<1>0. /\ Routes' = Routes /\ Newest' = Newest /\ Applied' = Applied /\ LedgerOK' /\ LedgerTypeOK'
      /\ Len(gens') = Len(gens) /\ UNCHANGED <<gens, genState>>
  BY SameLedger, Zenon DEF vars
<1>1. UNCHANGED <<pc, generation, want, previous, advertised, policy, entries, admitting, failures, restarts>>
  BY Zenon DEF vars, locals, world, budget
<1>2. TypeOK'
  BY <1>0, <1>1, Zenon DEF ReconcileInv, TypeOK
<1>3. AppliedOK' /\ CurrentOK' /\ PathOK'
  BY <1>0, <1>1, Zenon
     DEF ReconcileInv, AppliedOK, CurrentOK, UpToDate, PathOK, Fits, Wanting, Applying
<1> QED BY <1>0, <1>2, <1>3, Zenon DEF ReconcileInv

\* In every reachable state the advertised prefixes, the policy and the table match the point the
\* reconciler has reached.
THEOREM ReconcileInvariant == Spec => []ReconcileInv
<1>1. Init => ReconcileInv
  BY ReconcileInit, Zenon
<1>2. ReconcileInv /\ [Next]_vars => ReconcileInv'
  <2> SUFFICES ASSUME ReconcileInv, [Next]_vars PROVE ReconcileInv'
    BY Zenon
  <2>1. CASE StoreStep BY <2>1, StoreKeeps, Zenon
  <2>2. CASE PendingRouteGeneration BY <2>2, PendingRouteGenerationKeeps, ZenonT(60)
  <2>3. CASE ReadActive BY <2>3, ReadActiveKeeps, Zenon
  <2>4. CASE ReadPrefs BY <2>4, ReadPrefsKeeps, Zenon
  <2>5. CASE ReadFails BY <2>5, ReadFailsKeeps, Zenon
  <2>6. CASE Withdraw BY <2>6, WithdrawKeeps, Zenon
  <2>7. CASE WithdrawPolicy BY <2>7, WithdrawPolicyKeeps, Zenon
  <2>8. CASE Readvertise BY <2>8, ReadvertiseKeeps, Zenon
  <2>9. CASE Extend BY <2>9, ExtendKeeps, Zenon
  <2>10. CASE ExtendSet BY <2>10, ExtendSetKeeps, Zenon
  <2>11. CASE RestorePolicy BY <2>11, RestorePolicyKeeps, Zenon
  <2>12. CASE Verify BY <2>12, VerifyKeeps, Zenon
  <2>13. CASE CompleteRouteGeneration BY <2>13, CompleteRouteGenerationKeeps, Zenon
  <2>14. CASE Tick BY <2>14, TickKeeps, Zenon
  <2>15. CASE Restart BY <2>15, RestartKeeps, Zenon
  <2>16. CASE Starts BY <2>16, StartsKeeps, Zenon
  <2>17. CASE UNCHANGED vars BY <2>17, ReconcileStutter, Zenon
  <2> QED
    BY <2>1, <2>2, <2>3, <2>4, <2>5, <2>6, <2>7, <2>8, <2>9, <2>10, <2>11, <2>12, <2>13, <2>14, <2>15, <2>16, <2>17,
       Zenon DEF Next, Reconcile
<1> QED BY <1>1, <1>2, PTL DEF Spec

\* An applied generation is the truth, for any prefixes, failures and restarts: while the loop is
\* idle and the newest generation is applied and lists the active registrations, Tailscale, nftables
\* and the route table have exactly its prefixes (the loop of edge.go completes a generation after
\* it has verified it).
THEOREM AppliedGenerationIsInForce == Spec => []AppliedIsInForce
<1>1. ReconcileInv => AppliedIsInForce
  BY Zenon DEF ReconcileInv, AppliedOK, Applied, Fits, Routes, Newest, AppliedIsInForce
<1> QED BY <1>1, ReconcileInvariant, PTL

\* What the approval API reports as ready is advertised, redirected and routed while its lease runs,
\* whichever calls failed and whenever the edge restarted (readinessState of registry.go against
\* the loop of edge.go); excepted are a starting edge and a superseded generation pending again.
THEOREM ReadyRegistrationIsInForce == Spec => []ReadyIsInForce
<1>1. ReconcileInv => ReadyIsInForce
  <2> SUFFICES ASSUME ReconcileInv, pc \notin {"boot", "apply"}, ~ Revived,
                      NEW p \in Prefixes \ lapsed, ReportedReady(p)
               PROVE  p \in advertised /\ p \in policy /\ p \in entries
    BY Zenon DEF ReadyIsInForce
  <2>1. p \in Active
    BY Zenon DEF ReportedReady, Active, On
  <2>2. gens # <<>> /\ p \in Newest /\ genState[Len(gens)] # "superseded"
    BY <2>1, Zenon DEF ReconcileInv, LedgerOK, Active
  <2>3. /\ LedgerTypeOK /\ Len(gens) \in 1..Len(gens)
        /\ genState[Len(gens)] \in {"pending", "superseded", "applied"}
    BY <2>2 DEF ReconcileInv, LedgerOK, LedgerTypeOK
  <2>4. genState[Len(gens)] # "pending"
    <3> SUFFICES ASSUME genState[Len(gens)] = "pending" PROVE FALSE
      BY Zenon
    <3>1. OldestPending # 0
      BY <2>3, PendingFound, Zenon
    <3>2. OldestPending = Len(gens)
      BY <3>1, Zenon DEF Revived
    <3> QED BY <2>2, <3>1, <3>2, Zenon DEF ReportedReady, Newest
  <2>5. Applied
    BY <2>2, <2>3, <2>4, Zenon DEF Applied
  <2> QED BY <2>1, <2>5, Zenon DEF ReconcileInv, AppliedOK, Fits, Routes
<1> QED BY <1>1, ReconcileInvariant, PTL
=============================================================================
