--------------------------- MODULE RouteReconcile ---------------------------
(***************************************************************************)
(* The route reconciler of the edge (internal/reconcile/reconcile.go),     *)
(* composed with the ledger of the registry, the routes that Tailscale     *)
(* advertises, the nftables policy and the edge's own route table.         *)
(*                                                                         *)
(* One goroutine runs the loop; between any two of its calls the approval  *)
(* API and the connectors change the registry, a call may fail, and the    *)
(* edge may restart.                                                       *)
(***************************************************************************)
EXTENDS RouteLedger, FiniteSets

CONSTANTS
  StaticRoutes,   \* prefixes of the static connectors
  AllowedRoutes,  \* the allowed real prefixes
  MaxFailures,    \* bound on failing calls
  MaxRestarts     \* bound on restarts of the edge

ASSUME ReconcileAssumption ==
  /\ StaticRoutes \subseteq Prefixes /\ AllowedRoutes \cap Prefixes = {}
  /\ MaxFailures \in Nat /\ MaxRestarts \in Nat /\ MaxGens \in Nat

VARIABLES
  pc,          \* position of the start of the edge and then of the reconciler
  generation,  \* id of the generation it read, 0 if none was pending
  want,        \* the routes it is to apply
  previous,    \* the routes Tailscale advertised before
  advertised,  \* Tailscale's AdvertiseRoutes preference
  policy,      \* the prefixes nftables redirects to the proxy
  entries,     \* prefixes of Server.routes
  admitting,   \* prefixes that had a route table entry since the edge accepts sessions
  failures, restarts

locals == <<generation, want, previous>>
world == <<advertised, policy, entries, admitting>>
budget == <<failures, restarts>>
vars == <<ledgerVars, pc, locals, world, budget>>

TypeOK ==
  /\ LedgerTypeOK
  /\ pc \in {"boot", "apply", "start", "active", "prefs", "withdraw", "withdrawPolicy", "readvertise",
             "extend", "extendSet", "restorePolicy", "failed", "verify", "complete", "wait"}
  /\ generation \in 0..Len(gens)
  /\ \A set \in {want, previous, advertised, entries, admitting} : set \subseteq Prefixes
  /\ policy \subseteq Prefixes \cup AllowedRoutes
  /\ failures \in 0..MaxFailures
  /\ restarts \in 0..MaxRestarts

\* The first start, with an empty registry.
Init ==
  /\ LedgerInit
  /\ pc = "boot"
  /\ generation = 0
  /\ want = {}
  /\ previous = {}
  /\ advertised = {}
  /\ policy = {}
  /\ entries = StaticRoutes
  /\ admitting = {}
  /\ failures = 0
  /\ restarts = 0

Routes == StaticRoutes \cup Active
-----------------------------------------------------------------------------
(* The rest of the edge works on the registry.  A session that was         *)
(* admitted while its prefix had an entry may mark it ready later.  One    *)
(* generation is kept for Expire.                                          *)

StoreStep ==
  /\ Len(gens) + 1 < MaxGens
  /\ \/ \E p \in Prefixes \ StaticRoutes : Approve(p)
     \/ \E p \in On : Revoke(p)
     \/ \E p \in On \ lapsed : Lapse({p})
     \/ \E p \in admitting : MarkReady(p)
  /\ UNCHANGED <<pc, locals, world, budget>>
-----------------------------------------------------------------------------
(* Calls of the loop.                                                      *)

Goto(l) == pc' = l

Fail(l) ==
  /\ failures < MaxFailures
  /\ failures' = failures + 1
  /\ UNCHANGED restarts
  /\ Goto(l)

Succeed(l) == Goto(l) /\ UNCHANGED budget

\* tailscale set --advertise-routes; when the command fails, or is killed, the preference
\* may have been changed or not.
SetRoutes(routes, then, else) ==
  /\ UNCHANGED <<ledgerVars, locals, policy, entries, admitting>>
  /\ \/ advertised' = routes /\ Succeed(then)
     \/ advertised' \in {advertised, routes} /\ Fail(else)

\* reconciledPolicy.Replace: the nftables transaction, then refreshDynamic.
Replace(routes, then, else) ==
  /\ UNCHANGED <<ledgerVars, locals, advertised>>
  /\ \/ policy' = routes /\ entries' = Routes /\ Succeed(then)
     \/ UNCHANGED <<policy, entries>> /\ Fail(else)
     \/ policy' = routes /\ UNCHANGED entries /\ Fail(else)
  /\ admitting' = admitting \cup entries'

\* When the read fails the loop goes on, and reports to no generation.
PendingRouteGeneration ==
  /\ pc = "start"
  /\ \/ generation' = OldestPending /\ Succeed("active")
     \/ generation' = 0 /\ Fail("active")
  /\ UNCHANGED <<ledgerVars, want, previous, world>>

ReadActive ==
  /\ pc = "active"
  /\ want' = Routes
  /\ Succeed("prefs")
  /\ UNCHANGED <<ledgerVars, generation, previous, world>>

\* A route that has to go decides the order of the two calls that follow.
ReadPrefs ==
  /\ pc = "prefs"
  /\ previous' = advertised
  /\ Succeed(IF advertised \subseteq want THEN "extend" ELSE "withdraw")
  /\ UNCHANGED <<ledgerVars, generation, want, world>>

\* Active or prefs cannot be read: the generation is left as it is.
ReadFails ==
  /\ pc \in {"active", "prefs"}
  /\ Fail("wait")
  /\ UNCHANGED <<ledgerVars, locals, world>>

Withdraw == pc = "withdraw" /\ SetRoutes(want, "withdrawPolicy", "failed")

WithdrawPolicy == pc = "withdrawPolicy" /\ Replace(want, "verify", "readvertise")

Readvertise == pc = "readvertise" /\ SetRoutes(previous, "failed", "failed")

Extend == pc = "extend" /\ Replace(want, "extendSet", "failed")

ExtendSet == pc = "extendSet" /\ SetRoutes(want, "verify", "restorePolicy")

RestorePolicy == pc = "restorePolicy" /\ Replace(previous, "failed", "failed")

\* Tailscale must report the routes that were set.
Verify ==
  /\ pc = "verify"
  /\ UNCHANGED <<ledgerVars, locals, world>>
  /\ \/ Succeed(IF advertised = want THEN "complete" ELSE "failed")
     \/ Fail("failed")

\* CompleteRouteGeneration for the generation read, if any; it may fail itself.
Report(ok) ==
  /\ UNCHANGED <<locals, world>>
  /\ \/ generation # 0 /\ Complete(generation, ok) /\ Succeed("wait")
     \/ generation = 0 /\ UNCHANGED ledgerVars /\ Succeed("wait")
     \/ generation # 0 /\ UNCHANGED ledgerVars /\ Fail("wait")

\* Mutated form: a failed attempt is reported as applied.
CompleteAlways ==
  \/ pc = "complete" /\ Report(TRUE)
  \/ pc = "failed" /\ Report(TRUE)

\* Mutated form: success is not reported.
CompleteOnlyFailure ==
  \/ pc = "complete" /\ Succeed("wait") /\ UNCHANGED <<ledgerVars, locals, world>>
  \/ pc = "failed" /\ Report(FALSE)

CompleteRouteGeneration ==
  \/ pc = "complete" /\ Report(TRUE)
  \/ pc = "failed" /\ Report(FALSE)

\* The ticker: Expire, then the next reconciliation whether Expire failed or not.
Tick ==
  /\ pc = "wait"
  /\ UNCHANGED <<locals, world>>
  /\ \/ Expire /\ Succeed("start")
     \/ UNCHANGED ledgerVars /\ Fail("start")
-----------------------------------------------------------------------------
(* The start of the edge.                                                  *)

\* The process dies, or returns and has removed its policy, and another one starts:
\* NewWithStore fills the route table from the registry, and the approval API serves.
\* Tailscale keeps its preferences.
Restart ==
  /\ restarts < MaxRestarts
  /\ restarts' = restarts + 1
  /\ entries' = Routes
  /\ admitting' = {}
  /\ policy' \in {policy, {}}
  /\ generation' = 0 /\ want' = {} /\ previous' = {}
  /\ Goto("boot")
  /\ UNCHANGED <<ledgerVars, advertised, failures>>

\* Run has waited for the interface; Policy.Apply removes what is left of an old policy.
CleanPolicy ==
  /\ pc = "boot"
  /\ policy' = {}
  /\ Succeed("apply")
  /\ UNCHANGED <<ledgerVars, locals, advertised, entries, admitting>>

\* The policy of a route table, and of the allowed routes if that is empty.
InitialPolicy(routes) == IF routes = {} THEN AllowedRoutes ELSE routes

\* Apply installs the policy for the route table as NewWithStore has left it; Run then opens
\* the listeners, accepts sessions and starts the loop.
ApplyPolicy ==
  /\ pc = "apply"
  /\ policy' = InitialPolicy(entries)
  /\ admitting' = entries
  /\ Succeed("start")
  /\ UNCHANGED <<ledgerVars, locals, advertised, entries>>

Starts == CleanPolicy \/ ApplyPolicy

Reconcile ==
  \/ PendingRouteGeneration
  \/ ReadActive
  \/ ReadPrefs
  \/ ReadFails
  \/ Withdraw
  \/ WithdrawPolicy
  \/ Readvertise
  \/ Extend
  \/ ExtendSet
  \/ RestorePolicy
  \/ Verify
  \/ CompleteRouteGeneration
  \/ Tick

Next == StoreStep \/ Starts \/ Reconcile \/ Restart

Spec == Init /\ [][Next]_vars

\* A process that is not restarted comes to its loop, and the loop keeps running.
FairSpec == Spec /\ WF_vars(Starts) /\ WF_vars(Reconcile)
-----------------------------------------------------------------------------
(* Properties.                                                             *)

\* An applied generation is the truth: when the loop is idle, the newest generation is
\* applied and the active registrations are still those it lists, then Tailscale advertises,
\* nftables redirects and the edge routes exactly these prefixes and the static ones,
\* whatever failed, was superseded or restarted before.
AppliedIsInForce ==
  /\ pc = "wait"
  /\ gens # <<>>
  /\ genState[Len(gens)] = "applied"
  /\ gens[Len(gens)] = Active
  => advertised = Routes /\ policy \cap Prefixes = Routes /\ entries = Routes

\* Mutated form: pending generations are not looked at.
ReportedReadyEarly(p) == rowState[p] = "ready"

\* The approval API's readinessState for the registration with prefix p.
ReportedReady(p) ==
  /\ rowState[p] = "ready"
  /\ OldestPending # 0 => p \notin gens[OldestPending]

\* A generation that was superseded while the loop worked on it has failed, and is pending
\* again in front of a newer one: readinessState looks at the older.
Revived == OldestPending \notin {0, Len(gens)}

\* What is announced is in force: a registration that the approval API reports as ready, and
\* whose lease runs, is advertised, redirected and routed, whichever calls of the loop failed
\* half-way and whenever the edge was restarted.  Excepted are an edge that is starting, which
\* answers before it has its policy, and a superseded generation that is pending again.
ReadyIsInForce ==
  pc \notin {"boot", "apply"} /\ ~ Revived =>
    \A p \in Prefixes \ lapsed : ReportedReady(p) =>
      p \in advertised /\ p \in policy /\ p \in entries

\* Once registrations stop changing and calls stop failing, Tailscale, nftables and the
\* route table agree with the registry for good, and no generation stays pending.
Converges ==
  <>[](/\ advertised = Routes /\ policy = Routes /\ entries = Routes
       /\ OldestPending = 0)

\* docs/setup.md: the workflow "waits for the connector session and route generation to
\* become ready through the tailnet-only approval API": a registration with a running lease
\* that is reported as ready is advertised by Tailscale.
ReadyIsAdvertised ==
  \A p \in Prefixes \ lapsed : ReportedReady(p) => p \in advertised

=============================================================================
