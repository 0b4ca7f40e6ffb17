---------------------------- MODULE RouteLedger ----------------------------
(***************************************************************************)
(* What the registry promises to the route reconciler and to the readiness *)
(* check, without environments, keys, requests or clocks: which virtual    *)
(* prefixes have a live registration, which of those have a lease that is  *)
(* over, and the log of route generations.                                 *)
(*                                                                         *)
(* Every change of the set of live registrations that a handler makes      *)
(* appends a generation with the routes that are active after it, and      *)
(* supersedes the ones still pending.                                      *)
(***************************************************************************)
EXTENDS Integers, Sequences

CONSTANTS
  Prefixes,   \* virtual prefixes
  MaxGens     \* bound on the number of generations

VARIABLES
  rowState,   \* state of the live registration with this prefix, "off" if there is none
  lapsed,     \* prefixes of live registrations whose lease is over
  gens,       \* route_generations: the routes
  genState    \* and the state

ledgerVars == <<rowState, lapsed, gens, genState>>

LedgerTypeOK ==
  /\ rowState \in [Prefixes -> {"off", "approved", "ready"}]
  /\ lapsed \subseteq Prefixes
  /\ gens \in Seq(SUBSET Prefixes)
  /\ genState \in [1..Len(gens) -> {"pending", "superseded", "applied"}]

LedgerInit ==
  /\ rowState = [p \in Prefixes |-> "off"]
  /\ lapsed = {}
  /\ gens = <<>>
  /\ genState = <<>>

On == {p \in Prefixes : rowState[p] # "off"}

Active == On \ lapsed

NewGeneration ==
  /\ Len(gens) < MaxGens
  /\ gens' = Append(gens, Active')
  /\ genState' = [i \in 1..(Len(gens) + 1) |->
                    IF i = Len(gens) + 1 THEN "pending"
                    ELSE IF genState[i] = "pending" THEN "superseded" ELSE genState[i]]

\* Oldest pending generation, 0 if there is none.
OldestPending ==
  LET pending == {i \in 1..Len(gens) : genState[i] = "pending"} IN
  IF pending = {} THEN 0 ELSE CHOOSE i \in pending : \A j \in pending : i <= j
-----------------------------------------------------------------------------
Approve(p) ==
  /\ rowState' = [rowState EXCEPT ![p] = "approved"]
  /\ lapsed' = lapsed \ {p}
  /\ NewGeneration

MarkReady(p) ==
  /\ rowState[p] = "approved"
  /\ rowState' = [rowState EXCEPT ![p] = "ready"]
  /\ UNCHANGED <<lapsed, gens, genState>>

\* Revoking what is off already also appends a generation.
Revoke(p) ==
  /\ rowState' = [rowState EXCEPT ![p] = "off"]
  /\ lapsed' = lapsed \ {p}
  /\ NewGeneration

\* Time passes.
Lapse(P) ==
  /\ lapsed' = lapsed \cup P
  /\ UNCHANGED <<rowState, gens, genState>>

Expire ==
  /\ rowState' = [p \in Prefixes |-> IF p \in lapsed THEN "off" ELSE rowState[p]]
  /\ lapsed' = {}
  /\ IF lapsed # {} THEN NewGeneration ELSE UNCHANGED <<gens, genState>>

\* A static connector is imported at a start, or its row follows a changed configuration
\* from prefix q; no generation is made.
Import(q, p) ==
  /\ rowState[p] = "off"
  /\ rowState' = [rowState EXCEPT ![q] = "off", ![p] = "ready"]
  /\ UNCHANGED <<lapsed, gens, genState>>

\* The reconciler reports on the generation it had read, which may be superseded by now.
Complete(i, ok) ==
  /\ i \in 1..Len(gens)
  /\ genState' = [genState EXCEPT ![i] = IF ok THEN "applied" ELSE "pending"]
  /\ UNCHANGED <<rowState, lapsed, gens>>

LedgerNext ==
  \/ \E p \in Prefixes : Approve(p) \/ MarkReady(p) \/ Revoke(p)
  \/ \E P \in SUBSET On : Lapse(P)
  \/ Expire
  \/ \E q, p \in Prefixes : Import(q, p)
  \/ \E i \in 1..Len(gens), ok \in BOOLEAN : Complete(i, ok)

LedgerSpec == LedgerInit /\ [][LedgerNext]_ledgerVars
=============================================================================
