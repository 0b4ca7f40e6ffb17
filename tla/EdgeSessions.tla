---------------------------- MODULE EdgeSessions ----------------------------
(***************************************************************************)
(* The connector sessions of the edge: the table of connector entries      *)
(* (internal/edge/edge.go: registry, routes, connectorEntry), the          *)
(* authenticate goroutine of every connection, the drain timers, the       *)
(* refresh of the table from the registry, and the readiness that          *)
(* internal/status/status.go keeps beside it.                              *)
(*                                                                         *)
(* An entry is a heap object: authenticate looks its entry up once and     *)
(* keeps the pointer, while refreshDynamic may drop it from the table or   *)
(* replace it by a new one.  A connection yields at most one session and   *)
(* is identified with it.                                                  *)
(***************************************************************************)
EXTENDS Integers, FiniteSets

CONSTANTS
  Static,      \* connector ids of TB_CONNECTORS (protocol v2)
  Dynamic,     \* project/environment keys of dynamic registrations (protocol v3)
  PrefixOf,    \* virtual prefix of a connector id
  Targets,     \* the rest of a ConnectorTarget that a new approval may change
  StaticTarget,\* target of the static connectors
  Conns,       \* QUIC connections
  Starts,      \* connector process start times
  MaxEntries,  \* bound on the number of connectorEntry objects
  None

Connectors == Static \cup Dynamic
Entries == 1..MaxEntries

ASSUME ConstantsAssumption ==
  /\ Static \cap Dynamic = {} /\ IsFiniteSet(Connectors)
  /\ DOMAIN PrefixOf = Connectors
  /\ \A k, l \in Static : PrefixOf[k] = PrefixOf[l] => k = l
  /\ \A k, l \in Dynamic : PrefixOf[k] = PrefixOf[l] => k = l
  /\ StaticTarget \in Targets
  /\ Starts \subseteq Nat
  /\ MaxEntries \in Nat /\ Cardinality(Static) <= MaxEntries
  /\ None \notin Connectors /\ None \notin Targets /\ None \notin Conns /\ None \notin Entries
  /\ "absent" \notin Conns /\ "absent" # None

VARIABLES
  assigned,   \* Store.Active: target of the active registrations, by dynamic key
  keyed,      \* registrations with a usable identity key
  read,       \* what refreshDynamic has read from the store, None between refreshes
  registry,   \* Server.registry
  routes,     \* Server.routes
  owner, target, active, draining,   \* the connectorEntry objects
  allocated,  \* number of entries allocated so far
  pc, conn,   \* the authenticate goroutines: position, and what they remember
  open,       \* connections that are not closed
  drained,    \* session.draining
  timer,      \* armed drain timers: the session each goroutine will close, or None
  status      \* status.connectors: "absent", None (not ready) or the ready session

entryVars == <<owner, target, active, draining, allocated>>
tableVars == <<registry, routes>>
vars == <<assigned, keyed, read, tableVars, entryVars, pc, conn, open, drained, timer, status>>

\* What a goroutine remembers: the hello, its entry, the target its connector is told, and
\* the sessions it has to close.
NoConn == [key |-> None, started |-> 0, entry |-> None, told |-> None, stale |-> None,
           previous |-> None]

ConnType == [key : Connectors \cup {None}, started : Starts \cup {0},
             entry : Entries \cup {None}, told : Targets \cup {None},
             stale : Conns \cup {None}, previous : Conns \cup {None}]

TypeOK ==
  /\ assigned \in [Dynamic -> Targets \cup {None}]
  /\ keyed \subseteq Dynamic
  /\ read \in [Dynamic -> Targets \cup {None}] \cup {None}
  /\ registry \in [Connectors -> Entries \cup {None}]
  /\ routes \subseteq Entries
  /\ owner \in [Entries -> Connectors \cup {None}]
  /\ target \in [Entries -> Targets \cup {None}]
  /\ active \in [Entries -> Conns \cup {None}]
  /\ draining \in [Entries -> Conns \cup {None}]
  /\ allocated \in 0..MaxEntries
  /\ pc \in [Conns -> {"none", "hello", "looked", "checked", "stored", "closing", "serving",
                       "swapped", "done"}]
  /\ conn \in [Conns -> ConnType]
  /\ \A c \in Conns : pc[c] \notin {"none", "hello", "done"} => conn[c].entry \in Entries
  /\ open \subseteq Conns
  /\ drained \subseteq Conns
  /\ timer \in [Conns -> Conns \cup {None}]
  /\ status \in [Connectors -> Conns \cup {None, "absent"}]
-----------------------------------------------------------------------------
(* New: one entry for every static connector, none of them ready.          *)

Init ==
  /\ assigned = [k \in Dynamic |-> None]
  /\ keyed = {}
  /\ read = None
  /\ allocated = Cardinality(Static)
  /\ \E f \in [Static -> 1..Cardinality(Static)] :
       /\ \A k, l \in Static : f[k] = f[l] => k = l
       /\ registry = [k \in Connectors |-> IF k \in Static THEN f[k] ELSE None]
       /\ owner = [e \in Entries |-> IF \E k \in Static : f[k] = e
                                     THEN CHOOSE k \in Static : f[k] = e ELSE None]
  /\ routes = 1..Cardinality(Static)
  /\ target = [e \in Entries |-> IF e <= Cardinality(Static) THEN StaticTarget ELSE None]
  /\ active = [e \in Entries |-> None]
  /\ draining = [e \in Entries |-> None]
  /\ pc = [c \in Conns |-> "none"]
  /\ conn = [c \in Conns |-> NoConn]
  /\ open = {}
  /\ drained = {}
  /\ timer = [c \in Conns |-> None]
  /\ status = [k \in Connectors |-> IF k \in Static THEN None ELSE "absent"]
-----------------------------------------------------------------------------
(* The registry: approvals, withdrawals and expiries change what Active    *)
(* returns (modelled in Registry).                                         *)

Assign(k, t) ==
  /\ assigned[k] # t
  /\ assigned' = [assigned EXCEPT ![k] = t]
  /\ keyed' = keyed \cup {k}
  /\ UNCHANGED <<read, tableVars, entryVars, pc, conn, open, drained, timer, status>>

\* The lease elapses; the identity keys stay usable until Expire has run.
Lapse(k) ==
  /\ assigned[k] # None
  /\ assigned' = [assigned EXCEPT ![k] = None]
  /\ UNCHANGED <<keyed, read, tableVars, entryVars, pc, conn, open, drained, timer, status>>

\* Revoke or Expire retires the keys.
Withdraw(k) ==
  /\ k \in keyed
  /\ assigned' = [assigned EXCEPT ![k] = None]
  /\ keyed' = keyed \ {k}
  /\ UNCHANGED <<read, tableVars, entryVars, pc, conn, open, drained, timer, status>>
-----------------------------------------------------------------------------
(* refreshDynamic: the registrations are read before registryMu is taken.  *)

ReadActive ==
  /\ read = None
  /\ read' = assigned
  /\ UNCHANGED <<assigned, keyed, tableVars, entryVars, pc, conn, open, drained, timer, status>>

ActiveKeys == {k \in Dynamic : read[k] # None}

\* Keys whose entry is missing or has another target get a new entry.
Renewed ==
  {k \in ActiveKeys : registry[k] = None \/ target[registry[k]] # read[k]}

Dropped == {k \in Dynamic \ ActiveKeys : registry[k] # None}

\* Sessions closed with "assignment changed" or "registration is inactive".
Evicted ==
  {active[registry[k]] : k \in {l \in Renewed \cup Dropped : registry[l] # None}} \ {None}

\* Mutated form: both routes stay.
NeverShadowed == {}

\* A static connector's route gives way to a dynamic registration of the same prefix.
Shadowed == {k \in Static : \E l \in ActiveKeys : PrefixOf[l] = PrefixOf[k]}

\* Keep the readiness of the identities that stay configured.
ReconcileConnectors(K) ==
  status' = [k \in Connectors |-> IF k \notin K THEN "absent"
                                  ELSE IF status[k] = "absent" THEN None ELSE status[k]]

\* Mutated form: the target of an entry that has another one is changed in place.
refreshDynamicInPlace ==
  LET Missing == {k \in ActiveKeys : registry[k] = None} IN
  /\ read # None
  /\ allocated + Cardinality(Missing) <= MaxEntries
  /\ \E fresh \in [Missing -> (allocated + 1)..(allocated + Cardinality(Missing))] :
       /\ \A k, l \in Missing : fresh[k] = fresh[l] => k = l
       /\ registry' = [k \in Connectors |-> IF k \in Missing THEN fresh[k]
                                            ELSE IF k \in Dropped THEN None ELSE registry[k]]
  /\ LET renewed(e) == {k \in Renewed : registry'[k] = e} IN
     /\ owner' = [e \in Entries |-> IF renewed(e) = {} THEN owner[e]
                                    ELSE CHOOSE k \in renewed(e) : TRUE]
     /\ target' = [e \in Entries |-> IF renewed(e) = {} THEN target[e]
                                     ELSE read[CHOOSE k \in renewed(e) : TRUE]]
  /\ allocated' = allocated + Cardinality(Missing)
  /\ routes' = {registry'[k] : k \in (Static \ Shadowed) \cup ActiveKeys}
  /\ open' = open \ Evicted
  /\ ReconcileConnectors((Static \ Shadowed) \cup ActiveKeys)
  /\ read' = None
  /\ UNCHANGED <<assigned, keyed, active, draining, pc, conn, drained, timer>>

\* The section under registryMu.
refreshDynamic ==
  /\ read # None
  /\ allocated + Cardinality(Renewed) <= MaxEntries
  /\ \E fresh \in [Renewed -> (allocated + 1)..(allocated + Cardinality(Renewed))] :
       LET made(e) == {k \in Renewed : fresh[k] = e} IN
       /\ \A k, l \in Renewed : fresh[k] = fresh[l] => k = l
       /\ registry' = [k \in Connectors |-> IF k \in Renewed THEN fresh[k]
                                            ELSE IF k \in Dropped THEN None ELSE registry[k]]
       /\ owner' = [e \in Entries |-> IF made(e) = {} THEN owner[e]
                                      ELSE CHOOSE k \in made(e) : TRUE]
       /\ target' = [e \in Entries |-> IF made(e) = {} THEN target[e]
                                       ELSE read[CHOOSE k \in made(e) : TRUE]]
  /\ allocated' = allocated + Cardinality(Renewed)
  /\ routes' = {registry'[k] : k \in (Static \ Shadowed) \cup ActiveKeys}
  /\ open' = open \ Evicted
  /\ ReconcileConnectors((Static \ Shadowed) \cup ActiveKeys)
  /\ read' = None
  /\ UNCHANGED <<assigned, keyed, active, draining, pc, conn, drained, timer>>
-----------------------------------------------------------------------------
(* authenticate.                                                           *)

Connect(c, k, s) ==
  /\ pc[c] = "none"
  /\ pc' = [pc EXCEPT ![c] = "hello"]
  /\ conn' = [conn EXCEPT ![c] = [NoConn EXCEPT !.key = k, !.started = s]]
  /\ open' = open \cup {c}
  /\ UNCHANGED <<assigned, keyed, read, tableVars, entryVars, drained, timer, status>>

\* Every early return closes the connection.
Refuse(c) ==
  /\ pc' = [pc EXCEPT ![c] = "done"]
  /\ open' = open \ {c}
  /\ UNCHANGED <<assigned, keyed, read, tableVars, entryVars, conn, drained, timer, status>>

\* The lookup under registryMu.RLock; an unknown connector is refused.
Lookup(c) ==
  /\ pc[c] = "hello"
  /\ \/ /\ registry[conn[c].key] # None
        /\ conn' = [conn EXCEPT ![c].entry = registry[conn[c].key]]
        /\ pc' = [pc EXCEPT ![c] = "looked"]
        /\ UNCHANGED <<assigned, keyed, read, tableVars, entryVars, open, drained, timer, status>>
     \/ /\ registry[conn[c].key] = None
        /\ Refuse(c)

\* Certificate and hello agree, and a dynamic connector has a usable identity key.  The
\* session and the accepted frame are made up from the target of the entry.
CheckIdentity(c) ==
  /\ pc[c] = "looked"
  /\ conn[c].key \in Dynamic => conn[c].key \in keyed
  /\ conn' = [conn EXCEPT ![c].told = target[conn[c].entry]]
  /\ pc' = [pc EXCEPT ![c] = "checked"]
  /\ UNCHANGED <<assigned, keyed, read, tableVars, entryVars, open, drained, timer, status>>

\* Bad identity, start time or routes; a withdrawn key.
CheckFails(c) ==
  /\ pc[c] = "looked"
  /\ Refuse(c)

\* connectionClosed is evaluated under entry.mu.
NewerActive(c) ==
  LET previous == active[conn[c].entry] IN
  previous # None /\ previous \in open /\ conn[c].started <= conn[previous].started

\* Mutated form: a session that is replaced while another one drains gets no drain timer.
StoreSessionForgetting(c) ==
  LET e == conn[c].entry
      previous == active[e] IN
  /\ pc[c] = "checked"
  /\ ~ NewerActive(c)
  /\ active' = [active EXCEPT ![e] = c]
  /\ conn' = [conn EXCEPT ![c].stale = IF draining[e] # previous THEN draining[e] ELSE None,
                          ![c].previous = IF draining[e] = None THEN previous ELSE None]
  /\ drained' = IF previous = None THEN drained ELSE drained \cup {previous}
  /\ draining' = IF previous = None THEN draining ELSE [draining EXCEPT ![e] = previous]
  /\ pc' = [pc EXCEPT ![c] = "stored"]
  /\ UNCHANGED <<assigned, keyed, read, tableVars, owner, target, allocated, open, timer, status>>

\* The section under entry.mu: the newer session becomes active, the previous drains.
StoreSession(c) ==
  LET e == conn[c].entry
      previous == active[e] IN
  /\ pc[c] = "checked"
  /\ ~ NewerActive(c)
  /\ active' = [active EXCEPT ![e] = c]
  /\ conn' = [conn EXCEPT ![c].stale = IF draining[e] # previous THEN draining[e] ELSE None,
                          ![c].previous = previous]
  /\ drained' = IF previous = None THEN drained ELSE drained \cup {previous}
  /\ draining' = IF previous = None THEN draining ELSE [draining EXCEPT ![e] = previous]
  /\ pc' = [pc EXCEPT ![c] = "stored"]
  /\ UNCHANGED <<assigned, keyed, read, tableVars, owner, target, allocated, open, timer, status>>

\* "newer connector session is active".
Superseded(c) ==
  /\ pc[c] = "checked"
  /\ NewerActive(c)
  /\ Refuse(c)

\* The accepted frame cannot be written.
WriteFails(c) ==
  /\ pc[c] = "checked"
  /\ ~ NewerActive(c)
  /\ Refuse(c)

CloseStale(c) ==
  /\ pc[c] = "stored"
  /\ open' = open \ {conn[c].stale}
  /\ pc' = [pc EXCEPT ![c] = "closing"]
  /\ UNCHANGED <<assigned, keyed, read, tableVars, entryVars, conn, drained, timer, status>>

\* Mutated form: no drain timer is started.
ConnectorReadyOnly(c) ==
  LET k == conn[c].key IN
  /\ pc[c] = "closing"
  /\ status' = [status EXCEPT ![k] = IF @ = "absent" THEN "absent" ELSE c]
  /\ pc' = [pc EXCEPT ![c] = "serving"]
  /\ UNCHANGED <<assigned, keyed, read, tableVars, entryVars, conn, open, drained, timer>>

\* ConnectorReady, and the start of the drain timer of the previous session.
ConnectorReady(c) ==
  LET k == conn[c].key IN
  /\ pc[c] = "closing"
  /\ status' = [status EXCEPT ![k] = IF @ = "absent" THEN "absent" ELSE c]
  /\ timer' = [timer EXCEPT ![c] = conn[c].previous]
  /\ pc' = [pc EXCEPT ![c] = "serving"]
  /\ UNCHANGED <<assigned, keyed, read, tableVars, entryVars, conn, open, drained>>

\* After the connection is closed: CompareAndSwap, then ConnectorClosed.
SessionEnds(c) ==
  LET e == conn[c].entry IN
  /\ pc[c] = "serving"
  /\ c \notin open
  /\ \/ /\ active[e] = c
        /\ active' = [active EXCEPT ![e] = None]
        /\ pc' = [pc EXCEPT ![c] = "swapped"]
     \/ /\ active[e] # c
        /\ pc' = [pc EXCEPT ![c] = "done"]
        /\ UNCHANGED active
  /\ UNCHANGED <<assigned, keyed, read, tableVars, owner, target, draining, allocated, conn,
                 open, drained, timer, status>>

\* Mutated form: the session id is not compared.
ConnectorClosedAny(c) ==
  /\ pc[c] = "swapped"
  /\ status' = [status EXCEPT ![conn[c].key] = IF @ = "absent" THEN @ ELSE None]
  /\ pc' = [pc EXCEPT ![c] = "done"]
  /\ UNCHANGED <<assigned, keyed, read, tableVars, entryVars, conn, open, drained, timer>>

ConnectorClosed(c) ==
  /\ pc[c] = "swapped"
  /\ status' = [status EXCEPT ![conn[c].key] = IF @ = c THEN None ELSE @]
  /\ pc' = [pc EXCEPT ![c] = "done"]
  /\ UNCHANGED <<assigned, keyed, read, tableVars, entryVars, conn, open, drained, timer>>

\* The drain interval of 15 seconds is over.
DrainTimer(c) ==
  LET e == conn[c].entry
      previous == timer[c] IN
  /\ previous # None
  /\ open' = open \ {previous}
  /\ draining' = [draining EXCEPT ![e] = IF @ = previous THEN None ELSE @]
  /\ timer' = [timer EXCEPT ![c] = None]
  /\ UNCHANGED <<assigned, keyed, read, tableVars, owner, target, active, allocated, pc,
                 conn, drained, status>>

\* The connector or the network closes a connection.
PeerCloses(c) ==
  /\ c \in open
  /\ open' = open \ {c}
  /\ UNCHANGED <<assigned, keyed, read, tableVars, entryVars, pc, conn, drained, timer, status>>
-----------------------------------------------------------------------------
\* What the edge does by itself.
Authenticate(c) ==
  \/ Lookup(c)
  \/ CheckIdentity(c)
  \/ CheckFails(c)
  \/ StoreSession(c)
  \/ Superseded(c)
  \/ WriteFails(c)
  \/ CloseStale(c)
  \/ ConnectorReady(c)
  \/ SessionEnds(c)
  \/ ConnectorClosed(c)

Next ==
  \/ \E k \in Dynamic : Lapse(k) \/ Withdraw(k) \/ \E t \in Targets : Assign(k, t)
  \/ ReadActive
  \/ refreshDynamic
  \/ \E c \in Conns :
       \/ \E k \in Connectors, s \in Starts : Connect(c, k, s)
       \/ Authenticate(c)
       \/ DrainTimer(c)
       \/ PeerCloses(c)

Spec == Init /\ [][Next]_vars

\* Goroutines run and timers fire; nobody has to connect, close or withdraw.
FairSpec == Spec /\ \A c \in Conns : WF_vars(Authenticate(c)) /\ WF_vars(DrainTimer(c))
-----------------------------------------------------------------------------
(* Properties.                                                             *)

Accepted(c) == pc[c] \in {"stored", "closing", "serving", "swapped"}

ToBeClosed ==
  {timer[c] : c \in Conns} \cup {conn[c].stale : c \in {d \in Conns : pc[d] = "stored"}}
    \cup {conn[c].previous : c \in {d \in Conns : pc[d] \in {"stored", "closing"}}}

\* An entry never leaks a session: an accepted session whose connection is open is the
\* active one of its entry, or somebody (a drain timer or the closing of the stale draining
\* session) is about to close it, however many replicas connect at the same time.
ReplacedSessionsEnd ==
  \A c \in Conns : Accepted(c) /\ c \in open =>
    active[conn[c].entry] = c \/ c \in ToBeClosed

\* New flows use the active session: the session an entry routes to is the entry's own, is
\* not marked as draining, and no two routed entries claim the same virtual prefix, also
\* while a static connector is being replaced by a dynamic registration of its prefix.
RoutesUnambiguous ==
  /\ \A e \in routes : active[e] # None =>
       conn[active[e]].key = owner[e] /\ active[e] \notin drained
  /\ \A e, f \in routes : PrefixOf[owner[e]] = PrefixOf[owner[f]] => e = f

\* New flows agree with the handshake of the session that gets them.  The edge translates the
\* destination of a flow with the target of the routed entry, while the connector admits
\* routes and rewrites DNS answers with the target it was told when it was accepted; they are
\* the same target, although an entry may be replaced or removed while a goroutine that has
\* looked it up is on its way to storing a session in it.
FlowsMatchHandshake ==
  \A e \in routes : active[e] # None => conn[active[e]].told = target[e]

Quiet == \A c \in Conns : pc[c] \in {"none", "done"} \/ (pc[c] = "serving" /\ c \in open)

\* When no goroutine is in the middle of a step, an open session that is routed to is
\* reported as ready: the reorderings of ConnectorReady and ConnectorClosed never hide it.
\* This is for an entry that has its prefix alone.  A session of an entry that was replaced
\* takes the report with it when it closes, and a static connector is not reported while a
\* dynamic one has its prefix.
RoutedIsReported ==
  Quiet => \A e \in routes :
    /\ active[e] # None
    /\ \A f \in Entries \ {e} : owner[f] = None \/ PrefixOf[owner[f]] # PrefixOf[owner[e]]
    => status[owner[e]] \in Conns

\* A drained session is closed (docs/architecture.md: after at most 15 seconds).
DrainedIsClosed ==
  \A c \in Conns : c \in drained ~> c \notin open

\* docs/architecture.md: "The Tailbridge edge rejects an older process while a newer process
\* is active": authenticate accepts no session while an accepted, open and not draining
\* session of the same connector comes from the same or a newer process.
OlderProcessRejected ==
  [][\A c, d \in Conns :
       /\ pc[c] = "checked" /\ pc'[c] = "stored"
       /\ Accepted(d) /\ d \in open /\ d \notin drained /\ conn[d].key = conn[c].key
       => conn[d].started < conn[c].started]_vars

\* internal/status/status_test.go: a connector is not reported ready after its session closed
\* ("Snapshot() stayed ready after a connector closed").
ReadyHasSession ==
  Quiet => \A k \in Connectors : status[k] \in Conns =>
    \E c \in open : pc[c] = "serving" /\ conn[c].key = k

=============================================================================
