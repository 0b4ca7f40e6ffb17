------------------------------ MODULE UDPFlows ------------------------------
(***************************************************************************)
(* The UDP flows of the edge (internal/edge/edge.go): the two flow tables, *)
(* the DNS share of them, the idle goroutine of every flow, the end of a   *)
(* session and the shutdown of the edge.                                   *)
(*                                                                         *)
(* acceptUDP and every forwardDNS pick a session with route() first and    *)
(* look the flow up under udpMu later; the session may be replaced or      *)
(* closed in between.  Payloads, addresses and their translation are left  *)
(* out: a client stands for a (source, destination) pair.                  *)
(***************************************************************************)
EXTENDS Integers, FiniteSets

CONSTANTS
  Sessions,     \* connector sessions, used in any order
  Clients,      \* source and destination of a datagram
  Tasks,        \* acceptUDP and forwardDNS calls in progress
  MaxFlowID,    \* bound on the flowID counter
  MaxUDPFlows,  \* config.MaxUDPFlows
  DNSFlowMax,   \* dnsFlowMax
  None

FlowIDs == 1..MaxFlowID
FlowKeys == Sessions \X Clients \X BOOLEAN     \* the last says shared, that is DNS

ASSUME LimitsAssumption ==
  /\ MaxFlowID \in Nat /\ MaxUDPFlows \in Nat \ {0}
  /\ DNSFlowMax \in 0..MaxUDPFlows
  /\ None \notin Sessions

VARIABLES
  current,   \* the session route() returns, None if there is none
  sess,      \* sessions: "ended" when receiveUDP has returned, closeUDPSession included
  flowID,    \* Server.flowID
  keyOf,     \* edgeUDPFlow objects by id: their key (session, client, shared)
  udpByKey, udpByID,
  dnsFlows,
  flowGauge, \* status: UDPFlowStarted - UDPFlowEnded
  used,      \* flows used since the last tick of their idle ticker
  ticking,   \* flows whose idle goroutine runs
  task,      \* the session and client of a routed datagram, None when idle
  down       \* the edge has shut down

vars == <<current, sess, flowID, keyOf, udpByKey, udpByID, dnsFlows, flowGauge, used,
          ticking, task, down>>
tables == <<flowID, keyOf, udpByKey, udpByID, dnsFlows, flowGauge, used, ticking>>

SessionOf(id) == keyOf[id][1]
Shared(id) == keyOf[id][3]
SharedIn(ids) == Cardinality({id \in ids : Shared(id)})

TypeOK ==
  /\ current \in Sessions \cup {None}
  /\ sess \in [Sessions -> {"new", "open", "closed", "ended"}]
  /\ flowID \in 0..MaxFlowID
  /\ keyOf \in [1..flowID -> FlowKeys]
  /\ udpByKey \in [FlowKeys -> {0} \cup 1..flowID]
  /\ udpByID \subseteq 1..flowID
  /\ dnsFlows \in Int /\ flowGauge \in Int
  /\ used \subseteq 1..flowID /\ ticking \subseteq 1..flowID
  /\ task \in [Tasks -> FlowKeys \cup {None}]
  /\ down \in BOOLEAN

Init ==
  /\ current = None
  /\ sess = [s \in Sessions |-> "new"]
  /\ flowID = 0
  /\ keyOf = <<>>
  /\ udpByKey = [k \in FlowKeys |-> 0]
  /\ udpByID = {}
  /\ dnsFlows = 0 /\ flowGauge = 0
  /\ used = {} /\ ticking = {}
  /\ task = [t \in Tasks |-> None]
  /\ down = FALSE
-----------------------------------------------------------------------------
(* The session of the connector (see EdgeSessions).                        *)

SessionStarts(s) ==
  /\ sess[s] = "new"
  /\ ~ down
  /\ sess' = [sess EXCEPT ![s] = "open"]
  /\ current' = s
  /\ UNCHANGED <<tables, task, down>>

SessionCloses(s) ==
  /\ sess[s] = "open"
  /\ sess' = [sess EXCEPT ![s] = "closed"]
  /\ UNCHANGED <<current, tables, task, down>>

\* authenticate takes a closed session out of the entry.
SessionCleared ==
  /\ current # None
  /\ sess[current] # "open"
  /\ current' = None
  /\ UNCHANGED <<sess, tables, task, down>>
-----------------------------------------------------------------------------
\* Mutated form: the flow stays under its key.
DeleteIDs(ids) ==
  /\ udpByID' = udpByID \ ids
  /\ UNCHANGED udpByKey
  /\ dnsFlows' = dnsFlows - SharedIn(ids)
  /\ flowGauge' = flowGauge - Cardinality(ids)

\* Take the flows out of both tables and correct the counters, under udpMu.
Delete(ids) ==
  /\ udpByID' = udpByID \ ids
  /\ udpByKey' = [k \in FlowKeys |-> IF \E id \in ids : keyOf[id] = k THEN 0 ELSE udpByKey[k]]
  /\ dnsFlows' = dnsFlows - SharedIn(ids)
  /\ flowGauge' = flowGauge - Cardinality(ids)

\* route() returns the session of the entry; a datagram without one is dropped.
Route(t, c, shared) ==
  /\ task[t] = None
  /\ current # None
  /\ task' = [task EXCEPT ![t] = <<current, c, shared>>]
  /\ UNCHANGED <<current, sess, tables, down>>

\* acceptUDP handles one datagram at a time; the last one may come after the shutdown.
acceptUDP(t, c) ==
  /\ \A u \in Tasks : task[u] # None => task[u][3]
  /\ Route(t, c, FALSE)

\* acceptDNS starts a forwardDNS for every query.
forwardDNS(t, c) == Route(t, c, TRUE)

\* edgeUDPFlowWithReply finds the flow of the key.
FlowFound(t) ==
  /\ task[t] # None
  /\ udpByKey[task[t]] # 0
  /\ used' = used \cup {udpByKey[task[t]]}
  /\ task' = [task EXCEPT ![t] = None]
  /\ UNCHANGED <<current, sess, flowID, keyOf, udpByKey, udpByID, dnsFlows, flowGauge,
                 ticking, down>>

Full(shared) ==
  \/ Cardinality(udpByID) >= MaxUDPFlows
  \/ shared /\ dnsFlows >= DNSFlowMax

\* It makes a new one; its ticker starts after lastUsed is set, so the first tick already
\* finds the flow idle unless it was used again.
FlowCreated(t) ==
  LET id == flowID + 1 IN
  /\ task[t] # None
  /\ udpByKey[task[t]] = 0
  /\ ~ Full(task[t][3])
  /\ id <= MaxFlowID
  /\ flowID' = id
  /\ keyOf' = [i \in 1..id |-> IF i = id THEN task[t] ELSE keyOf[i]]
  /\ udpByKey' = [udpByKey EXCEPT ![task[t]] = id]
  /\ udpByID' = udpByID \cup {id}
  /\ dnsFlows' = dnsFlows + (IF task[t][3] THEN 1 ELSE 0)
  /\ flowGauge' = flowGauge + 1
  /\ ticking' = ticking \cup {id}
  /\ task' = [task EXCEPT ![t] = None]
  /\ UNCHANGED <<current, sess, used, down>>

\* A limit is reached or the reply socket cannot be opened: the datagram is dropped.
FlowRefused(t) ==
  /\ task[t] # None
  /\ udpByKey[task[t]] = 0
  /\ task' = [task EXCEPT ![t] = None]
  /\ UNCHANGED <<current, sess, tables, down>>

\* receiveUDP of the flow's own session accepts a response.
Response(id) ==
  /\ id \in udpByID
  /\ sess[SessionOf(id)] = "open"
  /\ used' = used \cup {id}
  /\ UNCHANGED <<current, sess, flowID, keyOf, udpByKey, udpByID, dnsFlows, flowGauge,
                 ticking, task, down>>

\* Mutated form: the goroutine returns when it finds the flow in use.
IdleTickOnce(id) ==
  /\ id \in ticking
  /\ ticking' = ticking \ {id}
  /\ \/ /\ id \in udpByID /\ id \notin used
        /\ Delete({id})
     \/ /\ id \in udpByID => id \in used
        /\ UNCHANGED <<udpByKey, udpByID, dnsFlows, flowGauge>>
  /\ UNCHANGED <<current, sess, flowID, keyOf, used, task, down>>

\* The ticker of the idle goroutine fires.
IdleTick(id) ==
  /\ id \in ticking
  /\ \/ /\ id \notin udpByID
        /\ ticking' = ticking \ {id}
        /\ UNCHANGED <<udpByKey, udpByID, dnsFlows, flowGauge, used>>
     \/ /\ id \in udpByID /\ id \in used
        /\ used' = used \ {id}
        /\ UNCHANGED <<udpByKey, udpByID, dnsFlows, flowGauge, ticking>>
     \/ /\ id \in udpByID /\ id \notin used
        /\ Delete({id})
        /\ ticking' = ticking \ {id}
        /\ UNCHANGED used
  /\ UNCHANGED <<current, sess, flowID, keyOf, task, down>>

\* receiveUDP returns because the connection is closed.
closeUDPSession(s) ==
  /\ sess[s] = "closed"
  /\ Delete({id \in udpByID : SessionOf(id) = s})
  /\ sess' = [sess EXCEPT ![s] = "ended"]
  /\ UNCHANGED <<current, flowID, keyOf, used, ticking, task, down>>

\* The tables are replaced by empty ones, under udpMu.
closeUDPFlows ==
  /\ udpByID' = {}
  /\ udpByKey' = [k \in FlowKeys |-> 0]
  /\ dnsFlows' = 0
  /\ flowGauge' = flowGauge - Cardinality(udpByID)

\* The end of Run: the connections are closed, then the flows.
Shutdown ==
  /\ ~ down
  /\ down' = TRUE
  /\ sess' = [s \in Sessions |-> IF sess[s] = "open" THEN "closed" ELSE sess[s]]
  /\ closeUDPFlows
  /\ UNCHANGED <<current, flowID, keyOf, used, ticking, task>>
-----------------------------------------------------------------------------
Next ==
  \/ \E s \in Sessions : SessionStarts(s) \/ SessionCloses(s) \/ closeUDPSession(s)
  \/ SessionCleared
  \/ \E t \in Tasks :
       \/ \E c \in Clients : acceptUDP(t, c) \/ forwardDNS(t, c)
       \/ FlowFound(t) \/ FlowCreated(t) \/ FlowRefused(t)
  \/ \E id \in udpByID : Response(id)
  \/ \E id \in ticking : IdleTick(id)
  \/ Shutdown

Spec == Init /\ [][Next]_vars

\* Tickers fire and closed sessions are cleared; clients and connectors need not send.
FairSpec ==
  /\ Spec
  /\ WF_vars(SessionCleared)
  /\ \A t \in Tasks : WF_vars(FlowFound(t) \/ FlowCreated(t) \/ FlowRefused(t))
  /\ \A id \in FlowIDs : WF_vars(id \in ticking /\ IdleTick(id))
-----------------------------------------------------------------------------
(* Properties.                                                             *)

\* The two tables hold the same flows, each under its own key, whoever removed or added
\* flows in between: an idle ticker never takes away the flow that replaced its own.  No flow
\* is counted twice or forgotten by idle expiry, the end of its session and the shutdown: the
\* DNS count and the flow gauge are the sizes of the tables and the limits are kept, so the
\* capacity for new flows is never lost.
TablesAgree ==
  /\ \A id \in udpByID : udpByKey[keyOf[id]] = id
  /\ \A k \in FlowKeys : udpByKey[k] # 0 => udpByKey[k] \in udpByID /\ keyOf[udpByKey[k]] = k
  /\ dnsFlows = SharedIn(udpByID)
  /\ flowGauge = Cardinality(udpByID)
  /\ Cardinality(udpByID) <= MaxUDPFlows
  /\ dnsFlows <= DNSFlowMax

\* A flow of a session that has ended goes away, also one that was created after
\* closeUDPSession had run because its datagram had been routed before.
EndedFlowsVanish ==
  \A id \in FlowIDs :
    (id \in udpByID /\ sess[SessionOf(id)] # "open") ~> (id \notin udpByID)

=============================================================================
