----------------------------- MODULE FlowProofs -----------------------------
(***************************************************************************)
(* Flows through the edge.  The UDP flow tables agree with each other and  *)
(* with their counters, for every number of sessions, clients, datagrams   *)
(* in progress and flows, and for every limit.  A TCP end is reported only *)
(* after all of the data, and a handler that returns leaves no connection  *)
(* open, for every window and amount of data.                              *)
(***************************************************************************)
EXTENDS UDPFlows, TCPFlow, FiniteSetTheorems, TLAPS

-----------------------------------------------------------------------------
(* UDP: the tables of the edge.                                            *)

FlowInv == TypeOK /\ TablesAgree

\* A number of flows is taken out of a finite table.
LEMMA SizeWithout ==
  ASSUME NEW S, IsFiniteSet(S), NEW T \in SUBSET S
  PROVE  /\ Cardinality(S \ T) = Cardinality(S) - Cardinality(T)
         /\ Cardinality(S) \in Nat /\ Cardinality(T) \in Nat
         /\ Cardinality(T) <= Cardinality(S)
<1>1. IsFiniteSet(T) /\ Cardinality(T) <= Cardinality(S)
  BY FS_Subset, Zenon
<1>2. S \cap T = T
  BY Zenon
<1> QED
  BY <1>1, <1>2, FS_Difference, FS_CardinalityType, ZenonT(60)

\* The table of flows is finite, and so is the DNS share of it.
LEMMA TableFinite ==
  ASSUME TypeOK
  PROVE  IsFiniteSet(udpByID) /\ IsFiniteSet({id \in udpByID : Shared(id)})
<1>1. IsFiniteSet(1..flowID)
  BY FS_Interval, LimitsAssumption DEF TypeOK
<1>2. udpByID \in SUBSET (1..flowID) /\ {id \in udpByID : Shared(id)} \in SUBSET (1..flowID)
  BY Zenon DEF TypeOK
<1> QED
  BY <1>1, <1>2, FS_Subset, Zenon

\* Delete, as idle expiry and the end of a session use it, on flows that are in the table.
LEMMA DeleteAgrees ==
  ASSUME FlowInv, NEW ids \in SUBSET udpByID, Delete(ids), UNCHANGED <<flowID, keyOf>>
  PROVE  /\ TablesAgree'
         /\ udpByKey' \in [FlowKeys -> {0} \cup 1..flowID'] /\ udpByID' \subseteq 1..flowID'
         /\ dnsFlows' \in Int /\ flowGauge' \in Int
<1> DEFINE shared == {id \in udpByID : Shared(id)}
           gone == {id \in ids : Shared(id)}
<1>1. /\ udpByID' = udpByID \ ids
      /\ udpByKey' = [k \in FlowKeys |-> IF \E id \in ids : keyOf[id] = k THEN 0 ELSE udpByKey[k]]
      /\ dnsFlows' = dnsFlows - Cardinality(gone)
      /\ flowGauge' = flowGauge - Cardinality(ids)
  BY Zenon DEF Delete, SharedIn
<1>2. /\ dnsFlows = Cardinality(shared)
      /\ flowGauge = Cardinality(udpByID)
      /\ Cardinality(udpByID) <= MaxUDPFlows
      /\ Cardinality(shared) <= DNSFlowMax
  BY Zenon DEF FlowInv, TablesAgree, SharedIn
<1>3. /\ Cardinality(udpByID \ ids) = Cardinality(udpByID) - Cardinality(ids)
      /\ Cardinality(udpByID) \in Nat /\ Cardinality(ids) \in Nat
  BY SizeWithout, TableFinite, Zenon DEF FlowInv
<1>4. /\ Cardinality(shared \ gone) = Cardinality(shared) - Cardinality(gone)
      /\ Cardinality(shared) \in Nat /\ Cardinality(gone) \in Nat
  <2>1. gone \in SUBSET shared /\ IsFiniteSet(shared)
    BY TableFinite, Zenon DEF FlowInv
  <2> HIDE DEF gone, shared
  <2> QED
    BY <2>1, SizeWithout, Zenon
<1>5. {id \in udpByID' : Shared(id)'} = shared \ gone
  BY <1>1, Zenon DEF Shared
<1>6. /\ dnsFlows' = SharedIn(udpByID)'
      /\ flowGauge' = Cardinality(udpByID')
      /\ Cardinality(udpByID') <= MaxUDPFlows
      /\ dnsFlows' <= DNSFlowMax
      /\ dnsFlows' \in Int /\ flowGauge' \in Int
  <2>1. SharedIn(udpByID)' = Cardinality(shared \ gone)
    BY <1>5, Zenon DEF SharedIn
  <2>2. MaxUDPFlows \in Nat /\ DNSFlowMax \in Nat
    BY LimitsAssumption
  <2> HIDE DEF gone, shared
  <2> QED
    BY <1>1, <1>2, <1>3, <1>4, <2>1, <2>2
<1>7. \A id \in udpByID' : udpByKey'[keyOf'[id]] = id
  <2> SUFFICES ASSUME NEW id \in udpByID' PROVE udpByKey'[keyOf'[id]] = id
    BY Zenon
  <2>1. id \in udpByID /\ id \notin ids /\ keyOf[id] \in FlowKeys
    BY <1>1, Zenon DEF FlowInv, TypeOK
  <2>2. udpByKey[keyOf[id]] = id
    BY <2>1, Zenon DEF FlowInv, TablesAgree
  <2>3. \A other \in ids : keyOf[other] # keyOf[id]
    BY <2>1, <2>2, Zenon DEF FlowInv, TablesAgree
  <2> QED
    BY <1>1, <2>1, <2>2, <2>3, Zenon
<1>8. \A k \in FlowKeys : udpByKey'[k] # 0 =>
        udpByKey'[k] \in udpByID' /\ keyOf'[udpByKey'[k]] = k
  BY <1>1, Zenon DEF FlowInv, TablesAgree
<1>9. udpByKey' \in [FlowKeys -> {0} \cup 1..flowID'] /\ udpByID' \subseteq 1..flowID'
  BY <1>1, Zenon DEF FlowInv, TypeOK
<1> QED
  BY <1>6, <1>7, <1>8, <1>9, Zenon DEF TablesAgree

\* edgeUDPFlowWithReply enters a new flow in both tables and counts it.
LEMMA CreateAgrees ==
  ASSUME FlowInv, NEW t \in Tasks, FlowCreated(t)
  PROVE  FlowInv'
<1> DEFINE id == flowID + 1
           key == task[t]
           shared == {i \in udpByID : Shared(i)}
<1>1. /\ key # None /\ udpByKey[key] = 0 /\ ~ Full(key[3]) /\ id <= MaxFlowID
      /\ flowID' = id
      /\ keyOf' = [i \in 1..id |-> IF i = id THEN key ELSE keyOf[i]]
      /\ udpByKey' = [udpByKey EXCEPT ![key] = id]
      /\ udpByID' = udpByID \cup {id}
      /\ dnsFlows' = dnsFlows + (IF key[3] THEN 1 ELSE 0)
      /\ flowGauge' = flowGauge + 1
      /\ ticking' = ticking \cup {id}
      /\ task' = [task EXCEPT ![t] = None]
      /\ UNCHANGED <<current, sess, used, down>>
  BY Zenon DEF FlowCreated
<1>2. key \in FlowKeys
  BY <1>1, Zenon DEF FlowInv, TypeOK
<1>3. key[3] \in BOOLEAN
  BY <1>2, Zenon DEF FlowKeys
<1>4. flowID \in Nat /\ id \in 1..MaxFlowID /\ id \notin 1..flowID /\ 1..id = (1..flowID) \cup {id}
  BY <1>1, LimitsAssumption DEF FlowInv, TypeOK
<1> HIDE DEF id, key
<1>5. TypeOK'
  <2>1. keyOf' \in [1..flowID' -> FlowKeys]
    BY <1>1, <1>2, <1>4, Zenon DEF FlowInv, TypeOK
  <2>2. udpByKey' \in [FlowKeys -> {0} \cup 1..flowID'] /\ udpByID' \subseteq 1..flowID'
    BY <1>1, <1>2, <1>4, Zenon DEF FlowInv, TypeOK
  <2>3. used' \subseteq 1..flowID' /\ ticking' \subseteq 1..flowID'
    BY <1>1, <1>4, Zenon DEF FlowInv, TypeOK
  <2>4. dnsFlows' \in Int /\ flowGauge' \in Int
    BY <1>1 DEF FlowInv, TypeOK
  <2>5. task' \in [Tasks -> FlowKeys \cup {None}]
    BY <1>1, Zenon DEF FlowInv, TypeOK
  <2>6. flowID' \in 0..MaxFlowID
    BY <1>1, <1>4, LimitsAssumption
  <2> QED
    BY <1>1, <2>1, <2>2, <2>3, <2>4, <2>5, <2>6, Zenon DEF FlowInv, TypeOK
<1>6. udpByID \subseteq 1..flowID /\ id \notin udpByID
  BY <1>4, Zenon DEF FlowInv, TypeOK
<1>7. \A i \in udpByID : keyOf'[i] = keyOf[i] /\ keyOf[i] # key /\ keyOf[i] \in FlowKeys
  BY <1>1, <1>2, <1>4, <1>6 DEF FlowInv, TypeOK, TablesAgree
<1>8. keyOf'[id] = key
  BY <1>1, <1>4, Zenon
<1>9. \A i \in udpByID' : udpByKey'[keyOf'[i]] = i
  <2>1. \A i \in udpByID : udpByKey[keyOf[i]] = i
    BY Zenon DEF FlowInv, TablesAgree
  <2>2. udpByKey'[key] = id /\ \A k \in FlowKeys : k # key => udpByKey'[k] = udpByKey[k]
    BY <1>1, <1>2, Zenon DEF FlowInv, TypeOK
  <2> QED
    BY <1>1, <1>7, <1>8, <2>1, <2>2, ZenonT(60)
<1>10. \A k \in FlowKeys : udpByKey'[k] # 0 =>
         udpByKey'[k] \in udpByID' /\ keyOf'[udpByKey'[k]] = k
  BY <1>1, <1>2, <1>7, <1>8, ZenonT(60) DEF FlowInv, TypeOK, TablesAgree
<1>11. Cardinality(udpByID') = Cardinality(udpByID) + 1 /\ Cardinality(udpByID) \in Nat
  BY <1>1, <1>6, TableFinite, FS_AddElement, FS_CardinalityType, Zenon DEF FlowInv
<1>12. SharedIn(udpByID)' = Cardinality(shared) + (IF key[3] THEN 1 ELSE 0)
       /\ Cardinality(shared) \in Nat
  <2>1. {i \in udpByID' : Shared(i)'} = IF key[3] THEN shared \cup {id} ELSE shared
    BY <1>1, <1>3, <1>7, <1>8, Zenon DEF Shared
  <2>2. IsFiniteSet(shared) /\ id \notin shared
    BY <1>6, TableFinite, Zenon DEF FlowInv
  <2> HIDE DEF shared
  <2>3. Cardinality(shared \cup {id}) = Cardinality(shared) + 1 /\ Cardinality(shared) \in Nat
    BY <2>2, FS_AddElement, FS_CardinalityType, Zenon
  <2> QED
    BY <1>3, <2>1, <2>3 DEF SharedIn
<1>13. /\ dnsFlows' = SharedIn(udpByID)' /\ flowGauge' = Cardinality(udpByID')
       /\ Cardinality(udpByID') <= MaxUDPFlows /\ dnsFlows' <= DNSFlowMax
  <2>1. /\ dnsFlows = Cardinality(shared) /\ flowGauge = Cardinality(udpByID)
        /\ dnsFlows <= DNSFlowMax
    BY Zenon DEF FlowInv, TablesAgree, SharedIn
  <2>2. Cardinality(udpByID) < MaxUDPFlows /\ (key[3] => dnsFlows < DNSFlowMax)
    BY <1>1, <1>11, <1>12, <2>1, LimitsAssumption DEF Full
  <2> HIDE DEF shared
  <2> QED
    BY <1>1, <1>3, <1>11, <1>12, <2>1, <2>2, LimitsAssumption
<1> QED
  BY <1>5, <1>9, <1>10, <1>13, Zenon DEF FlowInv, TablesAgree

\* closeUDPFlows empties both tables and counts out what was in them.
LEMMA CloseAgrees ==
  ASSUME FlowInv, closeUDPFlows
  PROVE  /\ TablesAgree'
         /\ udpByKey' \in [FlowKeys -> {0} \cup 1..flowID'] /\ udpByID' \subseteq 1..flowID'
         /\ dnsFlows' \in Int /\ flowGauge' \in Int
<1>1. /\ udpByID' = {} /\ udpByKey' = [k \in FlowKeys |-> 0] /\ dnsFlows' = 0
      /\ flowGauge' = flowGauge - Cardinality(udpByID)
  BY Zenon DEF closeUDPFlows
<1>2. flowGauge' = 0
  BY <1>1, TableFinite, FS_CardinalityType DEF FlowInv, TablesAgree
<1>3. SharedIn(udpByID)' = Cardinality({})
  BY <1>1, Zenon DEF SharedIn
<1> QED
  BY <1>1, <1>2, <1>3, FS_EmptySet, LimitsAssumption DEF TablesAgree

\* FlowInv is inductive.
LEMMA NextFlowInv == FlowInv /\ [Next]_vars => FlowInv'
<1> SUFFICES ASSUME FlowInv, [Next]_vars PROVE FlowInv'
  BY Zenon
<1>1. ASSUME UNCHANGED <<flowID, keyOf, udpByKey, udpByID, dnsFlows, flowGauge>> PROVE TablesAgree'
  BY <1>1, Zenon DEF FlowInv, TablesAgree, SharedIn, Shared
<1>2. CASE UNCHANGED vars
  BY <1>1, <1>2, Zenon DEF FlowInv, TypeOK, vars
<1>3. ASSUME NEW s \in Sessions, SessionStarts(s) \/ SessionCloses(s) PROVE FlowInv'
  BY <1>1, <1>3, Zenon DEF FlowInv, TypeOK, SessionStarts, SessionCloses, tables
<1>4. CASE SessionCleared
  BY <1>1, <1>4, Zenon DEF FlowInv, TypeOK, SessionCleared, tables
<1>5. ASSUME NEW t \in Tasks, NEW c \in Clients, acceptUDP(t, c) \/ forwardDNS(t, c)
      PROVE  FlowInv'
  <2>1. PICK shared \in BOOLEAN : Route(t, c, shared)
    BY <1>5, Zenon DEF acceptUDP, forwardDNS
  <2>2. current # None /\ <<current, c, shared>> \in FlowKeys
    BY <2>1, Zenon DEF Route, FlowInv, TypeOK, FlowKeys
  <2>3. task' \in [Tasks -> FlowKeys \cup {None}]
    BY <2>1, <2>2, Zenon DEF Route, FlowInv, TypeOK
  <2> QED
    BY <1>1, <2>1, <2>3, Zenon DEF Route, tables, FlowInv, TypeOK
<1>6. ASSUME NEW t \in Tasks, FlowFound(t) \/ FlowRefused(t) PROVE FlowInv'
  <2>1. CASE FlowRefused(t)
    BY <1>1, <2>1, Zenon DEF FlowRefused, tables, FlowInv, TypeOK
  <2>2. CASE FlowFound(t)
    <3>1. task[t] \in FlowKeys /\ udpByKey[task[t]] \in 1..flowID
      BY <2>2, Zenon DEF FlowFound, FlowInv, TypeOK
    <3>2. used' \subseteq 1..flowID' /\ task' \in [Tasks -> FlowKeys \cup {None}]
      BY <2>2, <3>1, Zenon DEF FlowFound, FlowInv, TypeOK
    <3> QED
      BY <1>1, <2>2, <3>2, Zenon DEF FlowFound, FlowInv, TypeOK
  <2> QED
    BY <1>6, <2>1, <2>2, Zenon
<1>7. ASSUME NEW t \in Tasks, FlowCreated(t) PROVE FlowInv'
  BY <1>7, CreateAgrees, Zenon
<1>8. ASSUME NEW id \in udpByID, Response(id) PROVE FlowInv'
  BY <1>1, <1>8, Zenon DEF Response, FlowInv, TypeOK
<1>9. ASSUME NEW id \in ticking, IdleTick(id) PROVE FlowInv'
  <2>1. UNCHANGED <<current, sess, flowID, keyOf, task, down>>
    BY <1>9, Zenon DEF IdleTick
  <2>2. used' \subseteq 1..flowID' /\ ticking' \subseteq 1..flowID'
    BY <1>9, Zenon DEF IdleTick, FlowInv, TypeOK
  <2>3. CASE id \in udpByID /\ Delete({id})
    <3>1. {id} \in SUBSET udpByID
      BY <2>3, Zenon
    <3> QED
      BY <2>1, <2>2, <2>3, <3>1, DeleteAgrees, Zenon DEF FlowInv, TypeOK
  <2>4. CASE UNCHANGED <<udpByKey, udpByID, dnsFlows, flowGauge>>
    BY <1>1, <2>1, <2>2, <2>4, Zenon DEF FlowInv, TypeOK
  <2> QED
    BY <1>9, <2>3, <2>4, Zenon DEF IdleTick
<1>10. ASSUME NEW s \in Sessions, closeUDPSession(s) PROVE FlowInv'
  <2> DEFINE ids == {id \in udpByID : SessionOf(id) = s}
  <2>1. /\ Delete(ids) /\ sess' = [sess EXCEPT ![s] = "ended"]
        /\ UNCHANGED <<current, flowID, keyOf, used, ticking, task, down>>
    BY <1>10, Zenon DEF closeUDPSession
  <2>2. ids \in SUBSET udpByID
    BY Zenon
  <2> HIDE DEF ids
  <2> QED
    BY <2>1, <2>2, DeleteAgrees, Zenon DEF FlowInv, TypeOK
<1>11. CASE Shutdown
  <2>1. /\ closeUDPFlows /\ down' = TRUE
        /\ sess' = [s \in Sessions |-> IF sess[s] = "open" THEN "closed" ELSE sess[s]]
        /\ UNCHANGED <<current, flowID, keyOf, used, ticking, task>>
    BY <1>11, Zenon DEF Shutdown
  <2> QED
    BY <2>1, CloseAgrees, Zenon DEF FlowInv, TypeOK
<1> QED
  BY <1>2, <1>3, <1>4, <1>5, <1>6, <1>7, <1>8, <1>9, <1>10, <1>11, Zenon DEF Next

\* The tables, the DNS count and the gauge of the edge agree and the limits are kept, whatever
\* idle expiry, session ends, the shutdown and datagrams routed before them do to the flows.
THEOREM FlowTablesAgree == Spec => []TablesAgree
<1>1. Init => FlowInv
  <2> SUFFICES ASSUME Init PROVE FlowInv
    BY Zenon
  <2>1. TypeOK
    <3>1. keyOf \in [1..flowID -> FlowKeys]
      BY DEF Init
    <3>2. flowID \in 0..MaxFlowID
      BY LimitsAssumption DEF Init
    <3>3. /\ udpByKey \in [FlowKeys -> {0} \cup 1..flowID]
          /\ udpByID \subseteq 1..flowID /\ used \subseteq 1..flowID /\ ticking \subseteq 1..flowID
          /\ dnsFlows \in Int /\ flowGauge \in Int
      BY DEF Init
    <3>4. /\ current \in Sessions \cup {None}
          /\ sess \in [Sessions -> {"new", "open", "closed", "ended"}]
          /\ task \in [Tasks -> FlowKeys \cup {None}]
          /\ down \in BOOLEAN
      BY Zenon DEF Init
    <3> QED
      BY <3>1, <3>2, <3>3, <3>4, Zenon DEF TypeOK
  <2>2. {id \in udpByID : Shared(id)} = {} /\ udpByID = {}
    BY Zenon DEF Init
  <2>3. TablesAgree
    BY <2>2, FS_EmptySet, LimitsAssumption DEF Init, TablesAgree, SharedIn
  <2> QED
    BY <2>1, <2>3, Zenon DEF FlowInv
<1>2. FlowInv => TablesAgree
  BY Zenon DEF FlowInv
<1> QED
  BY <1>1, <1>2, NextFlowInv, PTL DEF Spec

-----------------------------------------------------------------------------
(* TCP: one connection through both proxies.                               *)

\* Units of direction d on the three links.
UnderWay(d) == data[<<1, d>>] + data[<<2, d>>] + data[<<3, d>>]

SetUpOK ==
  /\ main[1] \in {"accept", "route", "open"} => main[2] = "none"
  /\ main[2] \in {"none", "request", "dial"} => ~ dialled /\ ~ dns

\* The connector closes the upstream before the queries that are under way have reached it.
Truncates(p, d) ==
  /\ p = 2 /\ d = "fwd" /\ dns /\ <<3, "bwd">> \in fin
  /\ main[2] \in {"second", "done"}

UnitsOK ==
  \A d \in Dirs : /\ got[d] + UnderWay(d) <= sent[d]
                  /\ ~ fault => got[d] + UnderWay(d) = sent[d]

CopyOK(p, d) ==
  /\ ~ fault /\ copy[<<p, d>>] = "ok" => Delivered(Source(p, d)) \/ Truncates(p, d)
  /\ ~ fault /\ copy[<<p, d>>] = "error" => Truncates(p, d)
  /\ ~ fault /\ Sink(p, d) \in fin => Delivered(Source(p, d)) \/ Truncates(p, d)

PipeTypes == data \in [Pipes -> 0..Window]

UnitTypes == sent \in [Dirs -> 0..MaxSent] /\ got \in [Dirs -> 0..MaxSent]

FlowTypes ==
  /\ DOMAIN main = Proxies
  /\ main[1] \in {"accept", "route", "open", "await", "first", "second", "done"}
  /\ main[2] \in {"none", "request", "dial", "reply", "first", "second", "done"}
  /\ copy \in [Proxies \X Dirs -> {"off", "run", "ok", "error"}]
  /\ answer \in {"none", "accepted", "refused"}
  /\ dialled \in BOOLEAN /\ dns \in BOOLEAN /\ fault \in BOOLEAN

\* Handler p has left no connection behind.
Closed(p) ==
  /\ (p = 1 \/ dialled) => Writes(p, TCPLink(p)) \in fin
  /\ main[2] # "none" => Writes(p, 2) \in fin \/ Writes(p, 2) \in reset

NoReset == ~ fault => \A q \in Pipes : q \notin reset

TCPInv ==
  /\ PipeTypes /\ UnitTypes /\ FlowTypes /\ SetUpOK /\ UnitsOK
  /\ NoReset
  /\ \A p \in Proxies, d \in Dirs : CopyOK(p, d)
  /\ \A p \in Proxies : main[p] = "done" => Closed(p)

-----------------------------------------------------------------------------
\* The two directions and their ends.
LEMMA PipeNames ==
  /\ Pipes = {<<1, "fwd">>, <<2, "fwd">>, <<3, "fwd">>, <<1, "bwd">>, <<2, "bwd">>, <<3, "bwd">>}
  /\ Proxies = {1, 2}
  /\ Source(1, "fwd") = <<1, "fwd">> /\ Sink(1, "fwd") = <<2, "fwd">>
  /\ Source(2, "fwd") = <<2, "fwd">> /\ Sink(2, "fwd") = <<3, "fwd">>
  /\ Source(1, "bwd") = <<2, "bwd">> /\ Sink(1, "bwd") = <<1, "bwd">>
  /\ Source(2, "bwd") = <<3, "bwd">> /\ Sink(2, "bwd") = <<2, "bwd">>
  /\ First("fwd") = <<1, "fwd">> /\ Last("fwd") = <<3, "fwd">>
  /\ First("bwd") = <<3, "bwd">> /\ Last("bwd") = <<1, "bwd">>
  /\ Reads(1, 1) = <<1, "fwd">> /\ Writes(1, 1) = <<1, "bwd">> /\ Writes(1, 2) = <<2, "fwd">>
  /\ Reads(2, 3) = <<3, "bwd">> /\ Writes(2, 3) = <<3, "fwd">> /\ Writes(2, 2) = <<2, "bwd">>
  /\ TCPLink(1) = 1 /\ TCPLink(2) = 3
<1>1. Links = {1, 2, 3} /\ Proxies = {1, 2}
  BY DEF Links, Proxies
<1> QED BY <1>1 DEF Pipes, Dirs, Source, Sink, First, Last, Reads, Writes, TCPLink

\* The parts of the type of one direction.
LEMMA PipeTypesOf ==
  ASSUME NEW p \in Proxies, NEW d \in Dirs
  PROVE  /\ Source(p, d) \in Pipes /\ Sink(p, d) \in Pipes /\ First(d) \in Pipes /\ Last(d) \in Pipes
         /\ <<p, d>> \in Proxies \X Dirs
         /\ Writes(p, 2) \in Pipes /\ Writes(p, TCPLink(p)) \in Pipes /\ Reads(p, TCPLink(p)) \in Pipes
BY PipeNames, Zenon DEF Dirs

\* Apply closes and resets pipes, and undoes neither.
LEMMA Applied ==
  ASSUME PipeTypes, NEW c, Apply(c), UNCHANGED data
  PROVE  /\ PipeTypes'
         /\ \A q \in Pipes : q \in fin' <=> q \in fin \/ q \in c.f
         /\ \A q \in Pipes : q \in reset' <=> q \in reset \/ q \in c.r
BY Zenon DEF PipeTypes, Apply

Grows ==
  /\ PipeTypes' /\ UNCHANGED <<data, sent, got>>
  /\ \A q \in Pipes : (q \in fin => q \in fin') /\ (q \in reset => q \in reset')

CopiesStart == \A p \in Proxies, d \in Dirs : copy'[<<p, d>>] \in {copy[<<p, d>>], "run"}

\* A step that is a fault, or after one, has nothing to keep but what was delivered.
LEMMA FaultStep ==
  ASSUME TCPInv, Grows, CopiesStart, fault'
  PROVE  UnitTypes' /\ UnitsOK' /\ NoReset' /\ \A p \in Proxies, d \in Dirs : CopyOK(p, d)'
<1>1. UnitTypes' /\ UnitsOK'
  BY Zenon DEF TCPInv, Grows, UnitTypes, UnitsOK, UnderWay
<1>2. ASSUME NEW p \in Proxies, NEW d \in Dirs PROVE CopyOK(p, d)'
  BY PipeTypesOf, Zenon DEF TCPInv, Grows, CopiesStart, CopyOK, Delivered
<1> QED BY <1>1, <1>2, Zenon DEF NoReset

\* A step that closes nothing.
LEMMA QuietStep ==
  ASSUME TCPInv, UNCHANGED <<data, fin, reset, sent, got, fault>>, CopiesStart,
         Truncates(2, "fwd") => Truncates(2, "fwd")'
  PROVE  /\ Grows /\ UnitTypes' /\ UnitsOK' /\ NoReset'
         /\ \A p \in Proxies, d \in Dirs : CopyOK(p, d)'
<1>1. Grows /\ UnitTypes' /\ UnitsOK' /\ NoReset'
  BY Zenon DEF TCPInv, PipeTypes, Grows, UnitTypes, UnitsOK, UnderWay, NoReset
<1>2. ASSUME NEW p \in Proxies, NEW d \in Dirs PROVE CopyOK(p, d)'
  BY PipeTypesOf DEF TCPInv, CopiesStart, CopyOK, Delivered, Truncates
<1> QED BY <1>1, <1>2, Zenon

\* What was left closed stays closed.
LEMMA ClosedStep ==
  ASSUME TCPInv, Grows,
         NEW p \in Proxies, Closed(p),
         dialled' => dialled, main'[2] # "none" => main[2] # "none"
  PROVE  Closed(p)'
BY PipeTypesOf, Zenon DEF Closed, Grows, Dirs

\* Step moves one handler and leaves the other.
LEMMA MainStep ==
  ASSUME DOMAIN main = Proxies, NEW p \in Proxies, NEW v, Step(p, v)
  PROVE  DOMAIN main' = Proxies /\ main'[p] = v /\ \A o \in Proxies \ {p} : main'[o] = main[o]
BY Zenon DEF Step

\* An edge that denies a connection closes what it holds of it.
LEMMA DenyCloses ==
  ASSUME TCPInv, NEW b \in BOOLEAN, Deny(b), UNCHANGED <<data, sent, got, dialled>>,
         b \/ main[2] = "none"
  PROVE  /\ Grows /\ fault' = TRUE /\ Closed(1)'
         /\ DOMAIN main' = Proxies /\ main'[1] = "done" /\ main'[2] = main[2]
<1>1. DOMAIN main' = Proxies /\ main'[1] = "done" /\ main'[2] = main[2]
  BY MainStep, PipeNames DEF TCPInv, FlowTypes, Deny
<1> DEFINE c == IF b THEN Both(CancelStream, CloseTCP(1, 1)) ELSE CloseTCP(1, 1)
<1>2. /\ PipeTypes'
      /\ \A q \in Pipes : q \in fin' <=> q \in fin \/ q \in c.f
      /\ \A q \in Pipes : q \in reset' <=> q \in reset \/ q \in c.r
  <2>1. PipeTypes /\ Apply(c)
    BY Zenon DEF TCPInv, Deny
  <2> HIDE DEF c
  <2> QED BY <2>1, Applied, Zenon
<1>3. Grows /\ fault' = TRUE
  BY <1>2, Zenon DEF Grows, Deny
<1>4. <<1, "bwd">> \in c.f
  BY PipeNames, Zenon DEF CloseTCP, Both
<1>5. b /\ ~ Delivered(<<2, "fwd">>) => <<2, "fwd">> \in c.r
  BY Zenon DEF CancelStream, Both, Dirs
<1> HIDE DEF c
<1>6. <<1, "bwd">> \in fin'
  BY <1>2, <1>4, PipeNames, Zenon
<1>7. b => <<2, "fwd">> \in fin' \/ <<2, "fwd">> \in reset'
  BY <1>2, <1>5, PipeNames, Zenon DEF Delivered
<1> QED BY <1>1, <1>3, <1>6, <1>7, PipeNames, Zenon DEF Closed

\* The invariant, part by part.
LEMMA TCPParts ==
  ASSUME PipeTypes', UnitTypes', FlowTypes', SetUpOK', UnitsOK', NoReset',
         \A p \in Proxies, d \in Dirs : CopyOK(p, d)',
         main'[1] = "done" => Closed(1)', main'[2] = "done" => Closed(2)'
  PROVE  TCPInv'
BY PipeNames, Zenon DEF TCPInv

\* acceptTCP, route() and OpenStreamSync end the handler or go on.
LEMMA EdgeDenies ==
  ASSUME TCPInv, NEW b \in BOOLEAN, Deny(b), UNCHANGED <<data, sent, got, copy, answer, dialled, dns>>,
         b \/ main[2] = "none"
  PROVE  TCPInv'
<1>1. /\ Grows /\ fault' = TRUE /\ Closed(1)'
      /\ DOMAIN main' = Proxies /\ main'[1] = "done" /\ main'[2] = main[2]
  BY DenyCloses, Zenon
<1>2. CopiesStart
  BY Zenon DEF CopiesStart
<1>3. UnitTypes' /\ UnitsOK' /\ NoReset' /\ \A p \in Proxies, d \in Dirs : CopyOK(p, d)'
  BY <1>1, <1>2, FaultStep, Zenon
<1>4. FlowTypes' /\ SetUpOK'
  BY <1>1, Zenon DEF TCPInv, FlowTypes, SetUpOK
<1>5. main'[2] = "done" => Closed(2)'
  BY <1>1, ClosedStep, PipeNames, Zenon DEF TCPInv
<1> QED BY <1>1, <1>3, <1>4, <1>5, TCPParts, Zenon DEF Grows

\* The steps of the edge towards its copies, the start of the copies included, keep the invariant.
LEMMA EdgeGoesOn ==
  ASSUME TCPInv, UNCHANGED <<data, fin, reset, sent, got, answer, dialled, dns, fault>>, CopiesStart,
         copy' \in [Proxies \X Dirs -> {"off", "run", "ok", "error"}],
         DOMAIN main' = Proxies, main[1] # "done", main'[1] \in {"route", "open", "await", "first"},
         \/ main'[2] = main[2]
         \/ main[2] = "none" /\ main'[2] = "request",
         main'[1] \in {"route", "open"} => main'[2] = "none"
  PROVE  TCPInv'
<1>1. Truncates(2, "fwd") => Truncates(2, "fwd")'
  BY Zenon DEF Truncates
<1>2. /\ Grows /\ UnitTypes' /\ UnitsOK' /\ NoReset'
      /\ \A p \in Proxies, d \in Dirs : CopyOK(p, d)'
  BY <1>1, QuietStep, Zenon
<1>3. FlowTypes' /\ SetUpOK'
  BY DEF TCPInv, FlowTypes, SetUpOK
<1>4. main'[2] = "done" => Closed(2)'
  BY <1>2, ClosedStep, PipeNames, Zenon DEF TCPInv
<1> QED BY <1>2, <1>3, <1>4, TCPParts, Zenon DEF Grows

\* Edge keeps the invariant.
LEMMA EdgeKeeps ==
  ASSUME TCPInv, Edge
  PROVE  TCPInv'
<1>0. DOMAIN main = Proxies /\ 1 \in Proxies /\ 2 \in Proxies
      /\ copy \in [Proxies \X Dirs -> {"off", "run", "ok", "error"}]
  BY PipeNames, Zenon DEF TCPInv, FlowTypes
<1>1. CASE acceptTCP
  <2>1. main[1] = "accept" /\ main[2] = "none" /\ UNCHANGED <<data, sent, got, copy, answer, dialled, dns>>
    BY <1>1, Zenon DEF acceptTCP, marks, TCPInv, SetUpOK
  <2>2. CASE Step(1, "route") /\ UNCHANGED <<fin, reset, fault>>
    <3>1. DOMAIN main' = Proxies /\ main'[1] = "route" /\ main'[2] = main[2]
      BY <1>0, <2>2, MainStep
    <3> QED BY <1>0, <2>1, <2>2, <3>1, EdgeGoesOn, Zenon DEF CopiesStart
  <2>3. CASE Deny(FALSE)
    BY <2>1, <2>3, EdgeDenies, Zenon
  <2> QED BY <1>1, <2>2, <2>3, Zenon DEF acceptTCP, marks
<1>2. CASE FindRoute
  <2>1. main[1] = "route" /\ main[2] = "none" /\ UNCHANGED <<data, sent, got, copy, answer, dialled, dns>>
    BY <1>2, Zenon DEF FindRoute, marks, TCPInv, SetUpOK
  <2>2. CASE Step(1, "open") /\ UNCHANGED <<fin, reset, fault>>
    <3>1. DOMAIN main' = Proxies /\ main'[1] = "open" /\ main'[2] = main[2]
      BY <1>0, <2>2, MainStep
    <3> QED BY <1>0, <2>1, <2>2, <3>1, EdgeGoesOn, Zenon DEF CopiesStart
  <2>3. CASE Deny(FALSE)
    BY <2>1, <2>3, EdgeDenies, Zenon
  <2> QED BY <1>2, <2>2, <2>3, Zenon DEF FindRoute, marks
<1>3. CASE OpenTCP
  <2>1. main[1] = "open" /\ main[2] = "none" /\ UNCHANGED <<data, sent, got, copy, answer, dialled, dns>>
    BY <1>3, Zenon DEF OpenTCP, marks, TCPInv, SetUpOK
  <2>2. CASE main' = [main EXCEPT ![1] = "await", ![2] = "request"] /\ UNCHANGED <<fin, reset, fault>>
    <3>1. DOMAIN main' = Proxies /\ main'[1] = "await" /\ main'[2] = "request"
      BY <1>0, <2>2
    <3> QED BY <1>0, <2>1, <2>2, <3>1, EdgeGoesOn, Zenon DEF CopiesStart
  <2>3. CASE Deny(FALSE)
    BY <2>1, <2>3, EdgeDenies, Zenon
  <2> QED BY <1>3, <2>2, <2>3, Zenon DEF OpenTCP, marks
<1>4. CASE OpenFails
  <2>1. main[1] = "open" /\ main[2] = "none" /\ UNCHANGED <<data, sent, got, copy, answer, dialled, dns>>
        /\ DOMAIN main' = Proxies /\ main'[1] = "done" /\ main'[2] = "request" /\ fault' = TRUE
    BY <1>0, <1>4, Zenon DEF OpenFails, TCPInv, SetUpOK
  <2> DEFINE c == Both(CancelStream, CloseTCP(1, 1))
  <2>2. /\ PipeTypes'
        /\ \A q \in Pipes : q \in fin' <=> q \in fin \/ q \in c.f
        /\ \A q \in Pipes : q \in reset' <=> q \in reset \/ q \in c.r
    <3>1. PipeTypes /\ Apply(c)
      BY <1>4, Zenon DEF TCPInv, OpenFails
    <3> HIDE DEF c
    <3> QED BY <2>1, <3>1, Applied, Zenon
  <2>3. <<1, "bwd">> \in c.f /\ (~ Delivered(<<2, "fwd">>) => <<2, "fwd">> \in c.r)
    BY PipeNames, Zenon DEF CloseTCP, CancelStream, Both, Dirs
  <2> HIDE DEF c
  <2>4. Grows /\ CopiesStart
    BY <2>1, <2>2, Zenon DEF Grows, CopiesStart
  <2>5. UnitTypes' /\ UnitsOK' /\ NoReset' /\ \A p \in Proxies, d \in Dirs : CopyOK(p, d)'
    BY <2>1, <2>4, FaultStep, Zenon
  <2>6. Closed(1)'
    <3>1. <<1, "bwd">> \in fin'
      BY <2>2, <2>3, PipeNames, Zenon
    <3>2. <<2, "fwd">> \in fin' \/ <<2, "fwd">> \in reset'
      BY <2>2, <2>3, PipeNames, Zenon DEF Delivered
    <3> QED BY <3>1, <3>2, PipeNames, Zenon DEF Closed
  <2>7. FlowTypes' /\ SetUpOK'
    BY <2>1, Zenon DEF TCPInv, FlowTypes, SetUpOK
  <2> QED BY <2>1, <2>2, <2>5, <2>6, <2>7, TCPParts, Zenon
<1>5. CASE Answered
  <2>1. main[1] = "await" /\ UNCHANGED <<data, sent, got, answer, dialled, dns>>
    BY <1>5, Zenon DEF Answered, marks
  <2>2. CASE /\ Step(1, "first") /\ UNCHANGED <<fin, reset, fault>>
             /\ copy' = [g \in Proxies \X Dirs |-> IF g[1] = 1 THEN "run" ELSE copy[g]]
    <3>1. DOMAIN main' = Proxies /\ main'[1] = "first" /\ main'[2] = main[2]
      BY <1>0, <2>2, MainStep
    <3>2. CopiesStart /\ copy' \in [Proxies \X Dirs -> {"off", "run", "ok", "error"}]
      BY <1>0, <2>2, Zenon DEF CopiesStart
    <3> QED BY <2>1, <2>2, <3>1, <3>2, EdgeGoesOn, Zenon
  <2>3. CASE Deny(TRUE) /\ UNCHANGED copy
    BY <2>1, <2>3, EdgeDenies, Zenon
  <2> QED BY <1>5, <2>2, <2>3, Zenon DEF Answered, marks
<1> QED BY <1>1, <1>2, <1>3, <1>4, <1>5, Zenon DEF Edge

\* A connector that gives up, closing what it holds, keeps the invariant.
LEMMA ConnectorEnds ==
  ASSUME TCPInv, main[2] \in {"request", "dial", "reply"}, Step(2, "done"), NEW c, Apply(c),
         fault' = TRUE, UNCHANGED <<data, sent, got, copy, dialled, dns>>,
         answer' \in {"none", "accepted", "refused"},
         dialled => <<3, "fwd">> \in c.f,
         <<2, "bwd">> \in c.f \/ (~ Delivered(<<2, "bwd">>) => <<2, "bwd">> \in c.r)
  PROVE  TCPInv'
<1>1. DOMAIN main' = Proxies /\ main'[2] = "done" /\ main'[1] = main[1]
  BY MainStep, PipeNames DEF TCPInv, FlowTypes
<1>2. /\ PipeTypes'
      /\ \A q \in Pipes : q \in fin' <=> q \in fin \/ q \in c.f
      /\ \A q \in Pipes : q \in reset' <=> q \in reset \/ q \in c.r
  BY Applied, Zenon DEF TCPInv
<1>3. Grows /\ CopiesStart
  BY <1>2, Zenon DEF Grows, CopiesStart
<1>4. UnitTypes' /\ UnitsOK' /\ NoReset' /\ \A p \in Proxies, d \in Dirs : CopyOK(p, d)'
  BY <1>3, FaultStep, Zenon
<1>5. FlowTypes' /\ SetUpOK'
  BY <1>1, Zenon DEF TCPInv, FlowTypes, SetUpOK
<1>6. main'[1] = "done" => Closed(1)'
  BY <1>1, <1>3, ClosedStep, PipeNames, Zenon DEF TCPInv
<1>7. Closed(2)'
  <2>1. dialled => <<3, "fwd">> \in fin'
    BY <1>2, PipeNames, Zenon
  <2>2. <<2, "bwd">> \in fin' \/ <<2, "bwd">> \in reset'
    BY <1>2, PipeNames, Zenon DEF Delivered
  <2> QED BY <2>1, <2>2, PipeNames DEF Closed
<1> QED BY <1>1, <1>2, <1>4, <1>5, <1>6, <1>7, TCPParts, Zenon

\* The steps of the connector towards its copies, their start included, keep the invariant.
LEMMA ConnectorGoesOn ==
  ASSUME TCPInv, UNCHANGED <<data, fin, reset, sent, got, fault>>, CopiesStart,
         copy' \in [Proxies \X Dirs -> {"off", "run", "ok", "error"}],
         answer' \in {"none", "accepted", "refused"},
         main[2] \in {"request", "dial", "reply"}, NEW v \in {"dial", "reply", "first"}, Step(2, v),
         \/ UNCHANGED <<dialled, dns>>
         \/ v = "reply" /\ dialled' \in BOOLEAN /\ dns' \in BOOLEAN,
         v = "dial" => main[2] = "request"
  PROVE  TCPInv'
<1>1. DOMAIN main' = Proxies /\ main'[2] = v /\ main'[1] = main[1]
  BY MainStep, PipeNames DEF TCPInv, FlowTypes
<1>2. Truncates(2, "fwd") => Truncates(2, "fwd")'
  BY Zenon DEF Truncates
<1>3. /\ Grows /\ UnitTypes' /\ UnitsOK' /\ NoReset'
      /\ \A p \in Proxies, d \in Dirs : CopyOK(p, d)'
  BY <1>2, QuietStep, Zenon
<1>4. FlowTypes' /\ SetUpOK'
  BY <1>1 DEF TCPInv, FlowTypes, SetUpOK
<1>5. main'[1] = "done" => Closed(1)'
  <2>1. main'[1] = "done" => Closed(1)
    BY <1>1, PipeNames, Zenon DEF TCPInv
  <2> QED BY <1>1, <2>1, PipeNames, Zenon DEF Closed
<1> QED BY <1>1, <1>3, <1>4, <1>5, TCPParts, Zenon DEF Grows

\* Connector keeps the invariant.
LEMMA ConnectorKeeps ==
  ASSUME TCPInv, Connector
  PROVE  TCPInv'
<1>0. /\ answer \in {"none", "accepted", "refused"}
      /\ copy \in [Proxies \X Dirs -> {"off", "run", "ok", "error"}]
      /\ CloseStream(2).f = {<<2, "bwd">>}
      /\ ~ Delivered(<<2, "bwd">>) => <<2, "bwd">> \in CancelStream.r
  BY PipeNames, Zenon DEF TCPInv, FlowTypes, CloseStream, CancelStream, Dirs
<1>1. CASE ReadRequest
  <2>1. main[2] = "request" /\ ~ dialled /\ UNCHANGED <<data, sent, got, copy, dialled, dns>>
    BY <1>1, Zenon DEF ReadRequest, marks, TCPInv, SetUpOK
  <2>2. CASE Step(2, "dial") /\ UNCHANGED <<fin, reset, answer, fault>>
    BY <1>0, <2>1, <2>2, ConnectorGoesOn, Zenon DEF CopiesStart
  <2>3. CASE Refuse
    BY <1>0, <2>1, <2>3, ConnectorEnds, Zenon DEF Refuse
  <2>4. CASE Step(2, "done") /\ Apply(CancelStream) /\ fault' = TRUE /\ UNCHANGED answer
    BY <1>0, <2>1, <2>4, ConnectorEnds, Zenon
  <2> QED BY <1>1, <2>2, <2>3, <2>4, Zenon DEF ReadRequest, marks
<1>2. CASE DialUpstream
  <2>1. main[2] = "dial" /\ ~ dialled /\ UNCHANGED <<data, sent, got, copy>>
    BY <1>2, Zenon DEF DialUpstream, marks, TCPInv, SetUpOK
  <2>2. CASE /\ Step(2, "reply") /\ dialled' = TRUE /\ dns' \in BOOLEAN
             /\ UNCHANGED <<fin, reset, answer, fault>>
    BY <1>0, <2>1, <2>2, ConnectorGoesOn, Zenon DEF CopiesStart
  <2>3. CASE Refuse /\ UNCHANGED <<dialled, dns>>
    BY <1>0, <2>1, <2>3, ConnectorEnds, Zenon DEF Refuse
  <2> QED BY <1>2, <2>2, <2>3, Zenon DEF DialUpstream, marks
<1>3. CASE Accept
  <2>1. main[2] = "reply" /\ UNCHANGED <<data, sent, got, dialled, dns>>
    BY <1>3, Zenon DEF Accept, marks
  <2>2. CASE /\ Step(2, "first") /\ answer' = "accepted" /\ UNCHANGED <<fin, reset, fault>>
             /\ copy' = [g \in Proxies \X Dirs |-> IF g[1] = 2 THEN "run" ELSE copy[g]]
    <3>1. CopiesStart /\ copy' \in [Proxies \X Dirs -> {"off", "run", "ok", "error"}]
      BY <1>0, <2>2, Zenon DEF CopiesStart
    <3> QED BY <2>1, <2>2, <3>1, ConnectorGoesOn, Zenon
  <2>3. CASE /\ Step(2, "done") /\ Apply(Both(CloseTCP(2, 3), CancelStream)) /\ fault' = TRUE
             /\ UNCHANGED <<answer, copy>>
    <3>1. <<3, "fwd">> \in Both(CloseTCP(2, 3), CancelStream).f
      BY PipeNames, Zenon DEF Both, CloseTCP
    <3>2. ~ Delivered(<<2, "bwd">>) => <<2, "bwd">> \in Both(CloseTCP(2, 3), CancelStream).r
      BY <1>0, Zenon DEF Both
    <3> QED BY <1>0, <2>1, <2>3, <3>1, <3>2, ConnectorEnds, Zenon
  <2> QED BY <1>3, <2>2, <2>3, Zenon DEF Accept, marks
<1> QED BY <1>1, <1>2, <1>3, Zenon DEF Connector

\* A step that only moves data keeps the invariant.
LEMMA DataStep ==
  ASSUME TCPInv, PipeTypes', UnitTypes', UnitsOK',
         UNCHANGED <<fin, reset, main, copy, answer, dialled, dns, fault>>,
         \A q \in Pipes : Delivered(q) => data'[q] = 0
  PROVE  TCPInv'
<1>1. FlowTypes' /\ SetUpOK' /\ NoReset'
  BY DEF TCPInv, FlowTypes, SetUpOK, NoReset
<1>2. ASSUME NEW p \in Proxies, NEW d \in Dirs PROVE CopyOK(p, d)'
  BY PipeTypesOf, Zenon DEF TCPInv, CopyOK, Delivered, Truncates
<1>3. ASSUME NEW p \in Proxies, main'[p] = "done" PROVE Closed(p)'
  BY <1>3, Zenon DEF TCPInv, Closed
<1> QED BY <1>1, <1>2, <1>3, Zenon DEF TCPInv

\* The three links of a direction hold whole units.
LEMMA UnderWayCounts ==
  ASSUME data \in [Pipes -> 0..Window], NEW d \in Dirs
  PROVE  /\ UnderWay(d) \in Int
         /\ data[Last(d)] > 0 => UnderWay(d) > 0
<1>1. /\ <<1, d>> \in Pipes /\ <<2, d>> \in Pipes /\ <<3, d>> \in Pipes
      /\ Last(d) \in {<<1, d>>, <<3, d>>}
  BY PipeNames, Zenon DEF Dirs
<1>2. \A q \in Pipes : data[q] \in Nat
  BY FlowAssumption
<1> QED BY ONLY <1>1, <1>2 DEF UnderWay

\* A step that moves units from one place to the next loses none of them.
LEMMA UnitsMove ==
  ASSUME TCPInv, data' \in [Pipes -> 0..Window], fault' = fault,
         \A d \in Dirs : /\ sent'[d] \in Int /\ got'[d] \in Int
                         /\ got'[d] + UnderWay(d)' - sent'[d] = got[d] + UnderWay(d) - sent[d]
  PROVE  UnitsOK'
<1>1. data \in [Pipes -> 0..Window] /\ UnitsOK
  BY Zenon DEF TCPInv, PipeTypes
<1>2. ASSUME NEW d \in Dirs
      PROVE  /\ UnderWay(d) \in Int /\ UnderWay(d)' \in Int /\ sent[d] \in Int /\ got[d] \in Int
             /\ sent'[d] \in Int /\ got'[d] \in Int
             /\ got'[d] + UnderWay(d)' - sent'[d] = got[d] + UnderWay(d) - sent[d]
             /\ got[d] + UnderWay(d) <= sent[d]
             /\ ~ fault => got[d] + UnderWay(d) = sent[d]
  <2>1. UnderWay(d) \in Int
    BY <1>1, UnderWayCounts, Zenon
  <2>2. UnderWay(d)' \in Int
    <3>1. /\ <<1, d>> \in Pipes /\ <<2, d>> \in Pipes /\ <<3, d>> \in Pipes
      BY PipeNames, Zenon DEF Dirs
    <3>2. \A q \in Pipes : data'[q] \in Int
      BY FlowAssumption
    <3> QED BY ONLY <3>1, <3>2 DEF UnderWay
  <2>3. sent[d] \in Int /\ got[d] \in Int
    BY FlowAssumption DEF TCPInv, UnitTypes
  <2> QED BY <1>1, <2>1, <2>2, <2>3, Zenon DEF UnitsOK
<1> QED BY ONLY <1>2, fault' = fault DEF UnitsOK

\* Only direction d counts other units under way when its pipes change.
LEMMA CopyDataKeeps ==
  ASSUME TCPInv, NEW p \in Proxies, NEW d \in Dirs, CopyData(p, d)
  PROVE  TCPInv'
<1> DEFINE in == Source(p, d)
           out == Sink(p, d)
<1>1. in \in Pipes /\ out \in Pipes /\ in # out
  BY PipeNames, PipeTypesOf DEF Dirs
<1>2. /\ data[in] > 0 /\ data[out] < Window /\ out \notin fin
      /\ data' = [data EXCEPT ![in] = @ - 1, ![out] = @ + 1]
      /\ UNCHANGED <<fin, reset, sent, got, main, copy, answer, dialled, dns, fault>>
  BY Zenon DEF CopyData, marks
<1>3. data \in [Pipes -> 0..Window]
  BY Zenon DEF TCPInv, PipeTypes
<1>4. /\ data' \in [Pipes -> 0..Window]
      /\ \A q \in Pipes : /\ data[q] \in Int
                           /\ data'[q] = IF q = in THEN data[in] - 1
                                         ELSE IF q = out THEN data[out] + 1 ELSE data[q]
  <2> HIDE DEF in, out
  <2> QED BY <1>1, <1>2, <1>3, FlowAssumption
<1>5. ASSUME NEW e \in Dirs PROVE UnderWay(e)' = UnderWay(e)
  <2>1. CASE d = "fwd" /\ p = 1
    BY ONLY <1>4, <2>1, PipeNames, e \in Dirs, SMTT(60) DEF UnderWay, Dirs
  <2>2. CASE d = "fwd" /\ p = 2
    BY ONLY <1>4, <2>2, PipeNames, e \in Dirs, SMTT(60) DEF UnderWay, Dirs
  <2>3. CASE d = "bwd" /\ p = 1
    BY ONLY <1>4, <2>3, PipeNames, e \in Dirs, SMTT(60) DEF UnderWay, Dirs
  <2>4. CASE d = "bwd" /\ p = 2
    BY ONLY <1>4, <2>4, PipeNames, e \in Dirs DEF UnderWay, Dirs
  <2> QED BY <2>1, <2>2, <2>3, <2>4, PipeNames, Zenon DEF Dirs
<1> HIDE DEF in, out
<1>6. \A q \in Pipes : Delivered(q) => data'[q] = 0
  BY <1>2, <1>4 DEF Delivered
<1>7. PipeTypes' /\ UnitTypes'
  BY <1>2, <1>4, Zenon DEF TCPInv, PipeTypes, UnitTypes
<1>8. UnitsOK'
  <2>1. \A e \in Dirs : sent[e] \in Int /\ got[e] \in Int
    BY FlowAssumption DEF TCPInv, UnitTypes
  <2>2. \A e \in Dirs : /\ sent'[e] \in Int /\ got'[e] \in Int
                        /\ got'[e] + UnderWay(e)' - sent'[e] = got[e] + UnderWay(e) - sent[e]
    BY <1>2, <1>5, <2>1, Zenon
  <2> QED BY <1>2, <1>4, <2>2, UnitsMove, Zenon
<1> QED BY <1>2, <1>6, <1>7, <1>8, DataStep, ZenonT(60)

\* Send keeps the invariant.
LEMMA SendKeeps ==
  ASSUME TCPInv, NEW d \in Dirs, Send(d)
  PROVE  TCPInv'
<1> DEFINE q == First(d)
<1>1. /\ q \in Pipes /\ sent[d] < MaxSent /\ data[q] < Window /\ q \notin fin
      /\ data' = [data EXCEPT ![q] = @ + 1] /\ sent' = [sent EXCEPT ![d] = @ + 1]
      /\ UNCHANGED <<fin, reset, got, main, copy, answer, dialled, dns, fault>>
  BY PipeNames, Zenon DEF Send, marks, Dirs
<1>2. data \in [Pipes -> 0..Window] /\ sent \in [Dirs -> 0..MaxSent] /\ got \in [Dirs -> 0..MaxSent]
  BY Zenon DEF TCPInv, PipeTypes, UnitTypes
<1>3. /\ data' \in [Pipes -> 0..Window] /\ sent' \in [Dirs -> 0..MaxSent]
      /\ \A r \in Pipes : data[r] \in Int /\ data'[r] = IF r = q THEN data[r] + 1 ELSE data[r]
      /\ \A e \in Dirs : /\ sent[e] \in Int /\ sent'[e] \in Int /\ got[e] \in Int
                          /\ sent'[e] = IF e = d THEN sent[e] + 1 ELSE sent[e]
  <2> HIDE DEF q
  <2> QED BY ONLY <1>1, <1>2, FlowAssumption, d \in Dirs
<1>4. ASSUME NEW e \in Dirs
      PROVE  got[e] + UnderWay(e)' - sent'[e] = got[e] + UnderWay(e) - sent[e]
  <2>1. CASE d = "fwd"
    BY ONLY <1>3, <2>1, PipeNames, e \in Dirs, SMTT(60) DEF UnderWay, Dirs
  <2>2. CASE d = "bwd"
    BY ONLY <1>3, <2>2, PipeNames, e \in Dirs, SMTT(60) DEF UnderWay, Dirs
  <2> QED BY <2>1, <2>2, Zenon DEF Dirs
<1> HIDE DEF q
<1>5. \A r \in Pipes : Delivered(r) => data'[r] = 0
  BY <1>1, <1>3, Zenon DEF Delivered
<1>6. PipeTypes' /\ UnitTypes'
  BY <1>1, <1>3, Zenon DEF TCPInv, PipeTypes, UnitTypes
<1>7. UnitsOK'
  <2>1. \A e \in Dirs : /\ sent'[e] \in Int /\ got'[e] \in Int
                        /\ got'[e] + UnderWay(e)' - sent'[e] = got[e] + UnderWay(e) - sent[e]
    BY <1>1, <1>3, <1>4, Zenon
  <2> QED BY <1>1, <1>3, <2>1, UnitsMove, Zenon
<1> QED BY <1>1, <1>5, <1>6, <1>7, DataStep, Zenon

\* Take keeps the invariant.
LEMMA TakeKeeps ==
  ASSUME TCPInv, NEW d \in Dirs, Take(d)
  PROVE  TCPInv'
<1> DEFINE q == Last(d)
<1>1. /\ q \in Pipes /\ data[q] > 0
      /\ data' = [data EXCEPT ![q] = @ - 1] /\ got' = [got EXCEPT ![d] = @ + 1]
      /\ UNCHANGED <<fin, reset, sent, main, copy, answer, dialled, dns, fault>>
  BY PipeNames, Zenon DEF Take, marks, Dirs
<1>2. data \in [Pipes -> 0..Window] /\ sent \in [Dirs -> 0..MaxSent] /\ got \in [Dirs -> 0..MaxSent]
  BY Zenon DEF TCPInv, PipeTypes, UnitTypes
<1>3. got[d] < MaxSent
  <2>1. UnderWay(d) \in Int /\ UnderWay(d) > 0
    BY <1>1, <1>2, UnderWayCounts, Zenon
  <2>2. got[d] + UnderWay(d) <= sent[d]
    BY Zenon DEF TCPInv, UnitsOK
  <2>3. got[d] \in 0..MaxSent /\ sent[d] \in 0..MaxSent
    BY <1>2, Zenon
  <2> QED BY ONLY <2>1, <2>2, <2>3, FlowAssumption
<1>4. /\ data' \in [Pipes -> 0..Window] /\ got' \in [Dirs -> 0..MaxSent]
      /\ \A r \in Pipes : data[r] \in Int /\ data'[r] = IF r = q THEN data[r] - 1 ELSE data[r]
      /\ \A e \in Dirs : /\ sent[e] \in Int /\ got'[e] \in Int /\ got[e] \in Int
                          /\ got'[e] = IF e = d THEN got[e] + 1 ELSE got[e]
  <2> HIDE DEF q
  <2> QED BY ONLY <1>1, <1>2, <1>3, FlowAssumption, d \in Dirs
<1>5. ASSUME NEW e \in Dirs
      PROVE  got'[e] + UnderWay(e)' - sent[e] = got[e] + UnderWay(e) - sent[e]
  <2>1. CASE d = "fwd"
    BY ONLY <1>4, <2>1, PipeNames, e \in Dirs, SMTT(60) DEF UnderWay, Dirs
  <2>2. CASE d = "bwd"
    BY ONLY <1>4, <2>2, PipeNames, e \in Dirs, SMTT(60) DEF UnderWay, Dirs
  <2> QED BY <2>1, <2>2, Zenon DEF Dirs
<1> HIDE DEF q
<1>6. \A r \in Pipes : Delivered(r) => data'[r] = 0
  BY <1>1, <1>2, <1>4 DEF Delivered
<1>7. PipeTypes' /\ UnitTypes'
  BY <1>1, <1>4, Zenon DEF TCPInv, PipeTypes, UnitTypes
<1>8. UnitsOK'
  <2>1. \A e \in Dirs : /\ sent'[e] \in Int /\ got'[e] \in Int
                        /\ got'[e] + UnderWay(e)' - sent'[e] = got[e] + UnderWay(e) - sent[e]
    BY <1>1, <1>4, <1>5, Zenon
  <2> QED BY <1>1, <1>4, <2>1, UnitsMove, Zenon
<1> QED BY <1>1, <1>6, <1>7, <1>8, DataStep, Zenon

\* The two copies of one proxy write to different ends.
LEMMA SinksDiffer ==
  ASSUME NEW p \in Proxies, NEW d \in Dirs, NEW o \in Proxies, NEW e \in Dirs, Sink(p, d) = Sink(o, e)
  PROVE  p = o /\ d = e
BY PipeNames DEF Dirs

\* The pipes after the end of a copy goroutine, and the results.
LEMMA ResultEffect ==
  ASSUME FlowTypes, NEW p \in Proxies, NEW d \in Dirs, NEW r \in {"ok", "error"},
         CopyResult(p, d, r)
  PROVE  /\ UNCHANGED reset
         /\ \A q \in Pipes : q \in fin => q \in fin'
         /\ \A q \in Pipes \ {Sink(p, d)} : (q \in fin' <=> q \in fin)
         /\ copy' \in [Proxies \X Dirs -> {"off", "run", "ok", "error"}]
         /\ copy'[<<p, d>>] \in {"ok", "error"} /\ (copy'[<<p, d>>] = r \/ Sink(p, d) \in reset)
         /\ \A o \in Proxies, e \in Dirs : <<o, e>> # <<p, d>> => copy'[<<o, e>>] = copy[<<o, e>>]
<1> DEFINE v == IF CloseSendFails(p, Sink(p, d)) THEN "error" ELSE r
<1>1. /\ fin' = fin \cup Ended(p, Sink(p, d)) /\ reset' = reset \cup {}
      /\ copy' = [copy EXCEPT ![<<p, d>>] = v]
  BY Zenon DEF CopyResult, Apply
<1>2. Ended(p, Sink(p, d)) \subseteq {Sink(p, d)}
  BY Zenon DEF Ended
<1>3. v \in {"ok", "error"} /\ (v = r \/ Sink(p, d) \in reset)
  BY Zenon DEF CloseSendFails
<1> HIDE DEF v
<1>4. /\ copy' \in [Proxies \X Dirs -> {"off", "run", "ok", "error"}] /\ copy'[<<p, d>>] = v
      /\ \A o \in Proxies, e \in Dirs : <<o, e>> # <<p, d>> => copy'[<<o, e>>] = copy[<<o, e>>]
  BY <1>1, <1>3, Zenon DEF FlowTypes
<1>5. reset' = reset
  BY <1>1, Zenon
<1> QED BY <1>1, <1>2, <1>3, <1>4, <1>5, Zenon

\* What a copy leaves behind when it returns.
LEMMA ResultStep ==
  ASSUME TCPInv, NEW p \in Proxies, NEW d \in Dirs, NEW r \in {"ok", "error"}, CopyResult(p, d, r),
         UNCHANGED <<data, sent, got, main, answer, dialled, dns>>,
         fault' \in {fault, TRUE},
         ~ fault' => Delivered(Source(p, d)) \/ Truncates(p, d),
         ~ fault' /\ r = "error" => Truncates(p, d)
  PROVE  TCPInv'
<1>1. /\ UNCHANGED reset
      /\ \A q \in Pipes : q \in fin => q \in fin'
      /\ \A q \in Pipes \ {Sink(p, d)} : (q \in fin' <=> q \in fin)
      /\ copy' \in [Proxies \X Dirs -> {"off", "run", "ok", "error"}]
      /\ copy'[<<p, d>>] \in {"ok", "error"} /\ (copy'[<<p, d>>] = r \/ Sink(p, d) \in reset)
      /\ \A o \in Proxies, e \in Dirs : <<o, e>> # <<p, d>> => copy'[<<o, e>>] = copy[<<o, e>>]
  BY ResultEffect, Zenon DEF TCPInv
<1>2. PipeTypes' /\ UnitTypes' /\ FlowTypes' /\ SetUpOK'
  BY <1>1, ZenonT(60) DEF TCPInv, PipeTypes, UnitTypes, FlowTypes, SetUpOK
<1>3. UnitsOK' /\ NoReset'
  BY <1>1, Zenon DEF TCPInv, UnitsOK, UnderWay, NoReset, FlowTypes
<1>4. \A q \in Pipes : Delivered(q) => Delivered(q)'
  BY <1>1, Zenon DEF Delivered
<1>5. ASSUME NEW o \in Proxies, NEW e \in Dirs PROVE CopyOK(o, e)'
  <2>0. Source(o, e) \in Pipes /\ Sink(o, e) \in Pipes
    BY PipeTypesOf, Zenon
  <2>1. Truncates(o, e) => Truncates(o, e)'
    BY <1>1, PipeNames, Zenon DEF Truncates
  <2>2. CopyOK(o, e) /\ (~ fault' => ~ fault)
    BY ZenonT(60) DEF TCPInv, FlowTypes
  <2>3. CASE o = p /\ e = d
    <3>1. ~ fault' => copy'[<<p, d>>] = r
      BY <1>1, <2>0, <2>2, <2>3, Zenon DEF TCPInv, NoReset
    <3> QED BY <1>4, <2>0, <2>1, <2>3, <3>1, Zenon DEF CopyOK
  <2>4. CASE <<o, e>> # <<p, d>>
    <3>1. (Sink(o, e) \in fin' <=> Sink(o, e) \in fin) /\ copy'[<<o, e>>] = copy[<<o, e>>]
      BY <1>1, <2>0, <2>4, SinksDiffer, SMTT(60)
    <3> QED BY <1>4, <2>0, <2>1, <2>2, <3>1, ZenonT(60) DEF CopyOK
  <2> QED BY <2>3, <2>4, Zenon
<1>6. Grows
  BY <1>1, <1>2, Zenon DEF Grows
<1>7. ASSUME NEW o \in Proxies, main'[o] = "done" PROVE Closed(o)'
  BY <1>6, <1>7, ClosedStep, Zenon DEF TCPInv
<1> QED BY <1>2, <1>3, <1>5, <1>7, Zenon DEF TCPInv

\* CopyEnds keeps the invariant.
LEMMA CopyEndsKeeps ==
  ASSUME TCPInv, NEW p \in Proxies, NEW d \in Dirs, CopyEnds(p, d)
  PROVE  TCPInv'
<1>1. /\ Delivered(Source(p, d)) /\ CopyResult(p, d, "ok")
      /\ UNCHANGED <<data, sent, got, main, answer, dialled, dns, fault>>
  BY Zenon DEF CopyEnds
<1> QED BY <1>1, ResultStep, Zenon

\* CopyFails keeps the invariant.
LEMMA CopyFailsKeeps ==
  ASSUME TCPInv, NEW p \in Proxies, NEW d \in Dirs, CopyFails(p, d)
  PROVE  TCPInv'
<1>1. PICK r \in {"ok", "error"} :
        /\ CopyResult(p, d, r)
        /\ UNCHANGED <<data, sent, got, main, answer, dialled, dns, fault>>
  BY Zenon DEF CopyFails, Failure
<1>2. ~ fault => Truncates(p, d)
  <2>1. ~ fault => data[Source(p, d)] > 0 /\ Sink(p, d) \in fin
    BY PipeTypesOf, Zenon DEF CopyFails, TCPInv, NoReset
  <2>2. CopyOK(p, d)
    BY Zenon DEF TCPInv
  <2> QED BY <2>1, <2>2, SMTT(60) DEF CopyOK, Delivered
<1> QED BY <1>1, <1>2, ResultStep, Zenon

\* DrainTimeout keeps the invariant.
LEMMA DrainTimeoutKeeps ==
  ASSUME TCPInv, DrainTimeout
  PROVE  TCPInv'
<1>1. /\ CopyResult(2, "bwd", "error") /\ fault' = TRUE
      /\ UNCHANGED <<data, sent, got, main, answer, dialled, dns>>
  BY Zenon DEF DrainTimeout
<1> QED BY <1>1, ResultStep, PipeNames, Zenon DEF Dirs

\* MessageRefused keeps the invariant.
LEMMA MessageRefusedKeeps ==
  ASSUME TCPInv, NEW d \in Dirs, MessageRefused(d)
  PROVE  TCPInv'
<1> DEFINE q == Source(2, d)
<1>1. /\ 2 \in Proxies /\ q \in Pipes
      /\ data[q] > 0 /\ data' = [data EXCEPT ![q] = @ - 1]
      /\ CopyResult(2, d, "error") /\ fault' = TRUE
      /\ UNCHANGED <<sent, got, main, answer, dialled, dns>>
  BY PipeNames, PipeTypesOf, Zenon DEF MessageRefused
<1>2. /\ UNCHANGED reset
      /\ \A r \in Pipes : r \in fin => r \in fin'
      /\ copy' \in [Proxies \X Dirs -> {"off", "run", "ok", "error"}]
      /\ \A o \in Proxies, e \in Dirs : <<o, e>> # <<2, d>> => copy'[<<o, e>>] = copy[<<o, e>>]
  BY <1>1, ResultEffect, Zenon DEF TCPInv
<1>3. data \in [Pipes -> 0..Window]
  BY Zenon DEF TCPInv, PipeTypes
<1> HIDE DEF q
<1>4. /\ data' \in [Pipes -> 0..Window]
      /\ \A r \in Pipes : data[r] \in Int /\ data'[r] \in Int /\ data'[r] <= data[r]
      /\ \A r \in Pipes : Delivered(r) => data'[r] = 0
  BY <1>1, <1>3, FlowAssumption DEF Delivered
<1>5. PipeTypes' /\ UnitTypes' /\ FlowTypes' /\ SetUpOK' /\ NoReset'
  BY <1>1, <1>2, <1>4, SMTT(60) DEF TCPInv, PipeTypes, UnitTypes, FlowTypes, SetUpOK, NoReset
<1>6. UnitsOK'
  <2>1. ASSUME NEW e \in Dirs
        PROVE  UnderWay(e)' <= UnderWay(e) /\ UnderWay(e)' \in Int /\ UnderWay(e) \in Int
    BY <1>4, PipeNames, SMTT(60) DEF UnderWay, Dirs
  <2>2. ASSUME NEW e \in Dirs PROVE got[e] \in Int /\ sent[e] \in Int /\ got[e] + UnderWay(e) <= sent[e]
    BY FlowAssumption DEF TCPInv, UnitTypes, UnitsOK
  <2>3. fault' /\ got' = got /\ sent' = sent
    BY <1>1, Zenon
  <2> QED BY ONLY <2>1, <2>2, <2>3 DEF UnitsOK
<1>7. ASSUME NEW o \in Proxies, NEW e \in Dirs PROVE CopyOK(o, e)'
  <2>1. CopyOK(o, e) /\ Source(o, e) \in Pipes
    BY PipeTypesOf, Zenon DEF TCPInv
  <2> QED BY <1>1, <1>2, <1>4, <2>1, Zenon DEF CopyOK, Delivered
<1>8. ASSUME NEW o \in Proxies, main'[o] = "done" PROVE Closed(o)'
  BY <1>1, <1>2, <1>8, PipeTypesOf, ZenonT(60) DEF TCPInv, Closed, Dirs
<1> QED BY <1>5, <1>6, <1>7, <1>8, Zenon DEF TCPInv

\* Without a fault, a handler that waits for its first result has none that is an error.
LEMMA NoErrorYet ==
  ASSUME TCPInv, ~ fault, NEW p \in Proxies, main[p] = "first", NEW d \in Dirs
  PROVE  copy[<<p, d>>] # "error"
BY Zenon DEF TCPInv, CopyOK, Truncates

\* The handler goes on to its second result, or ends.
LEMMA WaitStep ==
  ASSUME TCPInv, NEW p \in Proxies, main[p] \in {"first", "second"}, NEW v \in {"second", "done"},
         Step(p, v), v = "done" => Closed(p)',
         Grows, UNCHANGED <<copy, answer, dialled, dns, fault>>,
         ~ fault => /\ UNCHANGED reset
                    /\ \A o \in Proxies, e \in Dirs : Sink(o, e) \in fin' =>
                         Sink(o, e) \in fin \/ Delivered(Source(o, e)) \/ Truncates(o, e)'
  PROVE  TCPInv'
<1>1. DOMAIN main' = Proxies /\ main'[p] = v /\ \A o \in Proxies \ {p} : main'[o] = main[o]
  BY MainStep, Zenon DEF TCPInv, FlowTypes
<1>2. FlowTypes' /\ SetUpOK'
  BY <1>1, PipeNames, ZenonT(60) DEF TCPInv, FlowTypes, SetUpOK
<1>3. CopiesStart
  BY Zenon DEF CopiesStart
<1>4. ASSUME NEW o \in Proxies, main'[o] = "done" PROVE Closed(o)'
  <2>1. CASE o = p
    BY <1>1, <1>4, <2>1, Zenon
  <2>2. CASE o # p
    <3>1. Closed(o)
      BY <1>1, <1>4, <2>2, Zenon DEF TCPInv
    <3>2. main'[2] # "none" => main[2] # "none"
      BY <1>1, PipeNames, Zenon
    <3> QED BY <3>1, <3>2, ClosedStep, Zenon
  <2> QED BY <2>1, <2>2, Zenon
<1>5. CASE fault
  <2>1. UnitTypes' /\ UnitsOK' /\ NoReset' /\ \A o \in Proxies, e \in Dirs : CopyOK(o, e)'
    BY <1>3, <1>5, FaultStep, Zenon
  <2> QED BY <1>2, <1>4, <2>1, Zenon DEF TCPInv, Grows
<1>6. CASE ~ fault
  <2>1. UnitTypes' /\ UnitsOK' /\ NoReset'
    BY <1>6, ZenonT(30) DEF TCPInv, Grows, UnitTypes, UnitsOK, UnderWay, NoReset
  <2>2. ASSUME NEW o \in Proxies, NEW e \in Dirs PROVE CopyOK(o, e)'
    <3>1. CopyOK(o, e) /\ Source(o, e) \in Pipes /\ Sink(o, e) \in Pipes /\ <<3, "bwd">> \in Pipes
      BY PipeTypesOf, PipeNames, ZenonT(60) DEF TCPInv
    <3>2. Delivered(Source(o, e)) => Delivered(Source(o, e))'
      BY <3>1, Zenon DEF Delivered, Grows
    <3>3. Truncates(o, e) => Truncates(o, e)'
      BY <1>1, <3>1, PipeNames, Zenon DEF Truncates, Grows
    <3> QED BY <1>6, <3>1, <3>2, <3>3, Zenon DEF CopyOK
  <2> QED BY <1>2, <1>4, <2>1, <2>2, ZenonT(30) DEF TCPInv, Grows
<1> QED BY <1>5, <1>6, Zenon

\* What Bidirectional and ForwardTCP close at the end: both pipes that the handler writes,
\* and nothing is reset that has been read to its end.
LEMMA CloseBoth ==
  ASSUME TCPInv, NEW p \in Proxies, UNCHANGED <<data, sent, got>>,
         Apply(Both(CloseStream(p), CloseTCP(p, TCPLink(p))))
  PROVE  /\ Grows /\ Writes(p, 2) \in fin' /\ Writes(p, TCPLink(p)) \in fin'
         /\ \A q \in Pipes : q \in fin' <=> q \in fin \/ q \in {Writes(p, 2), Writes(p, TCPLink(p))}
         /\ Delivered(Reads(p, TCPLink(p))) => UNCHANGED reset
<1> DEFINE c == Both(CloseStream(p), CloseTCP(p, TCPLink(p)))
<1>1. /\ c.f = {Writes(p, 2), Writes(p, TCPLink(p))}
      /\ Delivered(Reads(p, TCPLink(p))) => c.r = {}
  <2> DEFINE reads == Reads(p, TCPLink(p))
             writes == Writes(p, TCPLink(p))
  <2>1. /\ c.f = {Writes(p, 2)} \cup {writes}
        /\ c.r = {} \cup ({q \in {reads} : ~ Delivered(q)} \cup {q \in {writes} : data[reads] > 0})
    BY Zenon DEF Both, CloseStream, CloseTCP
  <2> HIDE DEF c, writes
  <2>2. Delivered(reads) => ~ (data[reads] > 0)
    BY DEF Delivered
  <2> HIDE DEF reads
  <2>3. Delivered(reads) => c.r = {}
    BY <2>1, <2>2, Zenon
  <2>4. c.f = {Writes(p, 2), writes}
    BY <2>1, Zenon
  <2> QED BY <2>3, <2>4, Zenon DEF reads, writes
<1>2. Apply(c)
  BY ZenonT(60)
<1> HIDE DEF c
<1>3. /\ PipeTypes'
      /\ \A q \in Pipes : q \in fin' <=> q \in fin \/ q \in c.f
      /\ \A q \in Pipes : q \in reset' <=> q \in reset \/ q \in c.r
  BY <1>2, Applied, Zenon DEF TCPInv
<1>4. Delivered(Reads(p, TCPLink(p))) => reset' = reset
  <2>1. Delivered(Reads(p, TCPLink(p))) => reset' = reset \cup {}
    BY <1>1, <1>2, Zenon DEF Apply
  <2> QED BY <2>1, Zenon
<1>5. Writes(p, 2) \in Pipes /\ Writes(p, TCPLink(p)) \in Pipes
  BY PipeTypesOf, Zenon DEF Dirs
<1> QED BY <1>1, <1>3, <1>4, <1>5, Zenon DEF Grows

\* FirstResult keeps the invariant.
LEMMA FirstResultKeeps ==
  ASSUME TCPInv, NEW p \in Proxies, FirstResult(p)
  PROVE  TCPInv'
<1>1. main[p] = "first" /\ Step(p, "second") /\ UNCHANGED <<data, sent, got, copy, answer, dialled, dns, fault>>
  BY Zenon DEF FirstResult, marks
<1>2. PICK d \in Results(p) :
        CASE Messages(p) /\ (copy[<<p, d>>] = "error" \/ d = "bwd") ->
               Apply(Both(CloseStream(p), CloseTCP(p, 3)))
          [] ~ Messages(p) /\ copy[<<p, d>>] = "error" ->
               Apply(Both(CancelStream, CloseTCP(p, TCPLink(p))))
          [] OTHER -> UNCHANGED <<fin, reset>>
  BY Zenon DEF FirstResult, marks
<1>3. d \in Dirs /\ (copy[<<p, d>>] = "error" => fault)
  BY <1>1, NoErrorYet, Zenon DEF Results
<1>4. main'[p] = "second"
  BY <1>1, MainStep, Zenon DEF TCPInv, FlowTypes
<1>5. CASE Messages(p) /\ (copy[<<p, d>>] = "error" \/ d = "bwd")
  <2>1. p = 2 /\ dns /\ Apply(Both(CloseStream(p), CloseTCP(p, TCPLink(p))))
    BY <1>2, <1>5, PipeNames, Zenon DEF Messages
  <2>2. /\ Grows
        /\ \A q \in Pipes : q \in fin' <=> q \in fin \/ q \in {Writes(p, 2), Writes(p, TCPLink(p))}
        /\ Delivered(Reads(p, TCPLink(p))) => UNCHANGED reset
    BY <1>1, <2>1, CloseBoth, ZenonT(30)
  <2>3. ~ fault => Delivered(<<3, "bwd">>) /\ UNCHANGED reset
    <3>1. ~ fault => copy[<<2, "bwd">>] = "ok"
      BY <1>2, <1>3, <1>5, <2>1, Zenon DEF Results
    <3>2. CopyOK(2, "bwd") /\ ~ Truncates(2, "bwd")
      BY PipeNames, Zenon DEF TCPInv, Truncates, Dirs
    <3>3. ~ fault => Delivered(<<3, "bwd">>)
      BY <3>1, <3>2, PipeNames, Zenon DEF CopyOK
    <3> QED BY <2>1, <2>2, <3>3, PipeNames, Zenon
  <2>4. ASSUME ~ fault, NEW o \in Proxies, NEW e \in Dirs, Sink(o, e) \in fin'
        PROVE  Sink(o, e) \in fin \/ Delivered(Source(o, e)) \/ Truncates(o, e)'
    <3>1. Delivered(<<3, "bwd">>) /\ <<3, "bwd">> \in fin'
      BY <2>2, <2>3, <2>4, PipeNames, Zenon DEF Grows, Delivered
    <3>2. CASE o = 2 /\ e = "fwd"
      BY <1>1, <1>4, <2>1, <3>1, <3>2, Zenon DEF Truncates
    <3>3. CASE o = 2 /\ e = "bwd"
      BY <3>1, <3>3, PipeNames, ZenonT(60)
    <3>4. CASE o = 1
      BY <2>1, <2>2, <2>4, <3>4, PipeNames DEF Dirs
    <3> QED BY <3>2, <3>3, <3>4, PipeNames, Zenon DEF Dirs
  <2> QED BY <1>1, <2>2, <2>3, <2>4, WaitStep, Zenon
<1>6. CASE ~ Messages(p) /\ copy[<<p, d>>] = "error"
  <2>1. PipeTypes /\ Apply(Both(CancelStream, CloseTCP(p, TCPLink(p))))
    BY <1>2, <1>6, Zenon DEF TCPInv
  <2>2. Grows
    <3> DEFINE c == Both(CancelStream, CloseTCP(p, TCPLink(p)))
    <3>1. PipeTypes /\ Apply(c)
      BY <2>1, Zenon
    <3> HIDE DEF c
    <3> QED BY <1>1, <3>1, Applied, Zenon DEF Grows
  <2> QED BY <1>1, <1>3, <1>6, <2>2, WaitStep, Zenon
<1>7. CASE /\ ~ (Messages(p) /\ (copy[<<p, d>>] = "error" \/ d = "bwd"))
           /\ ~ (~ Messages(p) /\ copy[<<p, d>>] = "error")
  <2>1. UNCHANGED <<fin, reset>>
    BY <1>2, <1>7, Zenon
  <2>2. Grows
    BY <1>1, <2>1, Zenon DEF Grows, TCPInv, PipeTypes
  <2> QED BY <1>1, <2>1, <2>2, WaitStep, Zenon
<1> QED BY <1>5, <1>6, <1>7, Zenon

\* SecondResult keeps the invariant.
LEMMA SecondResultKeeps ==
  ASSUME TCPInv, NEW p \in Proxies, SecondResult(p)
  PROVE  TCPInv'
<1>1. /\ main[p] = "second" /\ Step(p, "done") /\ Results(p) = Dirs
      /\ Apply(Both(CloseStream(p), CloseTCP(p, TCPLink(p))))
      /\ UNCHANGED <<data, sent, got, copy, answer, dialled, dns, fault>>
  BY Zenon DEF SecondResult
<1>2. /\ Grows /\ Writes(p, 2) \in fin' /\ Writes(p, TCPLink(p)) \in fin'
      /\ \A q \in Pipes : q \in fin' <=> q \in fin \/ q \in {Writes(p, 2), Writes(p, TCPLink(p))}
      /\ Delivered(Reads(p, TCPLink(p))) => UNCHANGED reset
  BY <1>1, CloseBoth, Zenon
<1>3. main'[p] = "done"
  BY <1>1, MainStep, Zenon DEF TCPInv, FlowTypes
<1>4. ASSUME ~ fault, NEW e \in Dirs PROVE Delivered(Source(p, e)) \/ Truncates(p, e)
  <2>1. copy[<<p, e>>] \in {"ok", "error"}
    BY <1>1, Zenon DEF Results
  <2> QED BY <1>4, <2>1, Zenon DEF TCPInv, CopyOK
<1>5. ~ fault => UNCHANGED reset
  <2>1. ~ fault => Delivered(Reads(p, TCPLink(p)))
    BY <1>4, PipeNames, Zenon DEF Truncates, Dirs
  <2> QED BY <1>2, <2>1, Zenon
<1>6. ASSUME ~ fault, NEW o \in Proxies, NEW e \in Dirs, Sink(o, e) \in fin'
      PROVE  Sink(o, e) \in fin \/ Delivered(Source(o, e)) \/ Truncates(o, e)'
  <2>1. CASE o = p
    <3>1. Truncates(p, e) => Truncates(p, e)'
      BY <1>1, <1>2, <1>3, PipeNames, ZenonT(60) DEF Truncates, Grows
    <3> QED BY <1>4, <1>6, <2>1, <3>1, Zenon
  <2>2. CASE o # p
    BY <1>2, <1>6, <2>2, PipeNames DEF Dirs
  <2> QED BY <2>1, <2>2, Zenon
<1>7. Closed(p)'
  BY <1>2, Zenon DEF Closed
<1> QED BY <1>1, <1>2, <1>5, <1>6, <1>7, WaitStep, Zenon

\* HalfClose keeps the invariant.
LEMMA HalfCloseKeeps ==
  ASSUME TCPInv, NEW d \in Dirs, HalfClose(d)
  PROVE  TCPInv'
<1>1. /\ First(d) \in Pipes /\ fin' = fin \cup {First(d)}
      /\ UNCHANGED <<data, reset, sent, got, main, copy, answer, dialled, dns, fault>>
  BY PipeNames, Zenon DEF HalfClose, Dirs
<1>2. \A q \in Pipes : q \in fin' <=> q \in fin \/ q = First(d)
  BY <1>1, Zenon
<1>3. Grows
  BY <1>1, <1>2, Zenon DEF TCPInv, PipeTypes, Grows
<1>4. UnitTypes' /\ FlowTypes' /\ SetUpOK' /\ UnitsOK' /\ NoReset'
  BY <1>1, ZenonT(60) DEF TCPInv, UnitTypes, FlowTypes, SetUpOK, UnitsOK, UnderWay, NoReset
<1>5. ASSUME NEW o \in Proxies, NEW e \in Dirs PROVE CopyOK(o, e)'
  <2>1. /\ CopyOK(o, e) /\ Source(o, e) \in Pipes /\ Sink(o, e) \in Pipes /\ <<3, "bwd">> \in Pipes
        /\ Sink(o, e) # First(d)
    BY PipeTypesOf, PipeNames DEF TCPInv, Dirs
  <2>2. Delivered(Source(o, e)) => Delivered(Source(o, e))'
    BY <1>1, <1>2, <2>1, Zenon DEF Delivered
  <2>3. Truncates(o, e) => Truncates(o, e)'
    BY <1>1, <1>2, <2>1, Zenon DEF Truncates
  <2> QED BY <1>1, <1>2, <2>1, <2>2, <2>3, Zenon DEF CopyOK
<1>6. ASSUME NEW o \in Proxies, main'[o] = "done" PROVE Closed(o)'
  BY <1>1, <1>3, <1>6, ClosedStep, Zenon DEF TCPInv
<1> QED BY <1>3, <1>4, <1>5, <1>6, ZenonT(60) DEF TCPInv, Grows

\* Abort keeps the invariant.
LEMMA AbortKeeps ==
  ASSUME TCPInv, NEW l \in Links, Abort(l)
  PROVE  TCPInv'
<1>1. /\ \A q \in Pipes : q \in reset => q \in reset'
      /\ fault' = TRUE /\ UNCHANGED <<data, fin, sent, got, main, copy, answer, dialled, dns>>
  BY Zenon DEF Abort
<1>2. Grows /\ CopiesStart
  BY <1>1, Zenon DEF TCPInv, PipeTypes, Grows, CopiesStart
<1>3. UnitTypes' /\ UnitsOK' /\ NoReset' /\ \A o \in Proxies, e \in Dirs : CopyOK(o, e)'
  BY <1>1, <1>2, FaultStep, Zenon
<1>4. FlowTypes' /\ SetUpOK'
  BY <1>1, ZenonT(60) DEF TCPInv, FlowTypes, SetUpOK
<1>5. ASSUME NEW o \in Proxies, main'[o] = "done" PROVE Closed(o)'
  BY <1>1, <1>2, <1>5, ClosedStep, Zenon DEF TCPInv
<1> QED BY <1>2, <1>3, <1>4, <1>5, Zenon DEF TCPInv, Grows

\* The invariant holds before the edge opens the stream.
LEMMA TCPStarts == TCPInit => TCPInv
<1> SUFFICES ASSUME TCPInit PROVE TCPInv
  BY Zenon
<1>1. PipeTypes /\ UnitTypes
  BY FlowAssumption DEF TCPInit, PipeTypes, UnitTypes
<1>2. FlowTypes /\ SetUpOK
  <2>1. DOMAIN main = Proxies /\ main[1] = "accept" /\ main[2] = "none"
    BY PipeNames DEF TCPInit
  <2>2. copy \in [Proxies \X Dirs -> {"off", "run", "ok", "error"}]
    BY Zenon DEF TCPInit
  <2> QED BY <2>1, <2>2, Zenon DEF TCPInit, FlowTypes, SetUpOK
<1>3. UnitsOK /\ NoReset
  BY PipeNames DEF TCPInit, UnitsOK, UnderWay, NoReset, Dirs
<1>4. ASSUME NEW p \in Proxies, NEW d \in Dirs PROVE CopyOK(p, d)
  BY PipeTypesOf, Zenon DEF TCPInit, CopyOK
<1>5. ASSUME NEW p \in Proxies PROVE main[p] # "done"
  BY Zenon DEF TCPInit
<1> QED BY <1>1, <1>2, <1>3, <1>4, <1>5, Zenon DEF TCPInv

\* In every reachable state the bytes of each direction, the half-closes and the results of the
\* copies agree.
THEOREM TCPInvariant == TCPSpec => []TCPInv
<1>1. TCPInit => TCPInv
  BY TCPStarts, Zenon
<1>2. ASSUME TCPInv, [TCPNext]_tcpVars PROVE TCPInv'
  <2>1. CASE \E p \in Proxies : Handler(p)
    BY <1>2, <2>1, EdgeKeeps, ConnectorKeeps, FirstResultKeeps, SecondResultKeeps, Zenon
       DEF Handler, Await
  <2>2. CASE \E p \in Proxies, d \in Dirs : Copy(p, d)
    BY <1>2, <2>2, CopyDataKeeps, CopyEndsKeeps, CopyFailsKeeps, Zenon DEF Copy
  <2>3. CASE DrainTimeout
    BY <1>2, <2>3, DrainTimeoutKeeps, Zenon
  <2>4. CASE \E d \in Dirs : MessageRefused(d) \/ Send(d) \/ HalfClose(d) \/ Take(d)
    BY <1>2, <2>4, MessageRefusedKeeps, SendKeeps, HalfCloseKeeps, TakeKeeps, Zenon
  <2>5. CASE \E l \in Links : Abort(l)
    BY <1>2, <2>5, AbortKeeps, Zenon
  <2>6. CASE UNCHANGED tcpVars
    <3>1. UNCHANGED <<data, fin, reset, sent, got, main, copy, answer, dialled, dns, fault>>
      BY <2>6, Zenon DEF tcpVars, pipes, marks
    <3>2. \A q \in Pipes : Delivered(q) => data'[q] = 0
      BY <3>1, ZenonT(60) DEF Delivered
    <3>3. PipeTypes' /\ UnitTypes' /\ UnitsOK'
      BY <1>2, <3>1, Zenon DEF TCPInv, PipeTypes, UnitTypes, UnitsOK, UnderWay
    <3> QED BY <1>2, <3>1, <3>2, <3>3, DataStep, Zenon
  <2> QED BY <1>2, <2>1, <2>2, <2>3, <2>4, <2>5, <2>6, Zenon DEF TCPNext
<1> QED BY <1>1, <1>2, PTL DEF TCPSpec

\* While nothing failed, a reader that sees the end of the stream has read all that was sent, and the
\* sender ended it (Bidirectional of copy.go closes a send side only after its copy returned).
THEOREM EndIsComplete == TCPSpec => []EndMeansComplete
<1>1. ASSUME TCPInv, NEW d \in Dirs, ~ fault, Delivered(Last(d)), ~ QueriesDropped(d)
      PROVE  got[d] = sent[d] /\ First(d) \in fin
  <2>1. ASSUME NEW p \in Proxies, Sink(p, d) \in fin PROVE Delivered(Source(p, d))
    BY <1>1, <2>1, PipeNames, ZenonT(60) DEF TCPInv, CopyOK, Truncates, QueriesDropped
  <2>2. \A q \in {<<1, d>>, <<2, d>>, <<3, d>>} : Delivered(q)
    BY <1>1, <2>1, PipeNames DEF Delivered, Dirs
  <2>3. UnderWay(d) = 0 /\ First(d) \in fin
    BY <2>2, PipeNames DEF UnderWay, Delivered, Dirs
  <2>4. got[d] \in Int /\ sent[d] \in Int /\ got[d] + UnderWay(d) = sent[d]
    BY <1>1, FlowAssumption DEF TCPInv, UnitTypes, UnitsOK
  <2> QED BY <2>3, <2>4
<1>2. TCPInv => EndMeansComplete
  BY <1>1, Zenon DEF EndMeansComplete
<1> QED BY <1>2, TCPInvariant, PTL

\* A handler that returned has closed both ends of its proxy (the deferred Close calls of the edge
\* and of the connector).
THEOREM HandlersClose == TCPSpec => []NothingLeftOpen
<1>1. TCPInv => NothingLeftOpen
  BY Zenon DEF TCPInv, NothingLeftOpen, Closed
<1> QED BY <1>1, TCPInvariant, PTL
=============================================================================
