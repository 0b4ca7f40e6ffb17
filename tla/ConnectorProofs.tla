--------------------------- MODULE ConnectorProofs ---------------------------
(***************************************************************************)
(* The flow tables of the connector's sessions agree with their sockets    *)
(* and with the gauge they share, for every number of sessions, flows,     *)
(* peers and sockets, finite or not.                                       *)
(***************************************************************************)
EXTENDS Connector, FiniteSetTheorems, TLAPS

\* The types of what the flows depend on.
FlowType ==
  /\ pc \in {"handshake", "serve", "ended"} => current \in Sessions
  /\ flows \in [Sessions -> [FlowIDs -> Sockets \cup {None}]]
  /\ sock \in [Sockets -> Flow \cup {None}]
  /\ recv \in [Sessions -> Receiver]
  /\ gauge \in Int

\* Run sets a session up with an object that no goroutine of an earlier session uses.
HandshakeClean ==
  pc = "handshake" =>
    /\ recv[current] = Off
    /\ \A s \in Sockets : sock[s] # None => sock[s].session # current

Entries == {e \in Sessions \X FlowIDs : flows[e[1]][e[2]] # None}

ConnectorInv ==
  /\ FlowType
  /\ HandshakeClean
  /\ FlowsAgree
  /\ IsFiniteSet(Entries)

\* The four parts of FlowsAgree.
TableOwned ==
  \A c \in Sessions, id \in FlowIDs :
    flows[c][id] # None => /\ sock[flows[c][id]] # None
                           /\ sock[flows[c][id]].session = c /\ sock[flows[c][id]].id = id

OpenListed ==
  \A s \in Sockets : sock[s] # None /\ sock[s].open => flows[sock[s].session][sock[s].id] = s

GaugeCounts == gauge = Cardinality({e \in Sessions \X FlowIDs : flows[e[1]][e[2]] # None})

WritesHome ==
  \A c \in Sessions : recv[c].at = "write" /\ sock[recv[c].flow] # None =>
    sock[recv[c].flow].peer = recv[c].peer /\ sock[recv[c].flow].session = c

\* FlowsAgree, part by part.
LEMMA Parts == FlowsAgree <=> TableOwned /\ OpenListed /\ GaugeCounts /\ WritesHome
  BY ZenonT(60) DEF FlowsAgree, TableOwned, OpenListed, GaugeCounts, WritesHome

\* The same in the next state.
LEMMA PartsNext == FlowsAgree' <=> TableOwned' /\ OpenListed' /\ GaugeCounts' /\ WritesHome'
  BY ZenonT(60) DEF FlowsAgree, TableOwned, OpenListed, GaugeCounts, WritesHome

\* The entries of one session are counted as pairs or as numbers alike.
LEMMA SessionEntries ==
  ASSUME FlowType, IsFiniteSet(Entries), NEW c \in Sessions
  PROVE  /\ Cardinality({e \in Entries : e[1] = c}) =
              Cardinality({id \in FlowIDs : flows[c][id] # None})
         /\ Cardinality({e \in Entries : e[1] = c}) \in Nat
         /\ Cardinality(Entries \ {e \in Entries : e[1] = c}) =
              Cardinality(Entries) - Cardinality({e \in Entries : e[1] = c})
<1> DEFINE S == {e \in Entries : e[1] = c}
           T == {id \in FlowIDs : flows[c][id] # None}
           f == [e \in S |-> e[2]]
<1>1. S \in SUBSET Entries
  BY Zenon
<1>2. IsFiniteSet(S) /\ S \cap Entries = S /\ Entries \cap S = S
  BY <1>1, FS_Subset, Zenon
<1>3. \A e \in S : e = <<c, e[2]>> /\ e[2] \in T
  BY DEF Entries
<1>4. \A id \in T : <<c, id>> \in S
  BY Zenon DEF Entries
<1> HIDE DEF S, T
<1>5. f \in [S -> T]
  BY <1>3, Zenon
<1>6. \A a, b \in S : f[a] = f[b] => a = b
  BY <1>3, Zenon
<1>7. \A id \in T : \E e \in S : f[e] = id
  <2> SUFFICES ASSUME NEW id \in T PROVE \E e \in S : f[e] = id
    BY Zenon
  <2>1. <<c, id>> \in S /\ f[<<c, id>>] = id
    BY <1>4, Zenon
  <2> QED
    BY <2>1, Zenon
<1>8. ExistsBijection(S, T)
  <2>1. DOMAIN f = S
    BY Zenon
  <2> HIDE DEF f
  <2>2. IsInjective(f)
    BY <1>6, <2>1, ZenonT(30) DEF IsInjective
  <2>3. f \in Injection(S, T) /\ f \in Surjection(S, T)
    BY <1>5, <1>7, <2>2, ZenonT(30) DEF Injection, Surjection
  <2> QED
    BY <2>3, ZenonT(30) DEF ExistsBijection, Bijection
<1>9. Cardinality(T) = Cardinality(S)
  BY <1>2, <1>8, FS_Bijection, Zenon
<1>10. Cardinality(S) \in Nat
  BY <1>2, FS_CardinalityType, Zenon
<1>11. Cardinality(Entries \ S) = Cardinality(Entries) - Cardinality(Entries \cap S)
  BY FS_Difference, Zenon
<1> QED
  BY <1>2, <1>9, <1>10, <1>11, Zenon DEF S, T

\* What receive does with a datagram.
LEMMA ReceiverCases ==
  /\ Off \in Receiver /\ Waiting \in Receiver
  /\ Off.at = "off" /\ Waiting.at = "waiting"
  /\ \A r \in Receiver : /\ r.at = "lookup" => r.id \in FlowIDs /\ r.peer \in Peers
                         /\ r.at = "write" => r.flow \in Sockets /\ r.peer \in Peers
  BY DEF Receiver, Off, Waiting

\* receive takes its next step: the tables stay, and what it is about to write is right.
LEMMA ReceiverSteps ==
  ASSUME ConnectorInv, NEW c \in Sessions, NEW r \in Receiver,
         UNCHANGED <<loop, flows, sock, gauge>>, recv' = [recv EXCEPT ![c] = r],
         recv[c] # Off,
         r.at = "write" /\ sock[r.flow] # None =>
           sock[r.flow].peer = r.peer /\ sock[r.flow].session = c
  PROVE  ConnectorInv'
<1>1. recv' \in [Sessions -> Receiver] /\ recv'[c] = r /\ \A b \in Sessions : b # c => recv'[b] = recv[b]
  BY Zenon DEF ConnectorInv, FlowType
<1>2. FlowType' /\ IsFiniteSet(Entries)'
  BY <1>1, Zenon DEF ConnectorInv, FlowType, Entries, loop
<1>3. HandshakeClean'
  BY <1>1, Zenon DEF ConnectorInv, FlowType, HandshakeClean, loop
<1>4. FlowsAgree'
  <2>1. TableOwned /\ OpenListed /\ GaugeCounts /\ WritesHome
    BY Parts, Zenon DEF ConnectorInv
  <2>2. TableOwned' /\ OpenListed' /\ GaugeCounts'
    BY <2>1, ZenonT(60) DEF TableOwned, OpenListed, GaugeCounts
  <2>3. WritesHome'
    BY <1>1, <2>1, Zenon DEF WritesHome
  <2> QED
    BY <2>2, <2>3, PartsNext, Zenon
<1> QED
  BY <1>2, <1>3, <1>4, Zenon DEF ConnectorInv

\* flow() dials: the new socket is in no table and no other receiver holds it.
LEMMA DialAgrees ==
  ASSUME ConnectorInv, NEW c \in Sessions, FlowDialled(c)
  PROVE  ConnectorInv'
<1> DEFINE d == recv[c]
<1>1. d \in Receiver /\ d.at = "lookup" /\ d.id \in FlowIDs /\ d.peer \in Peers
  BY ReceiverCases, Zenon DEF FlowDialled, ConnectorInv, FlowType
<1>2. PICK s \in Sockets :
        /\ Free(s)
        /\ flows' = [flows EXCEPT ![c][d.id] = s]
        /\ sock' = [sock EXCEPT ![s] = [session |-> c, id |-> d.id, peer |-> d.peer,
                                        open |-> TRUE, reading |-> TRUE]]
        /\ recv' = [recv EXCEPT ![c] = [at |-> "write", flow |-> s, peer |-> d.peer]]
  BY Zenon DEF FlowDialled
<1>3. flows[c][d.id] = None /\ gauge' = gauge + 1 /\ UNCHANGED loop
  BY Zenon DEF FlowDialled
<1>4. d # Off
  BY <1>1, ReceiverCases, Zenon
<1> DEFINE id == d.id
           peer == d.peer
           new == [session |-> c, id |-> id, peer |-> peer, open |-> TRUE, reading |-> TRUE]
           write == [at |-> "write", flow |-> s, peer |-> peer]
<1>5. id \in FlowIDs /\ peer \in Peers
  BY <1>1, Zenon
<1>6. new \in Flow /\ new # None /\ new.session = c /\ new.id = id /\ new.peer = peer
  <2>1. new \in Flow /\ new.session = c /\ new.id = id /\ new.peer = peer
    BY <1>5, Zenon DEF Flow
  <2>2. None \notin Flow
    BY ConnectorAssumption, Zenon
  <2> QED
    BY <2>1, <2>2, Zenon
<1>7. write \in Receiver /\ write.at = "write" /\ write.flow = s /\ write.peer = peer
  BY <1>5, Zenon DEF Receiver
<1>8. /\ flows'[c] = [flows[c] EXCEPT ![id] = s]
      /\ \A b \in Sessions : b # c => flows'[b] = flows[b]
      /\ DOMAIN flows' = Sessions
  BY <1>2, ZenonT(30) DEF ConnectorInv, FlowType
<1>9. flows[c] \in [FlowIDs -> Sockets \cup {None}]
  BY Zenon DEF ConnectorInv, FlowType
<1>10. /\ flows'[c][id] = s
       /\ \A b \in Sessions, i \in FlowIDs : b # c \/ i # id => flows'[b][i] = flows[b][i]
  BY <1>5, <1>8, <1>9
<1>11. flows' \in [Sessions -> [FlowIDs -> Sockets \cup {None}]]
  BY <1>2, <1>8, <1>9, Zenon DEF ConnectorInv, FlowType
<1>12. /\ sock' \in [Sockets -> Flow \cup {None}] /\ sock'[s] = new
       /\ \A x \in Sockets : x # s => sock'[x] = sock[x]
  BY <1>2, <1>6, Zenon DEF ConnectorInv, FlowType
<1>13. /\ recv' \in [Sessions -> Receiver] /\ recv'[c] = write
       /\ \A b \in Sessions : b # c => recv'[b] = recv[b]
  BY <1>2, <1>7, Zenon DEF ConnectorInv, FlowType
<1> HIDE DEF new, write
<1>14. sock[s] = None /\ \A b \in Sessions : recv[b].at = "write" => recv[b].flow # s
  BY <1>2, Zenon DEF Free
<1>15. FlowType'
  BY <1>3, <1>11, <1>12, <1>13 DEF ConnectorInv, FlowType, loop
<1>16. HandshakeClean'
  BY <1>3, <1>4, <1>6, <1>12, <1>13 DEF ConnectorInv, FlowType, HandshakeClean, loop
<1>17. s # None
  BY ConnectorAssumption, Zenon
<1>18. \A b \in Sessions, i \in FlowIDs : flows[b][i] # s
  BY <1>14, <1>17 DEF ConnectorInv, FlowsAgree
<1>19. \A b \in Sessions, i \in FlowIDs :
         flows'[b][i] # None => /\ sock'[flows'[b][i]] # None
                                /\ sock'[flows'[b][i]].session = b
                                /\ sock'[flows'[b][i]].id = i
  <2> SUFFICES ASSUME NEW b \in Sessions, NEW i \in FlowIDs, flows'[b][i] # None
               PROVE  /\ sock'[flows'[b][i]] # None
                      /\ sock'[flows'[b][i]].session = b /\ sock'[flows'[b][i]].id = i
    BY Zenon
  <2>1. CASE b = c /\ i = id
    BY <1>6, <1>10, <1>12, <2>1, ZenonT(60)
  <2>2. CASE b # c \/ i # id
    <3>1. flows'[b][i] = flows[b][i] /\ flows[b][i] \in Sockets /\ flows[b][i] # s
      BY <1>10, <1>18, <2>2 DEF ConnectorInv, FlowType
    <3> QED
      BY <1>12, <3>1 DEF ConnectorInv, FlowsAgree
  <2> QED
    BY <2>1, <2>2, Zenon
<1>20. \A x \in Sockets : sock'[x] # None /\ sock'[x].open =>
         flows'[sock'[x].session][sock'[x].id] = x
  <2> SUFFICES ASSUME NEW x \in Sockets, sock'[x] # None, sock'[x].open
               PROVE  flows'[sock'[x].session][sock'[x].id] = x
    BY Zenon
  <2>1. CASE x = s
    BY <1>6, <1>10, <1>12, <2>1
  <2>2. CASE x # s
    <3>1. sock'[x] = sock[x] /\ sock[x] \in Flow
      BY <1>12, <2>2, Zenon DEF ConnectorInv, FlowType
    <3>2. sock[x].session \in Sessions /\ sock[x].id \in FlowIDs
      BY <3>1, Zenon DEF Flow
    <3>3. flows[sock[x].session][sock[x].id] = x
      BY <3>1, Zenon DEF ConnectorInv, FlowsAgree
    <3>4. sock[x].session # c \/ sock[x].id # id
      BY <1>3, <3>3, ConnectorAssumption, Zenon
    <3> QED
      BY <1>10, <3>1, <3>2, <3>3, <3>4
  <2> QED
    BY <2>1, <2>2, Zenon
<1>21. Entries' = Entries \cup {<<c, id>>} /\ <<c, id>> \notin Entries
  BY <1>3, <1>5, <1>10, <1>17 DEF Entries
<1>22. IsFiniteSet(Entries)' /\ gauge' = Cardinality(Entries)'
  <2>1. gauge = Cardinality(Entries) /\ IsFiniteSet(Entries)
    BY Zenon DEF ConnectorInv, FlowsAgree, Entries
  <2> QED
    BY <1>3, <1>21, <2>1, FS_AddElement, Zenon
<1>23. \A b \in Sessions : recv'[b].at = "write" /\ sock'[recv'[b].flow] # None =>
         sock'[recv'[b].flow].peer = recv'[b].peer /\ sock'[recv'[b].flow].session = b
  <2> SUFFICES ASSUME NEW b \in Sessions, recv'[b].at = "write", sock'[recv'[b].flow] # None
               PROVE  /\ sock'[recv'[b].flow].peer = recv'[b].peer
                      /\ sock'[recv'[b].flow].session = b
    BY Zenon
  <2>1. CASE b = c
    BY <1>6, <1>7, <1>12, <1>13, <2>1, ZenonT(60)
  <2>2. CASE b # c
    <3>1. recv'[b] = recv[b] /\ recv[b].flow \in Sockets /\ recv[b].flow # s
      BY <1>13, <1>14, <2>2, ReceiverCases, Zenon DEF ConnectorInv, FlowType
    <3> QED
      BY <1>12, <3>1 DEF ConnectorInv, FlowsAgree
  <2> QED
    BY <2>1, <2>2, Zenon
<1>24. FlowsAgree'
  BY <1>19, <1>20, <1>22, <1>23, ZenonT(60) DEF FlowsAgree, Entries
<1> QED
  BY <1>15, <1>16, <1>22, <1>24, Zenon DEF ConnectorInv

\* udpSession.close empties the table of its session, closes what was in it and counts it out.
LEMMA CloseAgrees ==
  ASSUME ConnectorInv, NEW c \in Sessions, close(c), UNCHANGED recv,
         pc' # "handshake", current' = current, current \in Sessions
  PROVE  ConnectorInv'
<1>1. /\ flows' = [flows EXCEPT ![c] = NoFlows]
      /\ gauge' = gauge - Cardinality({id \in FlowIDs : flows[c][id] # None})
      /\ sock' = [s \in Sockets |->
                    IF s \in Range(flows[c]) THEN [sock[s] EXCEPT !.open = FALSE] ELSE sock[s]]
  BY Zenon DEF close
<1>2. /\ flows' \in [Sessions -> [FlowIDs -> Sockets \cup {None}]]
      /\ \A id \in FlowIDs : flows'[c][id] = None
      /\ \A b \in Sessions : b # c => flows'[b] = flows[b]
  BY <1>1, Zenon DEF ConnectorInv, FlowType, NoFlows
<1>3. \A s \in Sockets : s \in Range(flows[c]) <=> \E id \in FlowIDs : flows[c][id] = s
  BY Zenon DEF Range, ConnectorInv, FlowType
<1>4. \A s \in Sockets : s \in Range(flows[c]) => sock[s] \in Flow /\ sock[s].session = c
  <2> SUFFICES ASSUME NEW s \in Sockets, s \in Range(flows[c])
               PROVE  sock[s] \in Flow /\ sock[s].session = c
    BY Zenon
  <2>1. PICK id \in FlowIDs : flows[c][id] = s
    BY <1>3, Zenon
  <2>2. s # None
    BY ConnectorAssumption, Zenon
  <2> QED
    BY <2>1, <2>2, SMTT(60) DEF ConnectorInv, FlowsAgree, FlowType
<1>5. \A s \in Sockets :
        IF s \in Range(flows[c])
        THEN /\ sock'[s] \in Flow /\ ~ sock'[s].open /\ sock'[s].session = sock[s].session
             /\ sock'[s].id = sock[s].id /\ sock'[s].peer = sock[s].peer
        ELSE sock'[s] = sock[s]
  <2> SUFFICES ASSUME NEW s \in Sockets, s \in Range(flows[c])
               PROVE  /\ sock'[s] \in Flow /\ ~ sock'[s].open /\ sock'[s].session = sock[s].session
                      /\ sock'[s].id = sock[s].id /\ sock'[s].peer = sock[s].peer
    BY <1>1, Zenon
  <2>1. sock'[s] = [sock[s] EXCEPT !.open = FALSE] /\ sock[s] \in Flow
    BY <1>1, <1>4, Zenon
  <2> QED
    BY <2>1, Zenon DEF Flow
<1>6. \A s \in Sockets : /\ sock'[s] \in Flow \cup {None}
                         /\ sock'[s] # None <=> sock[s] # None
                         /\ sock'[s] # None => /\ sock[s] \in Flow
                                               /\ sock'[s].session = sock[s].session
                                               /\ sock'[s].id = sock[s].id
                                               /\ sock'[s].peer = sock[s].peer
  BY <1>4, <1>5, ConnectorAssumption, ZenonT(60) DEF ConnectorInv, FlowType
<1>7. sock' \in [Sockets -> Flow \cup {None}]
  <2>1. DOMAIN sock' = Sockets /\ sock' = [s \in Sockets |-> sock'[s]]
    BY <1>1, Zenon
  <2> QED
    BY <1>6, <2>1, Zenon
<1>8. \A b \in Sessions, i \in FlowIDs :
        flows'[b][i] # None => /\ sock'[flows'[b][i]] # None
                               /\ sock'[flows'[b][i]].session = b
                               /\ sock'[flows'[b][i]].id = i
  <2> SUFFICES ASSUME NEW b \in Sessions, NEW i \in FlowIDs, flows'[b][i] # None
               PROVE  /\ sock'[flows'[b][i]] # None
                      /\ sock'[flows'[b][i]].session = b /\ sock'[flows'[b][i]].id = i
    BY Zenon
  <2>1. flows'[b][i] = flows[b][i] /\ flows[b][i] \in Sockets
    BY <1>2, SMTT(60) DEF ConnectorInv, FlowType
  <2> QED
    BY <1>6, <2>1, SMTT(60) DEF ConnectorInv, FlowsAgree
<1>9. \A s \in Sockets : sock'[s] # None /\ sock'[s].open =>
        flows'[sock'[s].session][sock'[s].id] = s
  <2> SUFFICES ASSUME NEW s \in Sockets, sock'[s] # None, sock'[s].open
               PROVE  flows'[sock'[s].session][sock'[s].id] = s
    BY Zenon
  <2>1. s \notin Range(flows[c]) /\ sock'[s] = sock[s] /\ sock[s] \in Flow
    BY <1>5, <1>6, Zenon
  <2>2. sock[s].session \in Sessions /\ sock[s].id \in FlowIDs
    BY <2>1, ZenonT(60) DEF Flow
  <2>3. flows[sock[s].session][sock[s].id] = s
    BY <2>1, Zenon DEF ConnectorInv, FlowsAgree
  <2>4. sock[s].session # c
    BY <1>3, <2>1, <2>2, <2>3, ZenonT(60)
  <2> QED
    BY <1>2, <2>1, <2>2, <2>3, <2>4
<1>10. Entries' = Entries \ {e \in Entries : e[1] = c}
  BY <1>2, ZenonT(60) DEF Entries
<1>11. IsFiniteSet(Entries)' /\ gauge' = Cardinality(Entries)'
  <2>1. gauge = Cardinality(Entries) /\ IsFiniteSet(Entries) /\ FlowType
    BY Zenon DEF ConnectorInv, FlowsAgree, Entries
  <2>2. IsFiniteSet(Entries \ {e \in Entries : e[1] = c})
    BY <2>1, FS_Difference, ZenonT(60)
  <2> QED
    BY <1>1, <1>10, <2>1, <2>2, SessionEntries, ZenonT(60)
<1>12. \A b \in Sessions : recv'[b].at = "write" /\ sock'[recv'[b].flow] # None =>
         sock'[recv'[b].flow].peer = recv'[b].peer /\ sock'[recv'[b].flow].session = b
  <2> SUFFICES ASSUME NEW b \in Sessions, recv[b].at = "write", sock'[recv[b].flow] # None
               PROVE  /\ sock'[recv[b].flow].peer = recv[b].peer
                      /\ sock'[recv[b].flow].session = b
    BY Zenon
  <2>1. recv[b].flow \in Sockets
    BY ReceiverCases, ZenonT(60) DEF ConnectorInv, FlowType
  <2> QED
    BY <1>6, <2>1, Zenon DEF ConnectorInv, FlowsAgree
<1>13. FlowsAgree'
  BY <1>8, <1>9, <1>11, <1>12, Zenon DEF FlowsAgree, Entries
<1>14. gauge' \in Int
  <2>1. FlowType /\ IsFiniteSet(Entries) /\ gauge \in Int
    BY Zenon DEF ConnectorInv, FlowType
  <2>2. Cardinality({id \in FlowIDs : flows[c][id] # None}) \in Nat
    BY <2>1, SessionEntries, Zenon
  <2> QED
    BY <1>1, <2>1, <2>2
<1>15. FlowType' /\ HandshakeClean'
  BY <1>2, <1>7, <1>14, Zenon DEF ConnectorInv, FlowType, HandshakeClean
<1> QED
  BY <1>11, <1>13, <1>15, Zenon DEF ConnectorInv

\* The reader of a flow stops and closes its socket; the table still has the flow.
LEMMA StopAgrees ==
  ASSUME ConnectorInv, NEW s \in Sockets, ReaderStops(s)
  PROVE  ConnectorInv'
<1>1. sock[s] \in Flow /\ UNCHANGED <<loop, flows, recv, gauge>>
  BY Zenon DEF ReaderStops, ConnectorInv, FlowType
<1>2. /\ sock'[s] = [sock[s] EXCEPT !.open = FALSE, !.reading = FALSE]
      /\ \A x \in Sockets : x # s => sock'[x] = sock[x]
      /\ DOMAIN sock' = Sockets /\ sock' = [x \in Sockets |-> sock'[x]]
  BY ZenonT(60) DEF ReaderStops, ConnectorInv, FlowType
<1>3. /\ sock'[s] \in Flow /\ ~ sock'[s].open /\ sock'[s].session = sock[s].session
      /\ sock'[s].id = sock[s].id /\ sock'[s].peer = sock[s].peer
  BY <1>1, <1>2, ZenonT(60) DEF Flow
<1>4. sock[s] # None /\ sock'[s] # None
  BY <1>1, <1>3, ConnectorAssumption, Zenon
<1>5. FlowType' /\ IsFiniteSet(Entries)'
  BY <1>1, <1>2, <1>3, Zenon DEF ConnectorInv, FlowType, Entries, loop
<1>6. \A x \in Sockets :
        /\ sock'[x] # None <=> sock[x] # None
        /\ sock'[x] # None => /\ sock'[x].session = sock[x].session /\ sock'[x].id = sock[x].id
                              /\ sock'[x].peer = sock[x].peer
                              /\ sock'[x].open => sock[x].open
  BY <1>2, <1>3, <1>4, ZenonT(60)
<1>7. HandshakeClean'
  BY <1>1, <1>6, Zenon DEF ConnectorInv, HandshakeClean, loop
<1>8. FlowsAgree'
  <2>1. \A b \in Sessions, i \in FlowIDs : flows[b][i] # None => flows[b][i] \in Sockets
    BY DEF ConnectorInv, FlowType
  <2>2. \A b \in Sessions : recv[b].at = "write" => recv[b].flow \in Sockets
    BY ReceiverCases, Zenon DEF ConnectorInv, FlowType
  <2> QED
    <3>1. TableOwned /\ OpenListed /\ GaugeCounts /\ WritesHome
      BY Parts, Zenon DEF ConnectorInv
    <3>2. TableOwned'
      BY <1>1, <1>6, <2>1, <3>1 DEF TableOwned
    <3>3. OpenListed'
      BY <1>1, <1>6, <3>1, Zenon DEF OpenListed
    <3>4. GaugeCounts'
      BY <1>1, <3>1, Zenon DEF GaugeCounts
    <3>5. WritesHome'
      BY <1>1, <1>6, <2>2, <3>1 DEF WritesHome
    <3> QED
      BY <3>2, <3>3, <3>4, <3>5, PartsNext, Zenon
<1> QED
  BY <1>5, <1>7, <1>8, Zenon DEF ConnectorInv

\* The reader returns: its flow leaves the table unless close() has taken it out.
LEMMA ReturnAgrees ==
  ASSUME ConnectorInv, NEW s \in Sockets, ReaderReturns(s)
  PROVE  ConnectorInv'
<1> DEFINE c == sock[s].session
           id == sock[s].id
<1>1. /\ sock[s] # None /\ sock' = [sock EXCEPT ![s] = None] /\ UNCHANGED <<loop, recv>>
      /\ IF flows[c][id] = s
           THEN flows' = [flows EXCEPT ![c][id] = None] /\ gauge' = gauge - 1
           ELSE UNCHANGED <<flows, gauge>>
  BY ZenonT(30) DEF ReaderReturns
<1>2. c \in Sessions /\ id \in FlowIDs
  <2>1. sock[s] \in Flow
    BY <1>1, Zenon DEF ConnectorInv, FlowType
  <2> QED
    BY <2>1, Zenon DEF Flow
<1>3. s # None
  BY ConnectorAssumption, Zenon
<1>4. /\ sock' \in [Sockets -> Flow \cup {None}] /\ sock'[s] = None
      /\ \A x \in Sockets : x # s => sock'[x] = sock[x]
  BY <1>1, Zenon DEF ConnectorInv, FlowType
<1>5. \A b \in Sessions, i \in FlowIDs : flows[b][i] = s => b = c /\ i = id
  BY <1>3, Parts DEF ConnectorInv, TableOwned
<1> HIDE DEF c, id
<1>6. /\ flows' \in [Sessions -> [FlowIDs -> Sockets \cup {None}]]
      /\ \A b \in Sessions, i \in FlowIDs :
           flows'[b][i] = IF flows[b][i] = s THEN None ELSE flows[b][i]
  <2>1. CASE flows[c][id] = s
    <3>1. flows' = [flows EXCEPT ![c][id] = None]
      BY <1>1, <2>1, Zenon
    <3>2. /\ flows'[c] = [flows[c] EXCEPT ![id] = None]
          /\ \A b \in Sessions : b # c => flows'[b] = flows[b]
          /\ DOMAIN flows' = Sessions /\ flows' = [b \in Sessions |-> flows'[b]]
      BY <1>2, <3>1, ZenonT(30) DEF ConnectorInv, FlowType
    <3>3. flows[c] \in [FlowIDs -> Sockets \cup {None}]
      BY <1>2, Zenon DEF ConnectorInv, FlowType
    <3>4. /\ flows'[c] \in [FlowIDs -> Sockets \cup {None}] /\ flows'[c][id] = None
          /\ \A i \in FlowIDs : i # id => flows'[c][i] = flows[c][i]
      BY <1>2, <3>2, <3>3, ZenonT(60)
    <3>5. flows' \in [Sessions -> [FlowIDs -> Sockets \cup {None}]]
      BY <3>2, <3>4, Zenon DEF ConnectorInv, FlowType
    <3>6. \A b \in Sessions, i \in FlowIDs :
            flows'[b][i] = IF flows[b][i] = s THEN None ELSE flows[b][i]
      BY <1>5, <2>1, <3>2, <3>4
    <3> QED
      BY <3>5, <3>6, Zenon
  <2>2. CASE flows[c][id] # s
    BY <1>1, <1>5, <2>2, Zenon DEF ConnectorInv, FlowType
  <2> QED
    BY <2>1, <2>2, Zenon
<1>7. \A b \in Sessions, i \in FlowIDs :
        flows'[b][i] # None => /\ sock'[flows'[b][i]] # None
                               /\ sock'[flows'[b][i]].session = b
                               /\ sock'[flows'[b][i]].id = i
  <2> SUFFICES ASSUME NEW b \in Sessions, NEW i \in FlowIDs, flows'[b][i] # None
               PROVE  /\ sock'[flows'[b][i]] # None
                      /\ sock'[flows'[b][i]].session = b /\ sock'[flows'[b][i]].id = i
    BY Zenon
  <2>1. flows'[b][i] = flows[b][i] /\ flows[b][i] \in Sockets /\ flows[b][i] # s
    BY <1>6, SMTT(60) DEF ConnectorInv, FlowType
  <2> QED
    BY <1>4, <2>1, Parts DEF ConnectorInv, TableOwned
<1>8. \A x \in Sockets : sock'[x] # None /\ sock'[x].open =>
        flows'[sock'[x].session][sock'[x].id] = x
  <2> SUFFICES ASSUME NEW x \in Sockets, sock'[x] # None, sock'[x].open
               PROVE  flows'[sock'[x].session][sock'[x].id] = x
    BY Zenon
  <2>1. x # s /\ sock'[x] = sock[x] /\ sock[x] \in Flow
    BY <1>4, Zenon DEF ConnectorInv, FlowType
  <2>2. sock[x].session \in Sessions /\ sock[x].id \in FlowIDs
    BY <2>1, Zenon DEF Flow
  <2>3. flows[sock[x].session][sock[x].id] = x
    BY <2>1, ZenonT(60) DEF ConnectorInv, FlowsAgree
  <2> QED
    BY <1>6, <2>1, <2>2, <2>3
<1>9. gauge = Cardinality(Entries) /\ IsFiniteSet(Entries)
  BY Zenon DEF ConnectorInv, FlowsAgree, Entries
<1>10. IsFiniteSet(Entries)' /\ gauge' = Cardinality(Entries)' /\ gauge' \in Int
  <2>1. CASE flows[c][id] = s
    <3>1. Entries' = Entries \ {<<c, id>>} /\ <<c, id>> \in Entries
      BY <1>2, <1>3, <1>5, <1>6, <2>1 DEF Entries
    <3>2. gauge' = gauge - 1 /\ gauge \in Int
      BY <1>1, <2>1, Zenon DEF ConnectorInv, FlowType
    <3>3. /\ IsFiniteSet(Entries \ {<<c, id>>})
          /\ Cardinality(Entries \ {<<c, id>>}) = Cardinality(Entries) - 1
      BY <1>9, <3>1, FS_RemoveElement, ZenonT(60)
    <3> QED
      BY <1>9, <3>1, <3>2, <3>3
  <2>2. CASE flows[c][id] # s
    <3>1. UNCHANGED <<flows, gauge>>
      BY <1>1, <2>2, Zenon
    <3> QED
      BY <1>9, <3>1, Zenon DEF Entries, ConnectorInv, FlowType
  <2> QED
    BY <2>1, <2>2, Zenon
<1>11. \A b \in Sessions : recv[b].at = "write" => recv[b].flow \in Sockets
  BY ReceiverCases, Zenon DEF ConnectorInv, FlowType
<1>12. \A b \in Sessions : recv'[b].at = "write" /\ sock'[recv'[b].flow] # None =>
         sock'[recv'[b].flow].peer = recv'[b].peer /\ sock'[recv'[b].flow].session = b
  BY <1>1, <1>4, <1>11, ZenonT(60) DEF ConnectorInv, FlowsAgree
<1>13. FlowsAgree'
  BY <1>7, <1>8, <1>10, <1>12, Zenon DEF FlowsAgree, Entries
<1>14. FlowType'
  BY <1>1, <1>4, <1>6, <1>10, Zenon DEF ConnectorInv, FlowType, loop
<1>15. HandshakeClean'
  BY <1>1, <1>4, Zenon DEF ConnectorInv, HandshakeClean, loop
<1> QED
  BY <1>10, <1>13, <1>14, <1>15, Zenon DEF ConnectorInv

\* The session is accepted: its table is a new one, and nothing of an old one is left in it.
LEMMA AcceptedAgrees ==
  ASSUME ConnectorInv, Accepted
  PROVE  ConnectorInv'
<1>1. /\ pc = "handshake" /\ pc' = "serve" /\ UNCHANGED <<current, sock, gauge>>
      /\ flows' = [flows EXCEPT ![current] = NoFlows]
      /\ recv' = [recv EXCEPT ![current] = Waiting]
  BY Zenon DEF Accepted
<1>2. /\ current \in Sessions
      /\ \A s \in Sockets : sock[s] # None => sock[s].session # current
  BY <1>1, Zenon DEF ConnectorInv, FlowType, HandshakeClean
<1>3. \A id \in FlowIDs : flows[current][id] = None
  BY <1>2 DEF ConnectorInv, FlowsAgree, FlowType
<1>4. flows' = flows
  <2>1. flows[current] = NoFlows
    BY <1>2, <1>3, Zenon DEF NoFlows, ConnectorInv, FlowType
  <2> QED
    BY <1>1, <1>2, <2>1, Zenon DEF ConnectorInv, FlowType
<1>5. /\ recv' \in [Sessions -> Receiver] /\ recv'[current].at # "write"
      /\ \A b \in Sessions : b # current => recv'[b] = recv[b]
  BY <1>1, <1>2, ReceiverCases, Zenon DEF ConnectorInv, FlowType
<1>6. FlowsAgree'
  <2>1. \A b \in Sessions : recv'[b].at = "write" => recv'[b] = recv[b]
    BY <1>5, Zenon
  <2>2. UNCHANGED <<flows, sock, gauge>>
    BY <1>1, <1>4, Zenon
  <2>3. TableOwned /\ OpenListed /\ GaugeCounts /\ WritesHome
    BY Parts, Zenon DEF ConnectorInv
  <2>4. TableOwned' /\ OpenListed' /\ GaugeCounts'
    BY <2>2, <2>3, ZenonT(60) DEF TableOwned, OpenListed, GaugeCounts
  <2>5. WritesHome'
    BY <2>1, <2>2, <2>3, ZenonT(60) DEF WritesHome
  <2> QED
    BY <2>4, <2>5, PartsNext, Zenon
<1>7. FlowType' /\ HandshakeClean' /\ IsFiniteSet(Entries)'
  BY <1>1, <1>2, <1>4, <1>5, ZenonT(60) DEF ConnectorInv, FlowType, HandshakeClean, Entries
<1> QED
  BY <1>6, <1>7, Zenon DEF ConnectorInv

\* ConnectorInv is inductive.
LEMMA NextConnectorInv == ConnectorInv /\ [Next]_vars => ConnectorInv'
<1> SUFFICES ASSUME ConnectorInv, [Next]_vars PROVE ConnectorInv'
  BY Zenon
<1>1. ASSUME UNCHANGED <<flows, sock, recv, gauge>>,
             pc' \in {"handshake", "serve", "ended"} => current' \in Sessions,
             HandshakeClean'
      PROVE  ConnectorInv'
  <2>1. FlowsAgree'
    <3>1. TableOwned /\ OpenListed /\ GaugeCounts /\ WritesHome
      BY Parts, Zenon DEF ConnectorInv
    <3>2. TableOwned' /\ OpenListed' /\ GaugeCounts'
      BY <1>1, <3>1, ZenonT(60) DEF TableOwned, OpenListed, GaugeCounts
    <3>3. WritesHome'
      BY <1>1, <3>1, ZenonT(60) DEF WritesHome
    <3> QED
      BY <3>2, <3>3, PartsNext, Zenon
  <2>2. FlowType'
    BY <1>1, ZenonT(60) DEF ConnectorInv, FlowType
  <2>3. Entries' = Entries
    BY <1>1, ZenonT(60) DEF Entries
  <2> QED
    BY <1>1, <2>1, <2>2, <2>3, ZenonT(60) DEF ConnectorInv
<1>2. CASE Dial
  <2>1. PICK c \in Sessions : Unused(c) /\ current' = c
    BY <1>2, Zenon DEF Dial
  <2>2. UNCHANGED <<flows, sock, recv, gauge>>
    BY <1>2, Zenon DEF Dial, udp
  <2>3. HandshakeClean'
    BY <2>1, <2>2, Zenon DEF HandshakeClean, Unused
  <2> QED
    BY <1>1, <2>1, <2>2, <2>3, Zenon
<1>3. CASE DialFails \/ RunReturns \/ Refused \/ SessionEnded \/ WaitReturns
  <2>1. /\ UNCHANGED <<flows, sock, recv, gauge, current>> /\ pc' # "handshake"
        /\ pc' = "ended" => pc = "handshake"
        /\ pc' # "serve"
    BY <1>3, Zenon DEF DialFails, RunReturns, Refused, SessionEnded, WaitReturns, udp
  <2> QED
    BY <1>1, <2>1, Zenon DEF ConnectorInv, FlowType, HandshakeClean
<1>4. CASE Cancel \/ UNCHANGED vars \/ \E c \in Sessions : ConnectionLost(c)
  <2>1. UNCHANGED <<flows, sock, recv, gauge, current, pc>>
    BY <1>4, Zenon DEF Cancel, ConnectionLost, vars, loop, udp
  <2> QED
    BY <1>1, <2>1, Zenon DEF ConnectorInv, FlowType, HandshakeClean
<1>5. CASE Accepted
  BY <1>5, AcceptedAgrees, Zenon
<1>6. CASE ServeReturns
  <2>1. /\ close(current) /\ UNCHANGED <<recv, current>> /\ pc' = "ended" /\ current \in Sessions
    BY <1>6, Zenon DEF ServeReturns, ConnectorInv, FlowType
  <2> QED
    BY <2>1, CloseAgrees, Zenon
<1>7. ASSUME NEW c \in Sessions, NEW id \in FlowIDs, NEW p \in Peers, Receive(c, id, p)
      PROVE  ConnectorInv'
  <2> DEFINE r == [at |-> "lookup", id |-> id, peer |-> p]
  <2>1. r \in Receiver /\ r.at # "write"
    BY Zenon DEF Receiver
  <2>2. /\ UNCHANGED <<loop, flows, sock, gauge>> /\ recv' = [recv EXCEPT ![c] = r]
        /\ recv[c] # Off
    BY <1>7 DEF Receive, Waiting, Off
  <2> HIDE DEF r
  <2> QED
    BY <2>1, <2>2, ReceiverSteps, Zenon
<1>8. ASSUME NEW c \in Sessions, ReceiveReturns(c) \/ FlowRefused(c) \/ Write(c)
      PROVE  ConnectorInv'
  <2>1. PICK r \in {Off, Waiting} : recv' = [recv EXCEPT ![c] = r]
    BY <1>8, Zenon DEF ReceiveReturns, FlowRefused, Write
  <2>2. r \in Receiver /\ r.at # "write"
    BY ReceiverCases, Zenon
  <2>3. recv[c].at # "off" /\ UNCHANGED <<loop, flows, sock, gauge>>
    BY <1>8, ReceiverCases, Zenon DEF ReceiveReturns, FlowRefused, Write
  <2>4. recv[c] # Off
    BY <2>3, ReceiverCases, Zenon
  <2> QED
    BY <2>1, <2>2, <2>3, <2>4, ReceiverSteps, ZenonT(60)
<1>9. ASSUME NEW c \in Sessions, FlowFound(c) PROVE ConnectorInv'
  <2> DEFINE d == recv[c]
             r == [at |-> "write", flow |-> flows[c][d.id], peer |-> d.peer]
  <2>1. /\ d.at = "lookup" /\ flows[c][d.id] # None /\ sock[flows[c][d.id]].peer = d.peer
        /\ recv' = [recv EXCEPT ![c] = r] /\ UNCHANGED <<loop, flows, sock, gauge>>
    BY <1>9, Zenon DEF FlowFound
  <2>2. d \in Receiver /\ d.id \in FlowIDs /\ d.peer \in Peers
    BY <2>1, ReceiverCases, Zenon DEF ConnectorInv, FlowType
  <2>3. flows[c][d.id] \in Sockets /\ sock[flows[c][d.id]].session = c
    <3>1. flows[c][d.id] \in Sockets
      BY <2>1, <2>2 DEF ConnectorInv, FlowType
    <3>2. sock[flows[c][d.id]].session = c
      BY <2>1, <2>2, Parts, ZenonT(60) DEF ConnectorInv, TableOwned
    <3> QED
      BY <3>1, <3>2, Zenon
  <2>4. r \in Receiver /\ r.flow = flows[c][d.id] /\ r.peer = d.peer
    BY <2>2, <2>3, ZenonT(60) DEF Receiver
  <2>5. recv[c] # Off
    BY <2>1, ReceiverCases, Zenon
  <2> HIDE DEF r
  <2> QED
    BY <2>1, <2>3, <2>4, <2>5, ReceiverSteps, ZenonT(60)
<1>10. ASSUME NEW c \in Sessions, FlowDialled(c) PROVE ConnectorInv'
  BY <1>10, DialAgrees, Zenon
<1>11. ASSUME NEW s \in Sockets, ReaderStops(s) \/ ReaderReturns(s) PROVE ConnectorInv'
  BY <1>11, StopAgrees, ReturnAgrees, Zenon
<1> QED
  BY <1>2, <1>3, <1>4, <1>5, <1>6, <1>7, <1>8, <1>9, <1>10, <1>11, Zenon DEF Next

\* Tables, sockets and the gauge of the connector agree, whatever the goroutines of an ended
\* session still do while the next one is served, and a datagram is written to the socket of
\* its own session and endpoints or to none.
THEOREM ConnectorFlowsAgree == Spec => []FlowsAgree
<1>1. Init => ConnectorInv
  <2> SUFFICES ASSUME Init PROVE ConnectorInv
    BY Zenon
  <2>1. FlowType
    BY ReceiverCases DEF Init, FlowType, NoFlows
  <2>2. Entries = {}
    BY Zenon DEF Init, Entries, NoFlows
  <2>3. HandshakeClean
    BY Zenon DEF Init, HandshakeClean
  <2>4. \A b \in Sessions : recv[b].at # "write"
    BY ReceiverCases, Zenon DEF Init
  <2>5. FlowsAgree
    BY <2>2, <2>4, FS_EmptySet, Zenon DEF Init, FlowsAgree, NoFlows, Entries
  <2> QED
    BY <2>1, <2>2, <2>3, <2>5, FS_EmptySet, Zenon DEF ConnectorInv
<1>2. ConnectorInv => FlowsAgree
  BY Zenon DEF ConnectorInv
<1> QED
  BY <1>1, <1>2, NextConnectorInv, PTL DEF Spec
=============================================================================
