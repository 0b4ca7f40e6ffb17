------------------------- MODULE EdgeSessionsProofs -------------------------
(***************************************************************************)
(* Sessions of the edge, for every number of connectors, connections and   *)
(* entries: a replaced session is always about to be closed, a route leads *)
(* to the session of its own connector, flows carry what the handshake of  *)
(* their session agreed, and a session with routes is reported connected.  *)
(***************************************************************************)
EXTENDS EdgeSessions, FiniteSetTheorems, TLAPS

Positions == {"none", "hello", "looked", "checked", "stored", "closing", "serving", "swapped",
              "done"}

\* The types of what sessions and routes depend on.
SessionType ==
  /\ registry \in [Connectors -> Entries \cup {None}]
  /\ routes \subseteq Entries
  /\ active \in [Entries -> Conns \cup {None}]
  /\ draining \in [Entries -> Conns \cup {None}]
  /\ allocated \in 0..MaxEntries
  /\ pc \in [Conns -> Positions]
  /\ conn \in [Conns -> ConnType]
  /\ timer \in [Conns -> Conns \cup {None}]

\* A goroutine past the lookup holds an entry, which is one of its own connector.
EntryHeld(c) ==
  /\ pc[c] # "none" => conn[c].key \in Connectors
  /\ pc[c] \in {"looked", "checked", "stored", "closing", "serving", "swapped"} =>
       /\ conn[c].entry \in 1..allocated
       /\ owner[conn[c].entry] = conn[c].key

\* Its drain timer is set at the end of its handshake.
TimerLate(c) ==
  pc[c] \in {"none", "hello", "looked", "checked", "stored", "closing"} => timer[c] = None

\* The table leads to entries of the connector; static connectors stay in it.
TableOwned ==
  /\ DOMAIN owner = Entries
  /\ \A k \in Connectors : registry[k] # None =>
       registry[k] \in 1..allocated /\ owner[registry[k]] = k
  /\ \A k \in Static : registry[k] # None
  /\ \A e \in routes : e \in 1..allocated
  /\ \A e, f \in routes : PrefixOf[owner[e]] = PrefixOf[owner[f]] => e = f

\* The active session of an entry was accepted for it, and has not been replaced.
ActiveAccepted ==
  /\ \A e \in Entries : active[e] # None =>
       /\ pc[active[e]] \in {"stored", "closing", "serving"}
       /\ conn[active[e]].entry = e
       /\ active[e] \notin drained
  /\ \A c \in Conns : c \in drained => pc[c] \notin {"none", "hello", "looked", "checked"}

\* The inductive invariant: that a replaced session is closed rests on when timers are set and
\* on the entry each goroutine holds, which may have left the table since.
SessionInv ==
  /\ SessionType
  /\ \A c \in Conns : EntryHeld(c) /\ TimerLate(c)
  /\ TableOwned
  /\ ActiveAccepted
  /\ ReplacedSessionsEnd

\* The types of what the targets depend on.
TargetInv ==
  /\ assigned \in [Dynamic -> Targets \cup {None}]
  /\ read \in [Dynamic -> Targets \cup {None}] \cup {None}
  /\ target \in [Entries -> Targets \cup {None}]

\* Somebody is about to close the session d.
EndsSoon(d) ==
  \E b \in Conns : \/ timer[b] = d
                   \/ pc[b] = "stored" /\ conn[b].stale = d
                   \/ pc[b] \in {"stored", "closing"} /\ conn[b].previous = d

EndsSoonView == \A d : d \in ToBeClosed <=> EndsSoon(d)

\* ToBeClosed, element by element.
LEMMA EndsSoonSeen == EndsSoonView
  BY ZenonT(30) DEF EndsSoonView, ToBeClosed, EndsSoon

\* The same in the next state.
LEMMA EndsSoonSeenNext == EndsSoonView'
  BY EndsSoonSeen, PTL

\* A step that accepts no session and forgets none that is to be closed.
LEMMA StillEnds ==
  ASSUME ReplacedSessionsEnd,
         \A d \in Conns : Accepted(d)' /\ d \in open' =>
           /\ Accepted(d) /\ d \in open /\ conn'[d].entry = conn[d].entry
           /\ active[conn[d].entry] = d => active'[conn[d].entry] = d
           /\ EndsSoon(d) => EndsSoon(d)'
  PROVE  ReplacedSessionsEnd'
  BY EndsSoonSeen, EndsSoonSeenNext, ZenonT(60) DEF ReplacedSessionsEnd, EndsSoonView

\* A goroutine past the lookup holds an allocated entry.
LEMMA HeldInBounds ==
  ASSUME SessionInv, NEW c \in Conns,
         pc[c] \in {"looked", "checked", "stored", "closing", "serving", "swapped"}
  PROVE  conn[c].entry \in 1..allocated /\ conn[c].entry \in Entries
<1>1. EntryHeld(c) /\ allocated \in 0..MaxEntries
  BY Zenon DEF SessionInv, SessionType
<1>2. 1..allocated \subseteq Entries
  BY <1>1, ConstantsAssumption DEF Entries
<1> QED
  BY <1>1, <1>2, Zenon DEF EntryHeld

\* A step of one goroutine that changes only its position, and may close connections.
LEMMA PositionMoves ==
  ASSUME SessionInv, NEW c \in Conns, NEW p \in {"closing", "done"},
         pc' = [pc EXCEPT ![c] = p], open' \subseteq open,
         UNCHANGED <<tableVars, entryVars, conn, timer, drained>>,
         p = "closing" => pc[c] = "stored" /\ conn[c].stale \notin open',
         p = "done" => /\ pc[c] \notin {"none", "stored", "closing"}
                       /\ \A e \in Entries : active[e] # c
  PROVE  SessionInv'
<1>1. pc'[c] = p /\ \A d \in Conns : d # c => pc'[d] = pc[d]
  BY Zenon DEF SessionInv, SessionType
<1>2. SessionType'
  BY Zenon DEF SessionInv, SessionType, tableVars, entryVars, Positions
<1>3. \A d \in Conns : EntryHeld(d)' /\ TimerLate(d)'
  <2> SUFFICES ASSUME NEW d \in Conns PROVE EntryHeld(d)' /\ TimerLate(d)'
    BY Zenon
  <2>1. EntryHeld(d) /\ TimerLate(d)
    BY Zenon DEF SessionInv
  <2> QED
    BY <1>1, <2>1, Zenon DEF EntryHeld, TimerLate, entryVars
<1>4. TableOwned'
  BY DEF SessionInv, TableOwned, tableVars, entryVars
<1>5. ActiveAccepted'
  BY <1>1 DEF SessionInv, SessionType, ActiveAccepted, entryVars
<1>6. ReplacedSessionsEnd'
  <2> SUFFICES ASSUME NEW d \in Conns, Accepted(d)', d \in open'
               PROVE  /\ Accepted(d) /\ d \in open /\ conn'[d].entry = conn[d].entry
                      /\ active[conn[d].entry] = d => active'[conn[d].entry] = d
                      /\ EndsSoon(d) => EndsSoon(d)'
    BY StillEnds, ZenonT(30) DEF SessionInv
  <2>1. Accepted(d)
    BY <1>1, Zenon DEF Accepted
  <2>2. ASSUME EndsSoon(d) PROVE EndsSoon(d)'
    BY <1>1, <2>2, ZenonT(60) DEF EndsSoon
  <2> QED
    BY <2>1, <2>2, Zenon DEF entryVars
<1> QED
  BY <1>2, <1>3, <1>4, <1>5, <1>6, Zenon DEF SessionInv

\* A step that changes neither the table, the entries nor a goroutine.
LEMMA OnlyCloses ==
  ASSUME SessionInv, open' \subseteq open,
         UNCHANGED <<tableVars, entryVars, pc, conn, timer, drained>>
  PROVE  SessionInv'
<1>1. SessionType' /\ TableOwned' /\ ActiveAccepted'
  BY DEF SessionInv, SessionType, TableOwned, ActiveAccepted, tableVars, entryVars
<1>2. \A d \in Conns : EntryHeld(d)' /\ TimerLate(d)'
  BY Zenon DEF SessionInv, EntryHeld, TimerLate, entryVars
<1>3. ReplacedSessionsEnd'
  <2>1. \A d \in Conns : (Accepted(d)' <=> Accepted(d)) /\ (EndsSoon(d) => EndsSoon(d)')
    BY ZenonT(30) DEF Accepted, EndsSoon
  <2> QED
    BY <2>1, StillEnds, ZenonT(30) DEF SessionInv, entryVars
<1> QED
  BY <1>1, <1>2, <1>3, Zenon DEF SessionInv

\* A connection arrives.
LEMMA ConnectKeeps ==
  ASSUME SessionInv, NEW c \in Conns, NEW k \in Connectors, NEW s \in Starts, Connect(c, k, s)
  PROVE  SessionInv'
<1> DEFINE new == [NoConn EXCEPT !.key = k, !.started = s]
<1>1. /\ pc[c] = "none" /\ pc' = [pc EXCEPT ![c] = "hello"]
      /\ conn' = [conn EXCEPT ![c] = new] /\ open' = open \cup {c}
      /\ UNCHANGED <<tableVars, entryVars, timer, drained>>
  BY Zenon DEF Connect
<1>2. new \in ConnType /\ new.key = k
  BY Zenon DEF NoConn, ConnType
<1> HIDE DEF new
<1>3. /\ pc'[c] = "hello" /\ conn'[c] = new
      /\ \A d \in Conns : d # c => pc'[d] = pc[d] /\ conn'[d] = conn[d]
  BY <1>1, Zenon DEF SessionInv, SessionType
<1>4. SessionType'
  BY <1>1, <1>2, Zenon DEF SessionInv, SessionType, tableVars, entryVars, Positions
<1>5. \A d \in Conns : EntryHeld(d)' /\ TimerLate(d)'
  <2> SUFFICES ASSUME NEW d \in Conns PROVE EntryHeld(d)' /\ TimerLate(d)'
    BY Zenon
  <2>1. EntryHeld(d) /\ TimerLate(d)
    BY Zenon DEF SessionInv
  <2> QED
    BY <1>1, <1>2, <1>3, <2>1, Zenon DEF EntryHeld, TimerLate, entryVars
<1>6. TableOwned'
  BY <1>1 DEF SessionInv, TableOwned, tableVars, entryVars
<1>7. ActiveAccepted'
  <2>1. \A e \in Entries : active[e] # c
    BY <1>1, ConstantsAssumption DEF SessionInv, ActiveAccepted
  <2> QED
    BY <1>1, <1>3, <2>1 DEF SessionInv, SessionType, ActiveAccepted, entryVars
<1>8. ReplacedSessionsEnd'
  <2> SUFFICES ASSUME NEW d \in Conns, Accepted(d)', d \in open'
               PROVE  /\ Accepted(d) /\ d \in open /\ conn'[d].entry = conn[d].entry
                      /\ active[conn[d].entry] = d => active'[conn[d].entry] = d
                      /\ EndsSoon(d) => EndsSoon(d)'
    BY StillEnds, ZenonT(30) DEF SessionInv
  <2>1. d # c /\ Accepted(d) /\ d \in open
    BY <1>1, <1>3, Zenon DEF Accepted
  <2>2. ASSUME EndsSoon(d) PROVE EndsSoon(d)'
    BY <1>1, <1>3, <2>2, ZenonT(60) DEF EndsSoon
  <2> QED
    BY <1>1, <1>3, <2>1, <2>2, Zenon DEF entryVars
<1> QED
  BY <1>4, <1>5, <1>6, <1>7, <1>8, Zenon DEF SessionInv

\* The goroutine finds the entry of its connector.
LEMMA LookupKeeps ==
  ASSUME SessionInv, NEW c \in Conns, pc[c] = "hello", registry[conn[c].key] # None,
         conn' = [conn EXCEPT ![c].entry = registry[conn[c].key]],
         pc' = [pc EXCEPT ![c] = "looked"],
         UNCHANGED <<tableVars, entryVars, open, drained, timer>>
  PROVE  SessionInv'
<1> DEFINE k == conn[c].key
           e == registry[k]
<1>1. k \in Connectors
  BY Zenon DEF SessionInv, EntryHeld
<1>2. e \in 1..allocated /\ owner[e] = k /\ e \in Entries
  BY <1>1 DEF SessionInv, TableOwned, SessionType
<1>3. /\ conn'[c] = [conn[c] EXCEPT !.entry = e] /\ pc'[c] = "looked"
      /\ \A d \in Conns : d # c => pc'[d] = pc[d] /\ conn'[d] = conn[d]
      /\ DOMAIN conn' = Conns /\ conn' = [d \in Conns |-> conn'[d]]
  BY ZenonT(60) DEF SessionInv, SessionType
<1>4. conn[c] \in ConnType
  BY Zenon DEF SessionInv, SessionType
<1> HIDE DEF e
<1>5. conn'[c] \in ConnType /\ conn'[c].entry = e /\ conn'[c].key = k
  BY <1>2, <1>3, <1>4, ZenonT(60) DEF ConnType
<1>6. SessionType'
  BY <1>3, <1>5, Zenon DEF SessionInv, SessionType, tableVars, entryVars, Positions
<1>7. \A d \in Conns : EntryHeld(d)' /\ TimerLate(d)'
  <2> SUFFICES ASSUME NEW d \in Conns PROVE EntryHeld(d)' /\ TimerLate(d)'
    BY Zenon
  <2>1. EntryHeld(d) /\ TimerLate(d)
    BY Zenon DEF SessionInv
  <2> QED
    BY <1>1, <1>2, <1>3, <1>5, <2>1, ZenonT(60) DEF EntryHeld, TimerLate, entryVars
<1>8. TableOwned'
  BY DEF SessionInv, TableOwned, tableVars, entryVars
<1>9. ActiveAccepted'
  <2>1. \A f \in Entries : active[f] # c
    BY ConstantsAssumption, Zenon DEF SessionInv, ActiveAccepted
  <2> QED
    BY <1>3, <2>1 DEF SessionInv, SessionType, ActiveAccepted, entryVars
<1>10. ReplacedSessionsEnd'
  <2> SUFFICES ASSUME NEW d \in Conns, Accepted(d)', d \in open'
               PROVE  /\ Accepted(d) /\ d \in open /\ conn'[d].entry = conn[d].entry
                      /\ active[conn[d].entry] = d => active'[conn[d].entry] = d
                      /\ EndsSoon(d) => EndsSoon(d)'
    BY StillEnds, ZenonT(30) DEF SessionInv
  <2>1. d # c /\ Accepted(d) /\ d \in open
    BY <1>3, Zenon DEF Accepted
  <2>2. ASSUME EndsSoon(d) PROVE EndsSoon(d)'
    BY <1>3, <2>2 DEF EndsSoon
  <2> QED
    BY <1>3, <2>1, <2>2, Zenon DEF entryVars
<1> QED
  BY <1>6, <1>7, <1>8, <1>9, <1>10, Zenon DEF SessionInv

\* The identity is checked, and the target of the entry goes into the answer.
LEMMA CheckKeeps ==
  ASSUME SessionInv, TargetInv, NEW c \in Conns, CheckIdentity(c)
  PROVE  SessionInv'
<1> DEFINE t == target[conn[c].entry]
<1>1. /\ pc[c] = "looked" /\ pc' = [pc EXCEPT ![c] = "checked"]
      /\ conn' = [conn EXCEPT ![c].told = t]
      /\ UNCHANGED <<tableVars, entryVars, open, drained, timer>>
  BY Zenon DEF CheckIdentity
<1>2. t \in Targets \cup {None}
  BY <1>1, HeldInBounds, Zenon DEF TargetInv
<1> HIDE DEF t
<1>3. /\ conn'[c] = [conn[c] EXCEPT !.told = t] /\ pc'[c] = "checked"
      /\ \A d \in Conns : d # c => pc'[d] = pc[d] /\ conn'[d] = conn[d]
      /\ DOMAIN conn' = Conns /\ conn' = [d \in Conns |-> conn'[d]]
  BY <1>1, ZenonT(60) DEF SessionInv, SessionType
<1>4. conn[c] \in ConnType
  BY Zenon DEF SessionInv, SessionType
<1>5. /\ conn'[c] \in ConnType
      /\ conn'[c].entry = conn[c].entry /\ conn'[c].key = conn[c].key
  BY <1>2, <1>3, <1>4, ZenonT(60) DEF ConnType
<1>6. SessionType'
  BY <1>1, <1>3, <1>5, Zenon DEF SessionInv, SessionType, tableVars, entryVars, Positions
<1>7. \A d \in Conns : EntryHeld(d)' /\ TimerLate(d)'
  <2> SUFFICES ASSUME NEW d \in Conns PROVE EntryHeld(d)' /\ TimerLate(d)'
    BY Zenon
  <2>1. EntryHeld(d) /\ TimerLate(d)
    BY Zenon DEF SessionInv
  <2> QED
    BY <1>1, <1>3, <1>5, <2>1, ZenonT(60) DEF EntryHeld, TimerLate, entryVars
<1>8. TableOwned'
  BY <1>1 DEF SessionInv, TableOwned, tableVars, entryVars
<1>9. ActiveAccepted'
  <2>1. \A f \in Entries : active[f] # c
    BY <1>1, ConstantsAssumption, Zenon DEF SessionInv, ActiveAccepted
  <2> QED
    BY <1>1, <1>3, <2>1 DEF SessionInv, SessionType, ActiveAccepted, entryVars
<1>10. ReplacedSessionsEnd'
  <2> SUFFICES ASSUME NEW d \in Conns, Accepted(d)', d \in open'
               PROVE  /\ Accepted(d) /\ d \in open /\ conn'[d].entry = conn[d].entry
                      /\ active[conn[d].entry] = d => active'[conn[d].entry] = d
                      /\ EndsSoon(d) => EndsSoon(d)'
    BY StillEnds, ZenonT(30) DEF SessionInv
  <2>1. d # c /\ Accepted(d) /\ d \in open
    BY <1>1, <1>3, Zenon DEF Accepted
  <2>2. ASSUME EndsSoon(d) PROVE EndsSoon(d)'
    BY <1>1, <1>3, <2>2 DEF EndsSoon
  <2> QED
    BY <1>1, <1>3, <2>1, <2>2, Zenon DEF entryVars
<1> QED
  BY <1>6, <1>7, <1>8, <1>9, <1>10, Zenon DEF SessionInv

\* The newer session becomes the active one of its entry.
LEMMA StoreKeeps ==
  ASSUME SessionInv, NEW c \in Conns, StoreSession(c)
  PROVE  SessionInv'
<1> DEFINE e == conn[c].entry
           previous == active[e]
           stale == IF draining[e] # previous THEN draining[e] ELSE None
<1>1. EntryHeld(c) /\ pc[c] = "checked" /\ timer[c] = None
  BY Zenon DEF SessionInv, StoreSession, TimerLate
<1>2. e \in 1..allocated /\ e \in Entries /\ owner[e] = conn[c].key
  BY <1>1, HeldInBounds, Zenon DEF EntryHeld
<1>3. \A f \in Entries : active[f] # c
  BY <1>1, ConstantsAssumption DEF SessionInv, ActiveAccepted
<1>4. previous \in Conns \cup {None} /\ stale \in Conns \cup {None}
  BY <1>2, Zenon DEF SessionInv, SessionType
<1> HIDE DEF stale
<1>5. /\ conn'[c] = [conn[c] EXCEPT !.stale = stale, !.previous = previous]
      /\ \A d \in Conns : d # c => conn'[d] = conn[d]
      /\ conn' = [d \in Conns |-> conn'[d]]
  BY ZenonT(60) DEF SessionInv, SessionType, StoreSession, stale
<1>6. conn[c] \in ConnType
  BY Zenon DEF SessionInv, SessionType
<1>7. /\ conn'[c] \in ConnType /\ conn'[c].entry = e /\ conn'[c].key = conn[c].key
      /\ conn'[c].previous = previous
  BY <1>4, <1>5, <1>6, Zenon DEF ConnType
<1>8. /\ active' = [active EXCEPT ![e] = c] /\ pc' = [pc EXCEPT ![c] = "stored"]
      /\ drained' = IF previous = None THEN drained ELSE drained \cup {previous}
      /\ draining' = IF previous = None THEN draining ELSE [draining EXCEPT ![e] = previous]
      /\ UNCHANGED <<registry, routes, owner, allocated, open, timer>>
  BY Zenon DEF StoreSession, tableVars
<1>9. /\ active'[e] = c /\ \A f \in Entries : f # e => active'[f] = active[f]
      /\ pc'[c] = "stored" /\ \A d \in Conns : d # c => pc'[d] = pc[d]
  BY <1>2, <1>8, Zenon DEF SessionInv, SessionType
<1>10. SessionType'
  BY <1>2, <1>4, <1>5, <1>7, <1>8, Zenon DEF SessionInv, SessionType, Positions
<1> HIDE DEF e
<1>11. \A d \in Conns : EntryHeld(d)' /\ TimerLate(d)'
  <2> SUFFICES ASSUME NEW d \in Conns PROVE EntryHeld(d)' /\ TimerLate(d)'
    BY Zenon
  <2>1. EntryHeld(d) /\ TimerLate(d)
    BY Zenon DEF SessionInv
  <2> QED
    BY <1>1, <1>2, <1>5, <1>7, <1>8, <1>9, <2>1, ZenonT(60) DEF EntryHeld, TimerLate
<1>12. TableOwned'
  BY <1>8, ZenonT(60) DEF SessionInv, TableOwned
<1>13. ActiveAccepted'
  <2>1. previous # None => /\ pc[previous] \in {"stored", "closing", "serving"}
                           /\ conn[previous].entry = e /\ previous # c /\ previous \in Conns
    BY <1>2, <1>3, <1>4, Zenon DEF SessionInv, ActiveAccepted
  <2>2. c \notin drained
    BY <1>1, Zenon DEF SessionInv, ActiveAccepted
  <2>3. \A d \in drained' : d \in drained \/ (previous # None /\ d = previous)
    BY <1>8, Zenon
  <2>4. ASSUME NEW f \in Entries, active'[f] # None
        PROVE  /\ pc'[active'[f]] \in {"stored", "closing", "serving"}
               /\ conn'[active'[f]].entry = f
               /\ active'[f] \notin drained'
    <3>1. CASE f = e
      BY <1>7, <1>9, <2>1, <2>2, <2>3, <3>1, Zenon
    <3>2. CASE f # e
      <4>1. active'[f] = active[f] /\ active[f] # c /\ active[f] \in Conns
        BY <1>3, <1>9, <2>4, <3>2, Zenon DEF SessionInv, SessionType
      <4>2. /\ pc[active[f]] \in {"stored", "closing", "serving"}
            /\ conn[active[f]].entry = f /\ active[f] \notin drained
        BY <2>4, <4>1, Zenon DEF SessionInv, ActiveAccepted
      <4> QED
        BY <1>5, <1>9, <2>1, <2>3, <3>2, <4>1, <4>2
    <3> QED
      BY <3>1, <3>2, Zenon
  <2>5. ASSUME NEW d \in Conns, d \in drained'
        PROVE  pc'[d] \notin {"none", "hello", "looked", "checked"}
    BY <1>9, <2>1, <2>3, <2>5 DEF SessionInv, ActiveAccepted
  <2> QED
    BY <2>4, <2>5, Zenon DEF ActiveAccepted
<1>14. ReplacedSessionsEnd'
  <2> SUFFICES ASSUME NEW d \in Conns, Accepted(d)', d \in open'
               PROVE  active'[conn'[d].entry] = d \/ EndsSoon(d)'
    BY EndsSoonSeenNext, ZenonT(30) DEF ReplacedSessionsEnd, EndsSoonView
  <2>1. CASE d = c
    BY <1>7, <1>9, <2>1, Zenon
  <2>2. CASE d # c
    <3>1. Accepted(d) /\ d \in open /\ conn'[d] = conn[d] /\ d # None
      BY <1>5, <1>8, <1>9, <2>2, ConstantsAssumption, Zenon DEF Accepted
    <3>2. conn[d].entry \in Entries
      BY <3>1, HeldInBounds, Zenon DEF Accepted
    <3>3. active[conn[d].entry] = d \/ EndsSoon(d)
      BY <3>1, EndsSoonSeen, Zenon DEF SessionInv, ReplacedSessionsEnd, EndsSoonView
    <3>4. ASSUME EndsSoon(d) PROVE EndsSoon(d)'
      <4>1. PICK b \in Conns : \/ timer[b] = d
                               \/ pc[b] = "stored" /\ conn[b].stale = d
                               \/ pc[b] \in {"stored", "closing"} /\ conn[b].previous = d
        BY <3>4, Zenon DEF EndsSoon
      <4>2. b # c
        BY <1>1, <3>1, <4>1, Zenon
      <4>3. timer'[b] = timer[b] /\ pc'[b] = pc[b] /\ conn'[b] = conn[b]
        BY <1>5, <1>8, <1>9, <4>2, Zenon
      <4> QED
        BY <4>1, <4>3, Zenon DEF EndsSoon
    <3>5. ASSUME active[conn[d].entry] = d, conn[d].entry = e PROVE EndsSoon(d)'
      BY <1>7, <1>9, <3>5, Zenon DEF EndsSoon
    <3> QED
      BY <1>9, <3>1, <3>2, <3>3, <3>4, <3>5, Zenon
  <2> QED
    BY <2>1, <2>2, Zenon
<1> QED
  BY <1>10, <1>11, <1>12, <1>13, <1>14, Zenon DEF SessionInv

\* The drain timer of the replaced session starts.
LEMMA ReadyKeeps ==
  ASSUME SessionInv, NEW c \in Conns, ConnectorReady(c)
  PROVE  SessionInv'
<1>1. /\ pc[c] = "closing" /\ timer[c] = None /\ conn[c] \in ConnType
      /\ timer' = [timer EXCEPT ![c] = conn[c].previous]
      /\ pc' = [pc EXCEPT ![c] = "serving"]
      /\ UNCHANGED <<tableVars, entryVars, conn, open, drained>>
  BY Zenon DEF SessionInv, SessionType, ConnectorReady, TimerLate
<1>2. /\ pc'[c] = "serving" /\ timer'[c] = conn[c].previous
      /\ \A d \in Conns : d # c => pc'[d] = pc[d] /\ timer'[d] = timer[d]
  BY <1>1, Zenon DEF SessionInv, SessionType
<1>3. SessionType'
  BY <1>1, Zenon DEF SessionInv, SessionType, ConnType, tableVars, entryVars, Positions
<1>4. \A d \in Conns : EntryHeld(d)' /\ TimerLate(d)'
  <2> SUFFICES ASSUME NEW d \in Conns PROVE EntryHeld(d)' /\ TimerLate(d)'
    BY Zenon
  <2>1. EntryHeld(d) /\ TimerLate(d)
    BY Zenon DEF SessionInv
  <2> QED
    BY <1>1, <1>2, <2>1, Zenon DEF EntryHeld, TimerLate, entryVars
<1>5. TableOwned'
  BY <1>1, ZenonT(60) DEF SessionInv, TableOwned, tableVars, entryVars
<1>6. ActiveAccepted'
  BY <1>1, <1>2 DEF SessionInv, SessionType, ActiveAccepted, entryVars
<1>7. ReplacedSessionsEnd'
  <2> SUFFICES ASSUME NEW d \in Conns, Accepted(d)', d \in open'
               PROVE  /\ Accepted(d) /\ d \in open /\ conn'[d].entry = conn[d].entry
                      /\ active[conn[d].entry] = d => active'[conn[d].entry] = d
                      /\ EndsSoon(d) => EndsSoon(d)'
    BY StillEnds, ZenonT(30) DEF SessionInv
  <2>1. Accepted(d) /\ d # None
    BY <1>1, <1>2, ConstantsAssumption, Zenon DEF Accepted
  <2>2. ASSUME EndsSoon(d) PROVE EndsSoon(d)'
    BY <1>1, <1>2, <2>1, <2>2 DEF EndsSoon
  <2> QED
    BY <1>1, <2>1, <2>2, Zenon DEF entryVars
<1> QED
  BY <1>3, <1>4, <1>5, <1>6, <1>7, Zenon DEF SessionInv

\* No active session but one that was accepted for the entry it holds.
LEMMA ActiveHolds ==
  ASSUME SessionInv, NEW c \in Conns, NEW f \in Entries, active[f] = c
  PROVE  conn[c].entry = f /\ pc[c] \in {"stored", "closing", "serving"}
  BY ConstantsAssumption, ZenonT(60) DEF SessionInv, ActiveAccepted

\* A session ends and clears its entry.
LEMMA EndKeeps ==
  ASSUME SessionInv, NEW c \in Conns, SessionEnds(c), active[conn[c].entry] = c
  PROVE  SessionInv'
<1> DEFINE e == conn[c].entry
<1>1. /\ pc[c] = "serving" /\ c \notin open
      /\ active' = [active EXCEPT ![e] = None] /\ pc' = [pc EXCEPT ![c] = "swapped"]
      /\ UNCHANGED <<registry, routes, owner, draining, allocated, conn, open, drained, timer>>
  BY Zenon DEF SessionEnds, tableVars
<1>3. e \in Entries
  BY <1>1, HeldInBounds, Zenon
<1>4. /\ active'[e] = None /\ \A f \in Entries : f # e => active'[f] = active[f]
      /\ pc'[c] = "swapped" /\ \A d \in Conns : d # c => pc'[d] = pc[d]
  BY <1>1, <1>3, Zenon DEF SessionInv, SessionType
<1>5. SessionType'
  BY <1>1, ZenonT(60) DEF SessionInv, SessionType, Positions
<1>6. \A d \in Conns : EntryHeld(d)' /\ TimerLate(d)'
  <2> SUFFICES ASSUME NEW d \in Conns PROVE EntryHeld(d)' /\ TimerLate(d)'
    BY Zenon
  <2>1. EntryHeld(d) /\ TimerLate(d)
    BY Zenon DEF SessionInv
  <2> QED
    BY <1>1, <1>4, <2>1, Zenon DEF EntryHeld, TimerLate
<1>7. TableOwned'
  BY <1>1, ZenonT(60) DEF SessionInv, TableOwned
<1>8. ActiveAccepted'
  <2>1. \A f \in Entries : f # e => active[f] # c
    BY ActiveHolds, ZenonT(60)
  <2> QED
    BY <1>1, <1>4, <2>1, SMTT(60) DEF SessionInv, SessionType, ActiveAccepted
<1>9. ReplacedSessionsEnd'
  <2> SUFFICES ASSUME NEW d \in Conns, Accepted(d)', d \in open'
               PROVE  /\ Accepted(d) /\ d \in open /\ conn'[d].entry = conn[d].entry
                      /\ active[conn[d].entry] = d => active'[conn[d].entry] = d
                      /\ EndsSoon(d) => EndsSoon(d)'
    BY StillEnds, ZenonT(60) DEF SessionInv
  <2>1. Accepted(d) /\ d # c /\ d \in open
    BY <1>1, <1>4, Zenon DEF Accepted
  <2>2. conn[d].entry \in Entries
    BY <2>1, HeldInBounds, Zenon DEF Accepted
  <2>3. ASSUME EndsSoon(d) PROVE EndsSoon(d)'
    BY <1>1, <1>4, <2>3, Zenon DEF EndsSoon
  <2> QED
    BY <1>1, <1>4, <2>1, <2>2, <2>3, Zenon
<1> QED
  BY <1>5, <1>6, <1>7, <1>8, <1>9, Zenon DEF SessionInv

\* A drain timer fires.
LEMMA DrainKeeps ==
  ASSUME SessionInv, NEW c \in Conns, DrainTimer(c)
  PROVE  SessionInv'
<1> DEFINE e == conn[c].entry
           left == IF draining[e] = timer[c] THEN None ELSE draining[e]
<1>1. /\ timer[c] # None /\ open' = open \ {timer[c]}
      /\ draining' = [draining EXCEPT ![e] = left]
      /\ timer' = [timer EXCEPT ![c] = None]
      /\ UNCHANGED <<registry, routes, owner, active, allocated, pc, conn, drained>>
  BY ZenonT(60) DEF DrainTimer, tableVars
<1>2. timer'[c] = None /\ \A d \in Conns : d # c => timer'[d] = timer[d]
  BY <1>1, Zenon DEF SessionInv, SessionType
<1>3. SessionType'
  BY <1>1, ZenonT(60) DEF SessionInv, SessionType
<1>4. \A d \in Conns : EntryHeld(d)' /\ TimerLate(d)'
  <2> SUFFICES ASSUME NEW d \in Conns PROVE EntryHeld(d)' /\ TimerLate(d)'
    BY Zenon
  <2>1. EntryHeld(d) /\ TimerLate(d)
    BY Zenon DEF SessionInv
  <2> QED
    BY <1>1, <1>2, <2>1, Zenon DEF EntryHeld, TimerLate
<1>5. TableOwned' /\ ActiveAccepted'
  BY <1>1, SMTT(60) DEF SessionInv, TableOwned, ActiveAccepted
<1>6. ReplacedSessionsEnd'
  <2> SUFFICES ASSUME NEW d \in Conns, Accepted(d)', d \in open'
               PROVE  /\ Accepted(d) /\ d \in open /\ conn'[d].entry = conn[d].entry
                      /\ active[conn[d].entry] = d => active'[conn[d].entry] = d
                      /\ EndsSoon(d) => EndsSoon(d)'
    BY StillEnds, ZenonT(30) DEF SessionInv
  <2>1. Accepted(d) /\ d \in open /\ d # timer[c]
    BY <1>1, Zenon DEF Accepted
  <2>2. ASSUME EndsSoon(d) PROVE EndsSoon(d)'
    BY <1>1, <1>2, <2>1, <2>2, Zenon DEF EndsSoon
  <2> QED
    BY <1>1, <2>1, <2>2, Zenon
<1> QED
  BY <1>3, <1>4, <1>5, <1>6, Zenon DEF SessionInv

\* The connectors that keep a route have different prefixes.
LEMMA RoutedApart ==
  ASSUME NEW k \in (Static \ Shadowed) \cup ActiveKeys,
         NEW l \in (Static \ Shadowed) \cup ActiveKeys,
         PrefixOf[k] = PrefixOf[l]
  PROVE  k = l
  BY ConstantsAssumption, Zenon DEF Shadowed, ActiveKeys

\* The connectors that keep a route.
Routed == (Static \ Shadowed) \cup ActiveKeys

\* What a refresh makes of the table: entries keep their owners, a connector keeps its entry,
\* loses it or gets a new one, and the connectors that keep a route have an entry.
LEMMA RefreshEffect ==
  ASSUME SessionInv, refreshDynamic
  PROVE  /\ registry' \in [Connectors -> Entries \cup {None}] /\ DOMAIN owner' = Entries
         /\ allocated' \in 0..MaxEntries /\ 1..allocated \subseteq 1..allocated'
         /\ 1..allocated' \subseteq Entries
         /\ \A e \in 1..allocated : owner'[e] = owner[e]
         /\ \A e \in Entries : owner'[e] = owner[e] \/ e \in 1..allocated'
         /\ \A k \in Connectors : registry'[k] # None =>
              registry'[k] \in 1..allocated' /\ owner'[registry'[k]] = k
         /\ \A k \in Connectors : registry'[k] \in 1..allocated => registry'[k] = registry[k]
         /\ \A k \in Routed : k \in Connectors /\ registry'[k] # None
         /\ \A k \in Connectors \ Routed : k \in Static \/ registry'[k] = None
         /\ routes' = {registry'[k] : k \in Routed}
<1> DEFINE n == Cardinality(Renewed)
<1>1. n \in Nat
  <2>1. Renewed \subseteq Connectors
    BY Zenon DEF Renewed, ActiveKeys, Connectors
  <2> QED
    BY <2>1, FS_Subset, FS_CardinalityType, ConstantsAssumption, Zenon
<1>2. PICK fresh \in [Renewed -> (allocated + 1)..(allocated + n)] :
        /\ \A k, l \in Renewed : fresh[k] = fresh[l] => k = l
        /\ registry' = [k \in Connectors |-> IF k \in Renewed THEN fresh[k]
                                             ELSE IF k \in Dropped THEN None ELSE registry[k]]
        /\ owner' = [e \in Entries |-> IF {k \in Renewed : fresh[k] = e} = {} THEN owner[e]
                                       ELSE CHOOSE k \in {l \in Renewed : fresh[l] = e} : TRUE]
  BY ZenonT(60) DEF refreshDynamic
<1>3. /\ allocated' = allocated + n /\ allocated + n <= MaxEntries
      /\ routes' = {registry'[k] : k \in Routed}
  BY Zenon DEF refreshDynamic, Routed
<1>4. allocated \in Nat /\ MaxEntries \in Nat /\ 1..(allocated + n) \subseteq Entries
  BY <1>1, <1>3, ConstantsAssumption DEF SessionInv, SessionType, Entries
<1> HIDE DEF n
<1>5. \A k \in Renewed : /\ fresh[k] \in 1..(allocated + n) /\ fresh[k] \notin 1..allocated
                         /\ fresh[k] \in Entries
  BY <1>1, <1>2, <1>4
<1>6. 1..allocated \subseteq 1..(allocated + n)
  BY <1>1, <1>4
<1>7. \A e \in 1..allocated : owner'[e] = owner[e]
  <2> SUFFICES ASSUME NEW e \in 1..allocated PROVE owner'[e] = owner[e]
    BY Zenon
  <2>1. {k \in Renewed : fresh[k] = e} = {} /\ e \in Entries
    BY <1>4, <1>5, <1>6, Zenon
  <2> QED
    BY <1>2, <2>1, Zenon
<1>8. \A k \in Renewed : owner'[fresh[k]] = k
  <2> SUFFICES ASSUME NEW k \in Renewed PROVE owner'[fresh[k]] = k
    BY Zenon
  <2>1. {l \in Renewed : fresh[l] = fresh[k]} = {k} /\ fresh[k] \in Entries
    BY <1>2, <1>5, Zenon
  <2> QED
    BY <1>2, <2>1, Zenon
<1>9. \A k \in Connectors : registry'[k] # None =>
        registry'[k] \in 1..(allocated + n) /\ owner'[registry'[k]] = k
  <2> SUFFICES ASSUME NEW k \in Connectors, registry'[k] # None
               PROVE  registry'[k] \in 1..(allocated + n) /\ owner'[registry'[k]] = k
    BY Zenon
  <2>1. CASE k \in Renewed
    BY <1>2, <1>5, <1>8, <2>1, Zenon
  <2>2. CASE k \notin Renewed
    <3>1. registry'[k] = registry[k]
      BY <1>2, <2>2, Zenon
    <3>2. registry[k] \in 1..allocated /\ owner[registry[k]] = k
      BY <3>1, Zenon DEF SessionInv, TableOwned
    <3> QED
      BY <1>6, <1>7, <3>1, <3>2, Zenon
  <2> QED
    BY <2>1, <2>2, Zenon
<1>10. \A k \in Routed : k \in Connectors /\ registry'[k] # None
  <2> SUFFICES ASSUME NEW k \in Routed PROVE k \in Connectors /\ registry'[k] # None
    BY Zenon
  <2>1. k \in Connectors
    BY Zenon DEF Routed, Connectors, ActiveKeys
  <2>2. CASE k \in Renewed
    BY <1>2, <1>5, <2>1, <2>2, ConstantsAssumption, ZenonT(60)
  <2>3. CASE k \notin Renewed
    <3>1. k \notin Dropped /\ registry[k] # None
      BY <2>3, ConstantsAssumption, Zenon
         DEF Routed, Dropped, Renewed, ActiveKeys, SessionInv, TableOwned
    <3> QED
      BY <1>2, <2>1, <2>3, <3>1, ZenonT(60)
  <2> QED
    BY <2>2, <2>3, Zenon
<1>11. registry' \in [Connectors -> Entries \cup {None}]
  BY <1>2, <1>5, ZenonT(60) DEF SessionInv, SessionType
<1>12. allocated' \in 0..MaxEntries
  BY <1>1, <1>3, <1>4
<1>13. \A e \in Entries : owner'[e] = owner[e] \/ e \in 1..(allocated + n)
  <2> SUFFICES ASSUME NEW e \in Entries, e \notin 1..(allocated + n) PROVE owner'[e] = owner[e]
    BY Zenon
  <2>1. {k \in Renewed : fresh[k] = e} = {}
    BY <1>5, Zenon
  <2> QED
    BY <1>2, <2>1, Zenon
<1>14. \A k \in Connectors : registry'[k] \in 1..allocated => registry'[k] = registry[k]
  <2> SUFFICES ASSUME NEW k \in Connectors, registry'[k] \in 1..allocated
               PROVE  registry'[k] = registry[k]
    BY Zenon
  <2>1. k \notin Renewed
    BY <1>2, <1>5, Zenon
  <2>2. registry'[k] # None
    BY <1>4, <1>6, ConstantsAssumption, Zenon
  <2> QED
    BY <1>2, <2>1, <2>2, Zenon
<1>15. \A k \in Connectors \ Routed : k \in Static \/ registry'[k] = None
  <2> SUFFICES ASSUME NEW k \in Dynamic, k \notin Routed PROVE registry'[k] = None
    BY Zenon DEF Connectors
  <2>1. k \notin ActiveKeys /\ k \notin Renewed /\ k \in Connectors
    BY Zenon DEF Routed, Renewed, Connectors
  <2>2. k \in Dropped \/ registry[k] = None
    BY <2>1, Zenon DEF Dropped
  <2> QED
    BY <1>2, <2>1, <2>2, Zenon
<1> QED
  BY <1>2, <1>3, <1>4, <1>6, <1>7, <1>9, <1>10, <1>11, <1>12, <1>13, <1>14, <1>15, ZenonT(60)

\* The table is refreshed from the registry.
LEMMA RefreshKeeps ==
  ASSUME SessionInv, refreshDynamic
  PROVE  SessionInv'
<1>1. /\ registry' \in [Connectors -> Entries \cup {None}] /\ DOMAIN owner' = Entries
      /\ allocated' \in 0..MaxEntries /\ 1..allocated \subseteq 1..allocated'
      /\ 1..allocated' \subseteq Entries
      /\ \A e \in 1..allocated : owner'[e] = owner[e]
      /\ \A k \in Connectors : registry'[k] # None =>
           registry'[k] \in 1..allocated' /\ owner'[registry'[k]] = k
      /\ \A k \in Routed : k \in Connectors /\ registry'[k] # None
      /\ routes' = {registry'[k] : k \in Routed}
  BY RefreshEffect, ZenonT(60)
<1>2. /\ open' = open \ Evicted
      /\ UNCHANGED <<active, draining, pc, conn, drained, timer>>
  BY Zenon DEF refreshDynamic
<1>3. \A e \in routes' : \E k \in Routed : e = registry'[k] /\ e \in 1..allocated' /\ owner'[e] = k
  BY <1>1
<1>4. SessionType'
  BY <1>1, <1>2, <1>3, Zenon DEF SessionInv, SessionType
<1>5. \A d \in Conns : EntryHeld(d)' /\ TimerLate(d)'
  <2> SUFFICES ASSUME NEW d \in Conns PROVE EntryHeld(d)' /\ TimerLate(d)'
    BY Zenon
  <2>1. EntryHeld(d) /\ TimerLate(d)
    BY ZenonT(60) DEF SessionInv
  <2>2. EntryHeld(d)'
    BY <1>1, <1>2, <2>1, Zenon DEF EntryHeld
  <2>3. TimerLate(d)'
    BY <1>2, <2>1, Zenon DEF TimerLate
  <2> QED
    BY <2>2, <2>3, Zenon
<1>6. TableOwned'
  <2>1. \A k \in Static : registry'[k] # None
    <3> SUFFICES ASSUME NEW k \in Static PROVE registry'[k] # None
      BY Zenon
    <3>1. k \in Connectors /\ k \notin Renewed /\ k \notin Dropped /\ registry[k] # None
      BY ConstantsAssumption, Zenon
      DEF Connectors, Renewed, Dropped, ActiveKeys, SessionInv, TableOwned
    <3>2. PICK fresh : registry' = [l \in Connectors |-> IF l \in Renewed THEN fresh[l]
                                              ELSE IF l \in Dropped THEN None ELSE registry[l]]
      BY ZenonT(30) DEF refreshDynamic
    <3> QED
      BY <3>1, <3>2, Zenon
  <2>2. \A e, f \in routes' : PrefixOf[owner'[e]] = PrefixOf[owner'[f]] => e = f
    <3> SUFFICES ASSUME NEW e \in routes', NEW f \in routes',
                        PrefixOf[owner'[e]] = PrefixOf[owner'[f]]
                 PROVE  e = f
      BY Zenon
    <3>1. PICK k \in Routed : e = registry'[k] /\ owner'[e] = k
      BY <1>3, Zenon
    <3>2. PICK l \in Routed : f = registry'[l] /\ owner'[f] = l
      BY <1>3, Zenon
    <3> QED
      BY <3>1, <3>2, RoutedApart, Zenon DEF Routed
  <2>3. \A e \in routes' : e \in 1..allocated'
    BY <1>3, Zenon
  <2> QED
    BY <1>1, <2>1, <2>2, <2>3, Zenon DEF TableOwned
<1>7. ActiveAccepted'
  BY <1>2, Zenon DEF SessionInv, ActiveAccepted
<1>8. ReplacedSessionsEnd'
  <2>1. \A d \in Conns : (Accepted(d)' <=> Accepted(d)) /\ (EndsSoon(d) => EndsSoon(d)')
    BY <1>2, ZenonT(30) DEF Accepted, EndsSoon
  <2> QED
    BY <1>2, <2>1, StillEnds, ZenonT(30) DEF SessionInv
<1> QED
  BY <1>4, <1>5, <1>6, <1>7, <1>8, Zenon DEF SessionInv

\* At the start every static connector has an entry of its own.
LEMMA InitSessionInv == Init => SessionInv
<1> SUFFICES ASSUME Init PROVE SessionInv
  BY Zenon
<1> DEFINE n == Cardinality(Static)
<1>1. IsFiniteSet(Static) /\ n \in Nat
  BY FS_Subset, FS_CardinalityType, ConstantsAssumption, Zenon DEF Connectors
<1>2. PICK f \in [Static -> 1..n] :
        /\ \A k, l \in Static : f[k] = f[l] => k = l
        /\ registry = [k \in Connectors |-> IF k \in Static THEN f[k] ELSE None]
        /\ owner = [e \in Entries |-> IF \E k \in Static : f[k] = e
                                      THEN CHOOSE k \in Static : f[k] = e ELSE None]
  BY ZenonT(60) DEF Init
<1>3. /\ allocated = n /\ routes = 1..n
      /\ active = [e \in Entries |-> None] /\ draining = [e \in Entries |-> None]
      /\ pc = [c \in Conns |-> "none"] /\ conn = [c \in Conns |-> NoConn]
      /\ open = {} /\ drained = {} /\ timer = [c \in Conns |-> None]
  BY Zenon DEF Init
<1>4. n <= MaxEntries /\ MaxEntries \in Nat
  BY ConstantsAssumption, Zenon
<1> HIDE DEF n
<1>5. 1..n \subseteq Entries
  BY <1>1, <1>4 DEF Entries
<1>6. \A k \in Static : f[k] \in Entries /\ owner[f[k]] = k
  <2> SUFFICES ASSUME NEW k \in Static PROVE f[k] \in Entries /\ owner[f[k]] = k
    BY Zenon
  <2>1. f[k] \in Entries
    BY <1>2, <1>5, Zenon
  <2>2. owner[f[k]] = CHOOSE l \in Static : f[l] = f[k]
    BY <1>2, <2>1, Zenon
  <2> QED
    BY <1>2, <2>1, <2>2, Zenon
<1>7. \A e \in 1..n : \E k \in Static : f[k] = e
  <2>1. f \in Injection(Static, 1..n)
    BY <1>2, Zenon DEF Injection, IsInjective
  <2>2. IsFiniteSet(1..n) /\ Cardinality(1..n) = n
    BY <1>1, FS_Interval
  <2>3. f \in Surjection(Static, 1..n)
    BY <2>1, <2>2, FS_Injection, Zenon DEF n
  <2> QED
    BY <2>3, Zenon DEF Surjection
<1>8. SessionType
  <2>1. NoConn \in ConnType
    BY Zenon DEF NoConn, ConnType
  <2>2. registry \in [Connectors -> Entries \cup {None}]
    BY <1>2, <1>5, Zenon
  <2>3. allocated \in 0..MaxEntries
    BY <1>1, <1>3, <1>4, SMTT(60)
  <2> QED
    BY <1>3, <1>5, <2>1, <2>2, <2>3, Zenon DEF SessionType, Positions
<1>9. \A c \in Conns : EntryHeld(c) /\ TimerLate(c)
  BY <1>3, Zenon DEF EntryHeld, TimerLate
<1>10. TableOwned
  <2>1. \A e, g \in routes : PrefixOf[owner[e]] = PrefixOf[owner[g]] => e = g
    BY <1>3, <1>6, <1>7, ConstantsAssumption
  <2>2. \A k \in Static : registry[k] = f[k] /\ registry[k] \in 1..n /\ registry[k] # None
    <3>1. None \notin Entries /\ Static \subseteq Connectors
      BY ConstantsAssumption, Zenon DEF Connectors
    <3> QED
      BY <1>2, <1>6, <3>1
  <2>3. \A k \in Connectors : registry[k] # None => k \in Static
    BY <1>2, Zenon
  <2>4. \A k \in Connectors : registry[k] # None =>
          registry[k] \in 1..allocated /\ owner[registry[k]] = k
    BY <1>3, <1>6, <2>2, <2>3, Zenon
  <2>5. DOMAIN owner = Entries
    BY <1>2, Zenon
  <2>6. \A e \in routes : e \in 1..allocated
    BY <1>3, Zenon
  <2> QED
    BY <2>1, <2>2, <2>4, <2>5, <2>6, ZenonT(60) DEF TableOwned
<1>11. ActiveAccepted
  BY <1>3, Zenon DEF ActiveAccepted
<1>12. ReplacedSessionsEnd
  BY <1>3, Zenon DEF ReplacedSessionsEnd
<1> QED
  BY <1>8, <1>9, <1>10, <1>11, <1>12, Zenon DEF SessionInv

\* Every step keeps SessionInv.
LEMMA NextSessionInv == SessionInv /\ TargetInv /\ [Next]_vars => SessionInv'
<1> SUFFICES ASSUME SessionInv, TargetInv, [Next]_vars PROVE SessionInv'
  BY Zenon
<1>1. ASSUME NEW k \in Dynamic, Lapse(k) \/ Withdraw(k) \/ \E t \in Targets : Assign(k, t)
      PROVE  SessionInv'
  <2>1. open' \subseteq open /\ UNCHANGED <<tableVars, entryVars, pc, conn, timer, drained>>
    BY <1>1, Zenon DEF Lapse, Withdraw, Assign
  <2> QED
    BY <2>1, OnlyCloses, Zenon
<1>2. CASE ReadActive
  BY <1>2, OnlyCloses, Zenon DEF ReadActive
<1>3. CASE refreshDynamic
  BY <1>3, RefreshKeeps, Zenon
<1>4. ASSUME NEW c \in Conns, Authenticate(c) PROVE SessionInv'
  <2>1. ASSUME Refuse(c), pc[c] \in {"hello", "looked", "checked"} PROVE SessionInv'
    <3>1. \A e \in Entries : active[e] # c
      BY <2>1, ActiveHolds, Zenon
    <3>2. open' \subseteq open
      BY <2>1, Zenon DEF Refuse
    <3> QED
      BY <2>1, <3>1, <3>2, PositionMoves, ZenonT(60) DEF Refuse
  <2>2. CASE Lookup(c)
    BY <2>1, <2>2, LookupKeeps, Zenon DEF Lookup
  <2>3. CASE CheckIdentity(c)
    BY <2>3, CheckKeeps, Zenon
  <2>4. CASE CheckFails(c) \/ Superseded(c) \/ WriteFails(c)
    BY <2>1, <2>4, Zenon DEF CheckFails, Superseded, WriteFails
  <2>5. CASE StoreSession(c)
    BY <2>5, StoreKeeps, Zenon
  <2>6. CASE CloseStale(c)
    BY <2>6, PositionMoves, ZenonT(60) DEF CloseStale
  <2>7. CASE ConnectorReady(c)
    BY <2>7, ReadyKeeps, Zenon
  <2>8. CASE SessionEnds(c)
    <3>1. CASE active[conn[c].entry] = c
      BY <2>8, <3>1, EndKeeps, Zenon
    <3>2. CASE active[conn[c].entry] # c
      <4>1. \A e \in Entries : active[e] # c
        BY <3>2, ActiveHolds, Zenon
      <4> QED
        BY <2>8, <3>2, <4>1, PositionMoves, Zenon DEF SessionEnds, entryVars
    <3> QED
      BY <3>1, <3>2, Zenon
  <2>9. CASE ConnectorClosed(c)
    <3>1. \A e \in Entries : active[e] # c
      BY <2>9, ActiveHolds, Zenon DEF ConnectorClosed
    <3> QED
      BY <2>9, <3>1, PositionMoves, ZenonT(60) DEF ConnectorClosed
  <2> QED
    BY <1>4, <2>2, <2>3, <2>4, <2>5, <2>6, <2>7, <2>8, <2>9, ZenonT(60) DEF Authenticate
<1>5. ASSUME NEW c \in Conns, PeerCloses(c) PROVE SessionInv'
  BY <1>5, OnlyCloses, Zenon DEF PeerCloses
<1>6. CASE UNCHANGED vars
  BY <1>6, OnlyCloses, Zenon DEF vars
<1> QED
  BY <1>1, <1>2, <1>3, <1>4, <1>5, <1>6, ConnectKeeps, DrainKeeps, Zenon DEF Next

\* Targets come from the registrations that were read.
LEMMA NextTargetInv == TargetInv /\ [Next]_vars => TargetInv'
<1> SUFFICES ASSUME TargetInv, [Next]_vars PROVE TargetInv'
  BY Zenon
<1>1. ASSUME UNCHANGED <<assigned, read, target>> PROVE TargetInv'
  BY <1>1, Zenon DEF TargetInv
<1>2. ASSUME NEW k \in Dynamic, Lapse(k) \/ Withdraw(k) \/ \E t \in Targets : Assign(k, t)
      PROVE  TargetInv'
  <2>1. /\ UNCHANGED <<read, target>>
        /\ \E t \in Targets \cup {None} : assigned' = [assigned EXCEPT ![k] = t]
    BY <1>2, Zenon DEF Lapse, Withdraw, Assign, entryVars
  <2> QED
    BY <2>1, Zenon DEF TargetInv
<1>3. CASE ReadActive
  BY <1>3, Zenon DEF ReadActive, TargetInv, entryVars
<1>4. CASE refreshDynamic
  <2>1. read' = None /\ UNCHANGED assigned
    BY <1>4, Zenon DEF refreshDynamic
  <2>2. \A k \in Renewed : read[k] \in Targets \cup {None}
    BY <1>4, Zenon DEF refreshDynamic, Renewed, ActiveKeys, TargetInv
  <2>3. PICK fresh \in [Renewed -> (allocated + 1)..(allocated + Cardinality(Renewed))] :
          target' = [e \in Entries |->
               IF {k \in Renewed : fresh[k] = e} = {} THEN target[e]
               ELSE read[CHOOSE k \in {l \in Renewed : fresh[l] = e} : TRUE]]
    BY <1>4, ZenonT(60) DEF refreshDynamic
  <2>4. ASSUME NEW e \in Entries PROVE target'[e] \in Targets \cup {None}
    <3> DEFINE made == {l \in Renewed : fresh[l] = e}
    <3>1. CASE made = {}
      BY <2>3, <3>1, Zenon DEF TargetInv
    <3>2. CASE made # {}
      <4>1. (CHOOSE k \in made : TRUE) \in Renewed
        BY <3>2, Zenon
      <4> QED
        BY <2>2, <2>3, <3>2, <4>1, Zenon
    <3> QED
      BY <3>1, <3>2, Zenon
  <2> QED
    BY <2>1, <2>3, <2>4, Zenon DEF TargetInv
<1>5. ASSUME NEW c \in Conns, Authenticate(c) PROVE TargetInv'
  BY <1>1, <1>5, ZenonT(60)
  DEF Authenticate, Lookup, CheckIdentity, CheckFails, StoreSession, Superseded, WriteFails,
      CloseStale, ConnectorReady, SessionEnds, ConnectorClosed, Refuse, entryVars
<1>6. ASSUME NEW c \in Conns,
             DrainTimer(c) \/ PeerCloses(c)
               \/ \E k \in Connectors, s \in Starts : Connect(c, k, s)
      PROVE  TargetInv'
  BY <1>1, <1>6, ZenonT(60) DEF DrainTimer, PeerCloses, Connect, entryVars
<1>7. CASE UNCHANGED vars
  BY <1>1, <1>7, Zenon DEF vars, entryVars
<1> QED
  BY <1>2, <1>3, <1>4, <1>5, <1>6, <1>7, ZenonT(60) DEF Next

\* Both invariants hold in every reachable state.
LEMMA SessionInvariant == Spec => []SessionInv /\ []TargetInv
<1>1. Init => TargetInv
  <2> SUFFICES ASSUME Init PROVE TargetInv
    BY Zenon
  <2>1. /\ assigned = [k \in Dynamic |-> None] /\ read = None
        /\ target = [e \in Entries |->
                       IF e <= Cardinality(Static) THEN StaticTarget ELSE None]
    BY Zenon DEF Init
  <2>2. \A e \in Entries :
          (IF e <= Cardinality(Static) THEN StaticTarget ELSE None) \in Targets \cup {None}
    BY ConstantsAssumption, Zenon
  <2> QED
    BY <2>1, <2>2, Zenon DEF TargetInv
<1> QED
  BY <1>1, InitSessionInv, NextSessionInv, NextTargetInv, PTL DEF Spec

\* However many connections of a connector authenticate at the same time, a session that
\* another one replaced in its entry is about to be closed (authenticate, storeSession).
THEOREM NoSessionLeaks == Spec => []ReplacedSessionsEnd
  BY SessionInvariant, PTL DEF SessionInv

\* The session a routed entry leads to is one of the entry's own connector and is not
\* draining, and no two routed entries have the same virtual prefix, for every table of
\* connectors and every order of approvals, refreshes and handshakes (refreshDynamic).
THEOREM RoutesLeadHome == Spec => []RoutesUnambiguous
<1>1. SessionInv => RoutesUnambiguous
  <2> SUFFICES ASSUME SessionInv PROVE RoutesUnambiguous
    BY Zenon
  <2>1. ASSUME NEW e \in routes, active[e] # None
        PROVE  conn[active[e]].key = owner[e] /\ active[e] \notin drained
    <3>1. e \in Entries /\ active[e] \in Conns
      BY <2>1, Zenon DEF SessionInv, SessionType
    <3>2. /\ pc[active[e]] \in {"stored", "closing", "serving"}
          /\ conn[active[e]].entry = e /\ active[e] \notin drained
      BY <2>1, <3>1, Zenon DEF SessionInv, ActiveAccepted
    <3>3. EntryHeld(active[e])
      BY <3>1, Zenon DEF SessionInv
    <3> QED
      BY <3>2, <3>3, Zenon DEF EntryHeld
  <2>2. \A e, f \in routes : PrefixOf[owner[e]] = PrefixOf[owner[f]] => e = f
    BY Zenon DEF SessionInv, TableOwned
  <2> QED
    BY <2>1, <2>2, Zenon DEF RoutesUnambiguous
<1> QED
  BY <1>1, SessionInvariant, PTL

-----------------------------------------------------------------------------
Answering == {"checked", "stored", "closing", "serving", "swapped"}

\* The inductive invariant: a connector was told the target of the entry that its goroutine
\* holds, in the table or not.
ToldInv == \A c \in Conns : pc[c] \in Answering => conn[c].told = target[conn[c].entry]

\* A step that keeps the targets of the entries there are, and makes up no answer.
LEMMA ToldKept ==
  ASSUME SessionInv, ToldInv, \A e \in 1..allocated : target'[e] = target[e],
         \A d \in Conns : pc'[d] \in Answering =>
           /\ pc[d] \in Answering
           /\ conn'[d].told = conn[d].told /\ conn'[d].entry = conn[d].entry
  PROVE  ToldInv'
  BY HeldInBounds, ZenonT(60) DEF ToldInv, Answering

\* A refresh sets the targets of new entries only.
LEMMA TargetsStay ==
  ASSUME SessionInv, TargetInv, refreshDynamic
  PROVE  \A e \in 1..allocated : target'[e] = target[e]
<1> DEFINE n == Cardinality(Renewed)
<1>1. PICK fresh \in [Renewed -> (allocated + 1)..(allocated + n)] :
        target' = [e \in Entries |->
               IF {k \in Renewed : fresh[k] = e} = {} THEN target[e]
               ELSE read[CHOOSE k \in {l \in Renewed : fresh[l] = e} : TRUE]]
  BY ZenonT(60) DEF refreshDynamic
<1> SUFFICES ASSUME NEW e \in 1..allocated PROVE target'[e] = target[e]
  BY Zenon
<1>2. allocated \in Nat /\ e \in Entries
  BY ConstantsAssumption DEF SessionInv, SessionType, Entries
<1>3. e \notin (allocated + 1)..(allocated + n)
  BY <1>2
<1>4. {k \in Renewed : fresh[k] = e} = {}
  BY <1>1, <1>3, Zenon
<1> QED
  BY <1>1, <1>2, <1>4, Zenon

\* Every step keeps what a session was told in its handshake.
LEMMA NextToldInv == SessionInv /\ TargetInv /\ ToldInv /\ [Next]_vars => ToldInv'
<1> SUFFICES ASSUME SessionInv, TargetInv, ToldInv, [Next]_vars PROVE ToldInv'
  BY Zenon
<1>1. ASSUME UNCHANGED <<target, pc, conn>> PROVE ToldInv'
  BY <1>1, Zenon DEF ToldInv
<1>2. ASSUME NEW k \in Dynamic, Lapse(k) \/ Withdraw(k) \/ \E t \in Targets : Assign(k, t)
      PROVE  ToldInv'
  BY <1>1, <1>2, Zenon DEF Lapse, Withdraw, Assign, entryVars
<1>3. CASE ReadActive \/ UNCHANGED vars
  BY <1>1, <1>3, Zenon DEF ReadActive, entryVars, vars
<1>4. CASE refreshDynamic
  BY <1>4, TargetsStay, ToldKept, Zenon DEF refreshDynamic
<1>5. ASSUME NEW c \in Conns, DrainTimer(c) \/ PeerCloses(c) PROVE ToldInv'
  BY <1>1, <1>5, Zenon DEF DrainTimer, PeerCloses, entryVars
<1>6. ASSUME NEW c \in Conns, NEW p, pc' = [pc EXCEPT ![c] = p], UNCHANGED target,
             \A d \in Conns : d # c => conn'[d] = conn[d],
             p \in Answering => /\ pc[c] \in Answering
                               /\ conn'[c].told = conn[c].told /\ conn'[c].entry = conn[c].entry
      PROVE  ToldInv'
  <2>1. pc'[c] = p /\ \A d \in Conns : d # c => pc'[d] = pc[d]
    BY <1>6, Zenon DEF SessionInv, SessionType
  <2> QED
    BY <1>6, <2>1, ToldKept, ZenonT(60)
<1>7. ASSUME NEW c \in Conns, NEW k \in Connectors, NEW s \in Starts, Connect(c, k, s)
      PROVE  ToldInv'
  <2>1. pc' = [pc EXCEPT ![c] = "hello"] /\ UNCHANGED target
    BY <1>7, Zenon DEF Connect, entryVars
  <2>2. \A d \in Conns : d # c => conn'[d] = conn[d]
    BY <1>7, Zenon DEF Connect, SessionInv, SessionType
  <2> QED
    BY <1>6, <2>1, <2>2, Zenon DEF Answering
<1>8. ASSUME NEW c \in Conns, Authenticate(c) PROVE ToldInv'
  <2>1. ASSUME Refuse(c) PROVE ToldInv'
    BY <1>6, <2>1, Zenon DEF Refuse, entryVars, Answering
  <2>2. CASE Lookup(c)
    <3>1. CASE registry[conn[c].key] # None
      <4>1. /\ pc' = [pc EXCEPT ![c] = "looked"] /\ UNCHANGED target
            /\ conn' = [conn EXCEPT ![c].entry = registry[conn[c].key]]
        BY <2>2, <3>1, Zenon DEF Lookup, entryVars
      <4>2. \A d \in Conns : d # c => conn'[d] = conn[d]
        BY <4>1, Zenon DEF SessionInv, SessionType
      <4> QED
        BY <1>6, <4>1, <4>2, Zenon DEF Answering
    <3>2. CASE registry[conn[c].key] = None
      BY <2>1, <2>2, <3>2, Zenon DEF Lookup
    <3> QED
      BY <3>1, <3>2, Zenon
  <2>3. CASE CheckIdentity(c)
    <3>1. /\ pc'[c] = "checked" /\ \A d \in Conns : d # c => pc'[d] = pc[d] /\ conn'[d] = conn[d]
          /\ conn'[c] = [conn[c] EXCEPT !.told = target[conn[c].entry]] /\ UNCHANGED target
      BY <2>3, ZenonT(60) DEF CheckIdentity, SessionInv, SessionType, entryVars
    <3>2. conn[c] \in ConnType
      BY Zenon DEF SessionInv, SessionType
    <3>3. conn'[c].told = target[conn[c].entry] /\ conn'[c].entry = conn[c].entry
      BY <3>1, <3>2, ZenonT(60) DEF ConnType
    <3> QED
      BY <3>1, <3>3, ZenonT(60) DEF ToldInv
  <2>4. CASE CheckFails(c) \/ Superseded(c) \/ WriteFails(c)
    BY <2>1, <2>4, Zenon DEF CheckFails, Superseded, WriteFails
  <2>5. CASE StoreSession(c)
    <3> DEFINE e == conn[c].entry
               stale == IF draining[e] # active[e] THEN draining[e] ELSE None
    <3>1. /\ pc[c] = "checked" /\ pc' = [pc EXCEPT ![c] = "stored"] /\ UNCHANGED target
          /\ conn' = [conn EXCEPT ![c].stale = stale, ![c].previous = active[e]]
      BY <2>5, Zenon DEF StoreSession
    <3> HIDE DEF stale
    <3>2. /\ conn'[c] = [conn[c] EXCEPT !.stale = stale, !.previous = active[e]]
          /\ \A d \in Conns : d # c => conn'[d] = conn[d]
      BY <3>1, ZenonT(60) DEF SessionInv, SessionType
    <3>3. conn[c] \in ConnType
      BY Zenon DEF SessionInv, SessionType
    <3>4. conn'[c].told = conn[c].told /\ conn'[c].entry = conn[c].entry
      BY <3>2, <3>3, ZenonT(60) DEF ConnType
    <3> QED
      BY <1>6, <3>1, <3>2, <3>4, Zenon DEF Answering
  <2>6. CASE CloseStale(c)
    BY <1>6, <2>6, Zenon DEF CloseStale, entryVars, Answering
  <2>7. CASE ConnectorReady(c)
    BY <1>6, <2>7, Zenon DEF ConnectorReady, entryVars, Answering
  <2>8. CASE SessionEnds(c)
    BY <1>6, <2>8, Zenon DEF SessionEnds, Answering
  <2>9. CASE ConnectorClosed(c)
    BY <1>6, <2>9, Zenon DEF ConnectorClosed, entryVars, Answering
  <2> QED
    BY <1>8, <2>2, <2>3, <2>4, <2>5, <2>6, <2>7, <2>8, <2>9, ZenonT(60) DEF Authenticate
<1> QED
  BY <1>2, <1>3, <1>4, <1>5, <1>7, <1>8, Zenon DEF Next

\* The target that the edge translates a new flow with is the one that the connector was told
\* in its handshake, for every table of connectors and every order of approvals, refreshes and
\* handshakes (refreshDynamic, authenticate, route).
THEOREM FlowsAgreeWithHandshake == Spec => []FlowsMatchHandshake
<1>1. Init => ToldInv
  BY Zenon DEF Init, ToldInv, Answering
<1>2. SessionInv /\ ToldInv => FlowsMatchHandshake
  <2> SUFFICES ASSUME SessionInv, ToldInv, NEW e \in routes, active[e] # None
               PROVE  conn[active[e]].told = target[e]
    BY Zenon DEF FlowsMatchHandshake
  <2>1. e \in Entries /\ active[e] \in Conns
    BY Zenon DEF SessionInv, SessionType
  <2>2. pc[active[e]] \in {"stored", "closing", "serving"} /\ conn[active[e]].entry = e
    BY <2>1, Zenon DEF SessionInv, ActiveAccepted
  <2> QED
    BY <2>1, <2>2, Zenon DEF ToldInv, Answering
<1> QED
  BY <1>1, <1>2, NextToldInv, SessionInvariant, PTL DEF Spec
-----------------------------------------------------------------------------
\* No other entry was ever made for the prefix of e.
Alone(e) == \A f \in Entries \ {e} : owner[f] = None \/ PrefixOf[owner[f]] # PrefixOf[owner[e]]

\* Entries have an owner from their allocation on; what the table leads to is routed, unless
\* its prefix was given to another entry as well, and what is routed is known to status.
RoutedKnown ==
  /\ \A e \in Entries : owner[e] # None => e \in 1..allocated
  /\ \A k \in Connectors : registry[k] # None => registry[k] \in routes \/ ~ Alone(registry[k])
  /\ \A e \in routes : owner[e] \in Connectors /\ status[owner[e]] # "absent"

\* A connector is reported by one of its own sessions, after its handshake.
ReportedBy(k) ==
  status[k] \in Conns =>
    conn[status[k]].key = k /\ pc[status[k]] \in {"serving", "swapped", "done"}

\* The session that a routed entry's connector is reported by will not take the report back.
ReportStays(e) ==
  Alone(e) /\ active[e] # None /\ pc[active[e]] = "serving" =>
    status[owner[e]] \in Conns /\ pc[status[owner[e]]] # "swapped"

\* The inductive invariant, on top of SessionInv: which session a connector is reported by, and
\* that no other entry for the same prefix can have changed the report.
ReportInv ==
  /\ status \in [Connectors -> Conns \cup {None, "absent"}]
  /\ RoutedKnown
  /\ \A k \in Connectors : ReportedBy(k)
  /\ \A e \in routes : ReportStays(e)

\* A step that changes neither the table nor what is reported, and starts no serving.
LEMMA ReportUntouched ==
  ASSUME SessionInv, ReportInv, UNCHANGED <<tableVars, owner, allocated, status>>,
         \A d \in Conns : pc[d] \in {"serving", "swapped", "done"} =>
           /\ conn'[d].key = conn[d].key /\ pc'[d] \in {"serving", "swapped", "done"}
           /\ pc'[d] = "swapped" => pc[d] = "swapped",
         \A e \in Entries : active'[e] # None /\ pc'[active'[e]] = "serving" =>
           active'[e] = active[e] /\ pc[active[e]] = "serving"
  PROVE  ReportInv'
<1>1. \A e \in Entries : Alone(e)' <=> Alone(e)
  BY Zenon DEF Alone
<1>2. RoutedKnown'
  <2>1. \A k \in Connectors : registry'[k] # None => registry'[k] \in Entries
    BY DEF tableVars, SessionInv, SessionType
  <2> QED
    BY <1>1, <2>1, ZenonT(60) DEF ReportInv, RoutedKnown, tableVars
<1>3. \A k \in Connectors : ReportedBy(k)'
  BY DEF ReportInv, ReportedBy
<1>4. \A e \in routes' : ReportStays(e)'
  <2> SUFFICES ASSUME NEW e \in routes', Alone(e)', active'[e] # None, pc'[active'[e]] = "serving"
               PROVE  status'[owner'[e]] \in Conns /\ pc'[status'[owner'[e]]] # "swapped"
    BY Zenon DEF ReportStays
  <2>1. e \in routes /\ e \in Entries /\ Alone(e)
    BY <1>1, Zenon DEF tableVars, SessionInv, SessionType
  <2>2. active[e] # None /\ pc[active[e]] = "serving"
    BY <2>1, Zenon
  <2>3. status[owner[e]] \in Conns /\ pc[status[owner[e]]] # "swapped"
    BY <2>1, <2>2, Zenon DEF ReportInv, ReportStays
  <2>4. owner[e] \in Connectors /\ status[owner[e]] # "absent"
    BY <2>1, Zenon DEF ReportInv, RoutedKnown
  <2>5. pc[status[owner[e]]] \in {"serving", "swapped", "done"}
    BY <2>3, <2>4, Zenon DEF ReportInv, ReportedBy
  <2> QED
    BY <2>3, <2>5, Zenon
<1> QED
  BY <1>2, <1>3, <1>4, Zenon DEF ReportInv

\* What the invariants say of the session a routed entry alone with its prefix leads to.
LEMMA ReportOf ==
  ASSUME SessionInv, ReportInv, NEW e \in routes
  PROVE  /\ e \in Entries /\ owner[e] \in Connectors /\ status[owner[e]] # "absent"
         /\ active[e] # None => /\ active[e] \in Conns /\ conn[active[e]].entry = e
                                 /\ conn[active[e]].key = owner[e]
                                 /\ pc[active[e]] \in {"stored", "closing", "serving"}
         /\ Alone(e) /\ active[e] # None /\ pc[active[e]] = "serving" =>
              /\ status[owner[e]] \in Conns /\ conn[status[owner[e]]].key = owner[e]
              /\ pc[status[owner[e]]] \in {"serving", "done"}
<1>1. e \in Entries /\ owner[e] \in Connectors /\ status[owner[e]] # "absent"
  BY ZenonT(60) DEF ReportInv, RoutedKnown, SessionInv, SessionType
<1>2. active[e] # None => /\ active[e] \in Conns /\ conn[active[e]].entry = e
                          /\ pc[active[e]] \in {"stored", "closing", "serving"}
  BY <1>1, ZenonT(60) DEF SessionInv, SessionType, ActiveAccepted
<1>3. active[e] # None => conn[active[e]].key = owner[e]
  BY <1>2, Zenon DEF SessionInv, EntryHeld
<1>4. ReportStays(e) /\ ReportedBy(owner[e])
  BY <1>1, Zenon DEF ReportInv
<1> QED
  BY <1>1, <1>2, <1>3, <1>4, Zenon DEF ReportStays, ReportedBy

\* A step of one goroutine on what is reported for its connector.
LEMMA ReportChanges ==
  ASSUME SessionInv, ReportInv, UNCHANGED <<tableVars, owner, allocated, conn>>,
         NEW c \in Conns, NEW p \in {"serving", "swapped", "done"},
         pc' = [pc EXCEPT ![c] = p],
         NEW v \in Conns \cup {None, "absent"}, status' = [status EXCEPT ![conn[c].key] = v],
         conn[c].key \in Connectors,
         status[conn[c].key] # "absent" => v # "absent",
         v \in Conns =>
           conn[v].key = conn[c].key /\ (v = c \/ pc[v] \in {"serving", "swapped", "done"}),
         \A e \in routes : ReportStays(e)'
  PROVE  ReportInv'
<1>1. pc'[c] = p /\ \A d \in Conns : d # c => pc'[d] = pc[d]
  BY Zenon DEF SessionInv, SessionType
<1>2. /\ status' \in [Connectors -> Conns \cup {None, "absent"}] /\ status'[conn[c].key] = v
      /\ \A k \in Connectors : k # conn[c].key => status'[k] = status[k]
  BY ZenonT(60) DEF ReportInv
<1>3. RoutedKnown'
  <2>1. \A e \in Entries : Alone(e)' <=> Alone(e)
    BY Zenon DEF Alone
  <2>2. \A k \in Connectors : registry'[k] # None => registry'[k] \in Entries
    BY Zenon DEF tableVars, SessionInv, SessionType
  <2>3. \A k \in Connectors : registry'[k] # None => registry'[k] \in routes' \/ ~ Alone(registry[k])'
    BY <2>1, <2>2, ZenonT(60) DEF ReportInv, RoutedKnown, tableVars
  <2>4. \A e \in routes' : owner'[e] \in Connectors /\ status'[owner'[e]] # "absent"
    BY <1>2 DEF ReportInv, RoutedKnown, tableVars
  <2> QED
    BY <2>3, <2>4, Zenon DEF ReportInv, RoutedKnown
<1>4. ASSUME NEW k \in Connectors PROVE ReportedBy(k)'
  <2>1. CASE k = conn[c].key
    BY <1>1, <1>2, <2>1, ZenonT(60) DEF ReportedBy
  <2>2. CASE k # conn[c].key
    BY <1>1, <1>2, <2>2 DEF ReportedBy, ReportInv
  <2> QED
    BY <2>1, <2>2, Zenon
<1> QED
  BY <1>2, <1>3, <1>4, ZenonT(60) DEF ReportInv, tableVars

\* Reporting a session ready keeps the invariant.
LEMMA ReadyReports ==
  ASSUME SessionInv, ReportInv, NEW c \in Conns, ConnectorReady(c)
  PROVE  ReportInv'
<1> DEFINE k == conn[c].key
           v == IF status[k] = "absent" THEN "absent" ELSE c
<1>1. /\ pc[c] = "closing" /\ pc' = [pc EXCEPT ![c] = "serving"]
      /\ status' = [status EXCEPT ![k] = v]
      /\ UNCHANGED <<tableVars, owner, allocated, conn, active>>
  BY Zenon DEF ConnectorReady, entryVars
<1>2. k \in Connectors
  BY <1>1, Zenon DEF SessionInv, EntryHeld
<1>3. /\ pc'[c] = "serving" /\ \A d \in Conns : d # c => pc'[d] = pc[d]
      /\ status'[k] = v /\ \A l \in Connectors : l # k => status'[l] = status[l]
  BY <1>1, <1>2, Zenon DEF SessionInv, SessionType, ReportInv
<1> HIDE DEF k
<1>4. ASSUME NEW e \in routes PROVE ReportStays(e)'
  <2> SUFFICES ASSUME Alone(e), active[e] # None, pc'[active[e]] = "serving"
               PROVE  status'[owner[e]] \in Conns /\ pc'[status'[owner[e]]] # "swapped"
    BY <1>1, Zenon DEF ReportStays, Alone
  <2>1. /\ owner[e] \in Connectors /\ status[owner[e]] # "absent"
        /\ active[e] \in Conns /\ conn[active[e]].key = owner[e]
        /\ Alone(e) /\ active[e] # None /\ pc[active[e]] = "serving" =>
              status[owner[e]] \in Conns /\ pc[status[owner[e]]] \in {"serving", "done"}
    BY ReportOf, Zenon
  <2>2. CASE owner[e] = k
    BY <1>3, <2>1, <2>2, Zenon
  <2>3. CASE owner[e] # k
    <3>1. active[e] # c
      BY <2>1, <2>3, Zenon DEF k
    <3> QED
      BY <1>1, <1>3, <2>1, <2>3, <3>1, ZenonT(60)
  <2> QED
    BY <2>2, <2>3, Zenon
<1>5. status[k] # "absent" => v # "absent"
  BY ConstantsAssumption, Zenon
<1>6. v \in Conns => v = c
  BY ConstantsAssumption, Zenon
<1> QED
  BY <1>1, <1>2, <1>4, <1>5, <1>6, ReportChanges, ZenonT(60) DEF k

\* The end of an active session keeps the invariant.
LEMMA EndsReports ==
  ASSUME SessionInv, ReportInv, NEW c \in Conns, SessionEnds(c), active[conn[c].entry] = c
  PROVE  ReportInv'
<1>1. /\ pc[c] = "serving" /\ pc' = [pc EXCEPT ![c] = "swapped"]
      /\ active' = [active EXCEPT ![conn[c].entry] = None]
      /\ UNCHANGED <<tableVars, owner, allocated, conn, status>>
  BY Zenon DEF SessionEnds
<1>2. /\ conn[c].key \in Connectors /\ conn[c].entry \in Entries
      /\ owner[conn[c].entry] = conn[c].key
  BY <1>1, HeldInBounds, Zenon DEF SessionInv, EntryHeld
<1>3. /\ pc'[c] = "swapped" /\ \A d \in Conns : d # c => pc'[d] = pc[d]
      /\ active'[conn[c].entry] = None
      /\ \A e \in Entries : e # conn[c].entry => active'[e] = active[e]
  BY <1>1, <1>2, Zenon DEF SessionInv, SessionType
<1>4. ASSUME NEW e \in routes PROVE ReportStays(e)'
  <2> SUFFICES ASSUME Alone(e), active'[e] # None, pc'[active'[e]] = "serving"
               PROVE  status[owner[e]] \in Conns /\ pc'[status[owner[e]]] # "swapped"
    BY <1>1, ZenonT(30) DEF ReportStays, Alone
  <2>1. e \in Entries /\ e # conn[c].entry /\ active'[e] = active[e]
    BY <1>3, ZenonT(30) DEF SessionInv, SessionType
  <2>2. active[e] # c /\ active[e] \in Conns
    <3>1. active[e] # None
      BY <2>1, Zenon
    <3>2. active[e] \in Conns /\ conn[active[e]].entry = e
      BY <3>1, ReportOf, ZenonT(60)
    <3> QED BY <2>1, <3>2, ZenonT(60)
  <2>3. pc[active[e]] = "serving" /\ active[e] # None
    BY <1>3, <2>1, <2>2, Zenon
  <2>4. /\ status[owner[e]] \in Conns /\ conn[status[owner[e]]].key = owner[e]
        /\ pc[status[owner[e]]] \in {"serving", "done"}
    BY <2>3, ReportOf, Zenon
  <2>5. conn[c].key # owner[e]
    BY <1>2, <2>1, ConstantsAssumption, ZenonT(30) DEF Alone
  <2> QED
    BY <1>3, <2>4, <2>5, Zenon
<1>5. status' = [status EXCEPT ![conn[c].key] = status[conn[c].key]]
  BY <1>1, <1>2, Zenon DEF ReportInv
<1>6. /\ status[conn[c].key] \in Conns \cup {None, "absent"}
      /\ ReportedBy(conn[c].key)
  BY <1>2, Zenon DEF ReportInv
<1> QED
  BY <1>1, <1>2, <1>4, <1>5, <1>6, ReportChanges, ZenonT(60) DEF ReportedBy

\* Reporting a session closed keeps the invariant.
LEMMA ClosedReports ==
  ASSUME SessionInv, ReportInv, NEW c \in Conns, ConnectorClosed(c)
  PROVE  ReportInv'
<1> DEFINE k == conn[c].key
           v == IF status[k] = c THEN None ELSE status[k]
<1>1. /\ pc[c] = "swapped" /\ pc' = [pc EXCEPT ![c] = "done"]
      /\ status' = [status EXCEPT ![k] = v]
      /\ UNCHANGED <<tableVars, owner, allocated, conn, active>>
  BY Zenon DEF ConnectorClosed, entryVars
<1>2. k \in Connectors
  BY <1>1, Zenon DEF SessionInv, EntryHeld
<1>3. /\ pc'[c] = "done" /\ \A d \in Conns : d # c => pc'[d] = pc[d]
      /\ status'[k] = v /\ \A l \in Connectors : l # k => status'[l] = status[l]
  BY <1>1, <1>2, Zenon DEF SessionInv, SessionType, ReportInv
<1>4. /\ status[k] \in Conns \cup {None, "absent"} /\ ReportedBy(k)
  BY <1>2, Zenon DEF ReportInv
<1> HIDE DEF k
<1>5. ASSUME NEW e \in routes PROVE ReportStays(e)'
  <2> SUFFICES ASSUME Alone(e), active[e] # None, pc'[active[e]] = "serving"
               PROVE  status'[owner[e]] \in Conns /\ pc'[status'[owner[e]]] # "swapped"
    BY <1>1, ZenonT(30) DEF ReportStays, Alone
  <2>1. active[e] \in Conns /\ pc[active[e]] = "serving" /\ owner[e] \in Connectors
    BY <1>1, <1>3, ReportOf, ZenonT(60)
  <2>2. status[owner[e]] \in Conns /\ pc[status[owner[e]]] \in {"serving", "done"}
    BY <2>1, ReportOf, ZenonT(30)
  <2> QED
    BY <1>1, <1>3, <2>1, <2>2, ZenonT(60)
<1>6. /\ v \in Conns \cup {None, "absent"} /\ (status[k] # "absent" => v # "absent")
      /\ v \in Conns => conn[v].key = k /\ pc[v] \in {"serving", "swapped", "done"}
  BY <1>4, ConstantsAssumption, Zenon DEF ReportedBy
<1> HIDE DEF v
<1> QED
  BY <1>1, <1>2, <1>5, <1>6, ReportChanges, ZenonT(60) DEF k

\* A refresh of the dynamic routes keeps the invariant.
LEMMA RefreshReports ==
  ASSUME SessionInv, ReportInv, refreshDynamic
  PROVE  ReportInv'
<1>1. /\ \A e \in 1..allocated : owner'[e] = owner[e]
      /\ \A e \in Entries : owner'[e] = owner[e] \/ e \in 1..allocated'
      /\ 1..allocated \subseteq 1..allocated' /\ 1..allocated' \subseteq Entries
      /\ \A k \in Connectors : registry'[k] # None =>
           registry'[k] \in 1..allocated' /\ owner'[registry'[k]] = k
      /\ \A k \in Connectors : registry'[k] \in 1..allocated => registry'[k] = registry[k]
      /\ \A k \in Routed : k \in Connectors /\ registry'[k] # None
      /\ \A k \in Connectors \ Routed : k \in Static \/ registry'[k] = None
      /\ routes' = {registry'[k] : k \in Routed}
  BY RefreshEffect, ZenonT(30)
<1>2. /\ UNCHANGED <<active, pc, conn>>
      /\ status' = [k \in Connectors |-> IF k \notin Routed THEN "absent"
                                         ELSE IF status[k] = "absent" THEN None ELSE status[k]]
  BY Zenon DEF refreshDynamic, ReconcileConnectors, Routed
<1>3. \A e \in routes' : e \in 1..allocated' /\ owner'[e] \in Routed /\ registry'[owner'[e]] = e
  BY <1>1
<1>4. \A e \in Entries : owner'[e] # None => e \in 1..allocated'
  BY <1>1, ZenonT(60) DEF ReportInv, RoutedKnown
<1>5. ASSUME NEW e \in 1..allocated, Alone(e)' PROVE Alone(e)
  <2> SUFFICES ASSUME NEW f \in Entries \ {e}, owner[f] # None, PrefixOf[owner[f]] = PrefixOf[owner[e]]
               PROVE  FALSE
    BY ZenonT(60) DEF Alone
  <2>1. f \in 1..allocated
    BY Zenon DEF ReportInv, RoutedKnown
  <2> QED
    BY <1>1, <1>5, <2>1, Zenon DEF Alone
<1>6. ASSUME NEW k \in Connectors, registry'[k] # None, registry'[k] \notin routes'
      PROVE  ~ Alone(registry[k])'
  <2>1. k \in Static /\ k \in Shadowed
    BY <1>1, <1>6, Zenon DEF Routed
  <2>2. PICK l \in ActiveKeys : PrefixOf[l] = PrefixOf[k]
    BY <2>1, Zenon DEF Shadowed
  <2>3. /\ l \in Connectors /\ l \in Routed /\ registry'[l] # None /\ l # k
    BY <1>1, <2>1, ConstantsAssumption, ZenonT(60) DEF Routed, ActiveKeys
  <2>4. /\ registry'[l] \in Entries /\ owner'[registry'[l]] = l /\ owner'[registry'[k]] = k
    BY <1>1, <1>6, <2>3, Zenon
  <2>5. registry'[l] # registry'[k] /\ owner'[registry'[l]] # None
    BY <2>3, <2>4, ConstantsAssumption, Zenon
  <2> QED
    BY <2>2, <2>4, <2>5, ZenonT(60) DEF Alone
<1>7. \A k \in Routed : status'[k] # "absent" /\ (status[k] # "absent" => status'[k] = status[k])
  BY <1>1, <1>2, ConstantsAssumption, ZenonT(30)
<1>8. RoutedKnown'
  BY <1>1, <1>3, <1>4, <1>6, <1>7, ZenonT(60) DEF RoutedKnown
<1>9. ASSUME NEW k \in Connectors PROVE ReportedBy(k)'
  <2>1. ReportedBy(k) /\ status[k] \in Conns \cup {None, "absent"}
    BY Zenon DEF ReportInv
  <2>2. status'[k] \in {status[k], None, "absent"}
    BY <1>2, Zenon
  <2> QED
    BY <1>2, <2>1, <2>2, ConstantsAssumption, Zenon DEF ReportedBy
<1>10. ASSUME NEW e \in routes' PROVE ReportStays(e)'
  <2> SUFFICES ASSUME Alone(e)', active[e] # None, pc[active[e]] = "serving"
               PROVE  status'[owner'[e]] \in Conns /\ pc[status'[owner'[e]]] # "swapped"
    BY <1>2, Zenon DEF ReportStays
  <2>1. /\ e \in Entries /\ active[e] \in Conns /\ pc[active[e]] \in {"stored", "closing", "serving"}
        /\ conn[active[e]].entry = e
    <3>1. e \in Entries
      BY <1>1, <1>3, Zenon
    <3>2. active \in [Entries -> Conns \cup {None}] /\ ActiveAccepted
      BY Zenon DEF SessionInv, SessionType
    <3>3. active[e] \in Conns
      BY <3>1, <3>2, Zenon
    <3> QED BY <3>1, <3>2, <3>3, Zenon DEF ActiveAccepted
  <2>2. e \in 1..allocated
    BY <2>1, HeldInBounds, Zenon
  <2>3. /\ owner'[e] = owner[e] /\ owner[e] \in Routed /\ owner[e] \in Connectors
        /\ registry[owner[e]] = e /\ e # None
    BY <1>1, <1>3, <2>1, <2>2, ConstantsAssumption, SMTT(60)
  <2>4. Alone(e)
    BY <1>5, <2>2, Zenon
  <2>5. e \in routes
    BY <2>3, <2>4, Zenon DEF ReportInv, RoutedKnown
  <2>6. /\ status[owner[e]] # "absent" /\ status[owner[e]] \in Conns
        /\ pc[status[owner[e]]] \in {"serving", "done"}
    BY <2>4, <2>5, ReportOf, Zenon
  <2> QED
    BY <1>7, <2>3, <2>6, Zenon
<1>11. status' \in [Connectors -> Conns \cup {None, "absent"}]
  BY <1>2, Zenon DEF ReportInv
<1> QED
  BY <1>8, <1>9, <1>10, <1>11, Zenon DEF ReportInv

\* The invariant holds when the edge starts.
LEMMA InitReportInv == Init => ReportInv
<1> SUFFICES ASSUME Init PROVE ReportInv
  BY Zenon
<1>1. SessionInv
  BY InitSessionInv, Zenon
<1>2. /\ allocated = Cardinality(Static) /\ routes = 1..allocated
      /\ active = [e \in Entries |-> None]
      /\ status = [k \in Connectors |-> IF k \in Static THEN None ELSE "absent"]
  BY Zenon DEF Init
<1>3. PICK f \in [Static -> 1..allocated] :
        /\ \A k, l \in Static : f[k] = f[l] => k = l
        /\ registry = [k \in Connectors |-> IF k \in Static THEN f[k] ELSE None]
        /\ owner = [e \in Entries |-> IF \E k \in Static : f[k] = e
                                      THEN CHOOSE k \in Static : f[k] = e ELSE None]
  BY ZenonT(60) DEF Init
<1>4. \A k \in Connectors : registry[k] # None => registry[k] \in routes
  BY <1>1, <1>2, Zenon DEF SessionInv, TableOwned
<1>5. \A e \in Entries : owner[e] # None => e \in 1..allocated
  <2> SUFFICES ASSUME NEW e \in Entries, owner[e] # None PROVE e \in 1..allocated
    BY Zenon
  <2>1. \E k \in Static : f[k] = e
    BY <1>3, Zenon
  <2> QED
    BY <1>3, <2>1, Zenon
<1>6. \A e \in routes : owner[e] \in Static
  <2> SUFFICES ASSUME NEW e \in routes PROVE owner[e] \in Static
    BY Zenon
  <2>1. f \in Surjection(Static, 1..allocated)
    <3>1. /\ IsFiniteSet(Static) /\ allocated \in Nat
      BY <1>2, FS_Subset, FS_CardinalityType, ConstantsAssumption, ZenonT(60) DEF Connectors
    <3>2. IsFiniteSet(1..allocated) /\ Cardinality(1..allocated) = allocated
      BY <3>1, FS_Interval
    <3>3. f \in Injection(Static, 1..allocated)
      BY <1>3, ZenonT(60) DEF Injection, IsInjective
    <3> QED
      BY <1>2, <3>1, <3>2, <3>3, FS_Injection, ZenonT(60)
  <2>2. e \in Entries /\ e \in 1..allocated
    BY <1>1, <1>2, Zenon DEF SessionInv, SessionType
  <2>3. \E k \in Static : f[k] = e
    BY <2>1, <2>2, Zenon DEF Surjection
  <2> QED
    BY <1>3, <2>2, <2>3, Zenon
<1>7. RoutedKnown
  <2>1. \A k \in Static : k \in Connectors /\ status[k] # "absent"
    BY <1>2, ConstantsAssumption, Zenon DEF Connectors
  <2> QED
    BY <1>4, <1>5, <1>6, <2>1, Zenon DEF RoutedKnown
<1>8. \A k \in Connectors : status[k] \notin Conns
  BY <1>2, ConstantsAssumption, ZenonT(60)
<1>9. \A e \in routes : active[e] = None
  BY <1>1, <1>2, Zenon DEF SessionInv, SessionType
<1> QED
  BY <1>2, <1>7, <1>8, <1>9, Zenon DEF ReportInv, ReportedBy, ReportStays

\* Every step keeps ReportInv.
LEMMA NextReportInv == SessionInv /\ ReportInv /\ [Next]_vars => ReportInv'
<1> SUFFICES ASSUME SessionInv, ReportInv, [Next]_vars PROVE ReportInv'
  BY Zenon
<1>0. \A e \in Entries : active[e] # None => active[e] \in Conns
  BY Zenon DEF SessionInv, SessionType
<1>1. ASSUME UNCHANGED <<tableVars, owner, allocated, status, pc, conn, active>> PROVE ReportInv'
  BY <1>1, ReportUntouched, ZenonT(30)
<1>2. ASSUME NEW k \in Dynamic, Lapse(k) \/ Withdraw(k) \/ \E t \in Targets : Assign(k, t)
      PROVE  ReportInv'
  BY <1>1, <1>2, Zenon DEF Lapse, Withdraw, Assign, entryVars
<1>3. CASE ReadActive \/ UNCHANGED vars
  BY <1>1, <1>3, Zenon DEF ReadActive, entryVars, vars
<1>4. ASSUME NEW c \in Conns, DrainTimer(c) \/ PeerCloses(c) PROVE ReportInv'
  BY <1>1, <1>4, Zenon DEF DrainTimer, PeerCloses, entryVars
<1>5. ASSUME NEW c \in Conns, NEW p \in Positions \ {"serving", "swapped"},
             pc[c] \notin {"swapped", "done"}, pc[c] = "serving" => p = "done",
             pc' = [pc EXCEPT ![c] = p], UNCHANGED <<tableVars, owner, allocated, status>>,
             \A d \in Conns : d # c \/ pc[c] = "serving" => conn'[d].key = conn[d].key,
             \A e \in Entries : active'[e] \in {active[e], c}
      PROVE  ReportInv'
  <2>1. pc'[c] = p /\ \A d \in Conns : d # c => pc'[d] = pc[d]
    BY <1>5, ZenonT(30) DEF SessionInv, SessionType
  <2>2. \A d \in Conns : pc[d] \in {"serving", "swapped", "done"} =>
           /\ conn'[d].key = conn[d].key /\ pc'[d] \in {"serving", "swapped", "done"}
           /\ pc'[d] = "swapped" => pc[d] = "swapped"
    BY <1>5, <2>1, Zenon
  <2>3. \A e \in Entries : active'[e] # None /\ pc'[active'[e]] = "serving" =>
           active'[e] = active[e] /\ pc[active[e]] = "serving"
    BY <1>0, <1>5, <2>1, ZenonT(60)
  <2> QED
    BY <1>5, <2>2, <2>3, ReportUntouched, Zenon
<1>6. ASSUME NEW c \in Conns, NEW k \in Connectors, NEW s \in Starts, Connect(c, k, s)
      PROVE  ReportInv'
  <2>1. /\ pc[c] = "none" /\ pc' = [pc EXCEPT ![c] = "hello"]
        /\ UNCHANGED <<tableVars, owner, allocated, status, active>>
    BY <1>6, Zenon DEF Connect, entryVars
  <2>2. \A d \in Conns : d # c => conn'[d].key = conn[d].key
    BY <1>6, Zenon DEF Connect, SessionInv, SessionType
  <2> QED
    BY <1>5, <2>1, <2>2, ZenonT(30) DEF Positions
<1>7. ASSUME NEW c \in Conns, Authenticate(c) PROVE ReportInv'
  <2>1. ASSUME Refuse(c), pc[c] \in {"hello", "looked", "checked"} PROVE ReportInv'
    BY <1>5, <2>1, ZenonT(60) DEF Refuse, entryVars, Positions
  <2>2. CASE Lookup(c)
    <3>1. CASE registry[conn[c].key] # None
      <4>1. /\ pc[c] = "hello" /\ pc' = [pc EXCEPT ![c] = "looked"]
            /\ UNCHANGED <<tableVars, owner, allocated, status, active>>
            /\ conn' = [conn EXCEPT ![c].entry = registry[conn[c].key]]
        BY <2>2, <3>1, Zenon DEF Lookup, Refuse, entryVars
      <4>2. \A d \in Conns : d # c => conn'[d].key = conn[d].key
        BY <4>1, Zenon DEF SessionInv, SessionType
      <4> QED
        BY <1>5, <4>1, <4>2, ZenonT(60) DEF Positions
    <3>2. CASE registry[conn[c].key] = None
      BY <2>1, <2>2, <3>2, Zenon DEF Lookup
    <3> QED
      BY <3>1, <3>2, Zenon
  <2>3. CASE CheckIdentity(c)
    <3>1. /\ pc[c] = "looked" /\ pc' = [pc EXCEPT ![c] = "checked"]
          /\ UNCHANGED <<tableVars, owner, allocated, status, active>>
          /\ conn' = [conn EXCEPT ![c].told = target[conn[c].entry]]
      BY <2>3, Zenon DEF CheckIdentity, entryVars
    <3>2. \A d \in Conns : d # c => conn'[d].key = conn[d].key
      BY <3>1, Zenon DEF SessionInv, SessionType
    <3> QED
      BY <1>5, <3>1, <3>2, ZenonT(60) DEF Positions
  <2>4. CASE CheckFails(c) \/ Superseded(c) \/ WriteFails(c)
    BY <2>1, <2>4, Zenon DEF CheckFails, Superseded, WriteFails
  <2>5. CASE StoreSession(c)
    <3>1. /\ pc[c] = "checked" /\ pc' = [pc EXCEPT ![c] = "stored"]
          /\ UNCHANGED <<tableVars, owner, allocated, status>>
          /\ active' = [active EXCEPT ![conn[c].entry] = c]
      BY <2>5, Zenon DEF StoreSession
    <3>2. \A d \in Conns : d # c => conn'[d].key = conn[d].key
      BY <2>5, Zenon DEF StoreSession, SessionInv, SessionType
    <3>3. \A e \in Entries : active'[e] \in {active[e], c}
      BY <3>1, Zenon DEF SessionInv, SessionType
    <3> QED
      BY <1>5, <3>1, <3>2, <3>3, ZenonT(60) DEF Positions
  <2>6. CASE CloseStale(c)
    BY <1>5, <2>6, Zenon DEF CloseStale, entryVars, Positions
  <2>7. CASE ConnectorReady(c)
    BY <2>7, ReadyReports, Zenon
  <2>8. CASE SessionEnds(c)
    <3>1. CASE active[conn[c].entry] = c
      BY <2>8, <3>1, EndsReports, Zenon
    <3>2. CASE active[conn[c].entry] # c
      <4>1. /\ pc[c] = "serving" /\ pc' = [pc EXCEPT ![c] = "done"]
            /\ UNCHANGED <<tableVars, owner, allocated, status, active, conn>>
        BY <2>8, <3>2, Zenon DEF SessionEnds
      <4> QED
        BY <1>5, <4>1, ZenonT(60) DEF Positions
    <3> QED
      BY <3>1, <3>2, Zenon
  <2>9. CASE ConnectorClosed(c)
    BY <2>9, ClosedReports, Zenon
  <2> QED
    BY <1>7, <2>2, <2>3, <2>4, <2>5, <2>6, <2>7, <2>8, <2>9, ZenonT(60) DEF Authenticate
<1>8. CASE refreshDynamic
  BY <1>8, RefreshReports, Zenon
<1> QED
  BY <1>2, <1>3, <1>4, <1>6, <1>7, <1>8, Zenon DEF Next

\* When no goroutine is in the middle of a step, a routed entry that is alone with its prefix and
\* has an active session is reported as ready, in whatever order ConnectorReady and
\* ConnectorClosed of its sessions came (internal/status/status.go).
THEOREM RoutedReported == Spec => []RoutedIsReported
<1>1. SessionInv /\ ReportInv => RoutedIsReported
  <2> SUFFICES ASSUME SessionInv, ReportInv, Quiet, NEW e \in routes, active[e] # None, Alone(e)
               PROVE  status[owner[e]] \in Conns
    BY Zenon DEF RoutedIsReported, Alone
  <2>1. active[e] \in Conns /\ pc[active[e]] \in {"stored", "closing", "serving"}
    BY ReportOf, Zenon
  <2>2. pc[active[e]] = "serving"
    BY <2>1, Zenon DEF Quiet
  <2> QED
    BY <2>2, ReportOf, Zenon
<1> QED
  BY <1>1, InitReportInv, NextReportInv, SessionInvariant, PTL DEF Spec

=============================================================================
