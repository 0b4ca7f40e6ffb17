----------------------------- MODULE Connector ------------------------------
(***************************************************************************)
(* The connector (internal/connector/connector.go): the reconnect loop of  *)
(* Run, the session it serves, and the UDP flows of a session with their   *)
(* goroutines: one receiver per session (receive) and one reader per flow  *)
(* (readResponses).  The goroutines of an earlier session may still run    *)
(* when the next one is served, and they share the flow gauge.             *)
(*                                                                         *)
(* A peer stands for the source and destination of a datagram.  Payloads,  *)
(* DNS rewriting and the TCP streams (see TCPFlow) are left out, and with  *)
(* them the datagrams that change nothing (malformed or not allowed).      *)
(***************************************************************************)
EXTENDS Integers, FiniteSets, Functions

CONSTANTS
  Sessions,       \* udpSession objects, reused once their goroutines are gone
  FlowIDs,        \* flow identifiers of the edge
  Peers,
  Sockets,        \* udpFlow objects with their socket, reused likewise
  MaxUDPFlows,    \* config.MaxUDPFlows
  ReconnectMin, ReconnectMax,
  None

\* udpFlow: open until its socket is closed, reading until its reader leaves the loop.
Flow == [session : Sessions, id : FlowIDs, peer : Peers, open : BOOLEAN, reading : BOOLEAN]

ASSUME ConnectorAssumption ==
  /\ MaxUDPFlows \in Nat \ {0}
  /\ ReconnectMin \in Nat \ {0} /\ ReconnectMax \in Nat /\ ReconnectMin <= ReconnectMax
  /\ None \notin Sockets \cup Sessions \cup Flow

VARIABLES
  pc,         \* Run and serve
  delay,      \* the next reconnect delay
  cancelled,  \* ctx is done
  ready,      \* status.SetReady
  current,    \* the session being set up or served
  conn,       \* QUIC connections: none, up or down
  closed,     \* udpSession.closed
  flows,      \* udpSession.flows
  sock,       \* flows with a running reader, None for an unused object
  recv,       \* receive: off, waiting, or what it does with a datagram
  gauge       \* status: UDPFlowStarted - UDPFlowEnded

loop == <<pc, delay, cancelled, ready, current>>
udp == <<closed, flows, sock, recv, gauge>>
vars == <<loop, conn, udp>>

Off == [at |-> "off"]
Waiting == [at |-> "waiting"]
Receiver ==
  {Off, Waiting} \cup [at : {"lookup"}, id : FlowIDs, peer : Peers]
                 \cup [at : {"write"}, flow : Sockets, peer : Peers]

TypeOK ==
  /\ pc \in {"dial", "handshake", "serve", "ended", "wait", "returned"}
  /\ delay \in ReconnectMin..ReconnectMax
  /\ cancelled \in BOOLEAN /\ ready \in BOOLEAN
  /\ current \in Sessions \cup {None}
  /\ conn \in [Sessions -> {"none", "up", "down"}]
  /\ closed \in [Sessions -> BOOLEAN]
  /\ flows \in [Sessions -> [FlowIDs -> Sockets \cup {None}]]
  /\ sock \in [Sockets -> Flow \cup {None}]
  /\ recv \in [Sessions -> Receiver]
  /\ gauge \in Int

NoFlows == [id \in FlowIDs |-> None]

Init ==
  /\ pc = "dial" /\ delay = ReconnectMin /\ cancelled = FALSE /\ ready = FALSE
  /\ current = None
  /\ conn = [c \in Sessions |-> "none"]
  /\ closed = [c \in Sessions |-> FALSE]
  /\ flows = [c \in Sessions |-> NoFlows]
  /\ sock = [s \in Sockets |-> None]
  /\ recv = [c \in Sessions |-> Off]
  /\ gauge = 0
-----------------------------------------------------------------------------
(* Run.                                                                    *)

\* No goroutine uses the session object any more.
Unused(c) ==
  /\ c # current \/ pc \in {"dial", "wait"}
  /\ recv[c] = Off
  /\ \A s \in Sockets : sock[s] # None => sock[s].session # c

\* min(delay * 1.7, ReconnectMax)
Grow(d) == IF (d * 17) \div 10 < ReconnectMax THEN (d * 17) \div 10 ELSE ReconnectMax

Dial ==
  /\ pc = "dial"
  /\ ~ cancelled
  /\ \E c \in Sessions :
       /\ Unused(c)
       /\ current' = c
       /\ conn' = [conn EXCEPT ![c] = "up"]
  /\ pc' = "handshake"
  /\ UNCHANGED <<delay, cancelled, ready, udp>>

\* Mutated form: Run gives up.
DialReturns ==
  /\ pc = "dial"
  /\ pc' = "returned"
  /\ UNCHANGED <<delay, cancelled, ready, current, conn, udp>>

DialFails ==
  /\ pc = "dial"
  /\ pc' = "wait"
  /\ UNCHANGED <<delay, cancelled, ready, current, conn, udp>>

\* The loop condition.
RunReturns ==
  /\ pc = "dial"
  /\ cancelled
  /\ pc' = "returned"
  /\ UNCHANGED <<delay, cancelled, ready, current, conn, udp>>

\* serve: the hello is accepted and validateAccepted agrees; the receiver starts.
Accepted ==
  /\ pc = "handshake"
  /\ conn[current] = "up"
  /\ ready' = TRUE
  /\ closed' = [closed EXCEPT ![current] = FALSE]
  /\ flows' = [flows EXCEPT ![current] = NoFlows]
  /\ recv' = [recv EXCEPT ![current] = Waiting]
  /\ pc' = "serve"
  /\ UNCHANGED <<delay, cancelled, current, conn, sock, gauge>>

\* serve returns early: a stream error, the 10 second deadline or an answer that differs.
Refused ==
  /\ pc = "handshake"
  /\ pc' = "ended"
  /\ UNCHANGED <<delay, cancelled, ready, current, conn, udp>>

\* The connection is lost or closed by the edge.
ConnectionLost(c) ==
  /\ conn[c] = "up"
  /\ conn' = [conn EXCEPT ![c] = "down"]
  /\ UNCHANGED <<loop, udp>>

\* Mutated form: the sockets of the flows are left to their readers.
closeKeepingSockets(c) ==
  /\ closed' = [closed EXCEPT ![c] = TRUE]
  /\ flows' = [flows EXCEPT ![c] = NoFlows]
  /\ gauge' = gauge - Cardinality({id \in FlowIDs : flows[c][id] # None})
  /\ UNCHANGED sock

\* udpSession.close, under mu.
close(c) ==
  /\ closed' = [closed EXCEPT ![c] = TRUE]
  /\ flows' = [flows EXCEPT ![c] = NoFlows]
  /\ gauge' = gauge - Cardinality({id \in FlowIDs : flows[c][id] # None})
  /\ sock' = [s \in Sockets |->
                IF s \in Range(flows[c]) THEN [sock[s] EXCEPT !.open = FALSE] ELSE sock[s]]

\* AcceptStream fails and serve returns; its deferred call closes the UDP session.
ServeReturns ==
  /\ pc = "serve"
  /\ cancelled \/ conn[current] = "down"
  /\ close(current)
  /\ pc' = "ended"
  /\ UNCHANGED <<delay, cancelled, ready, current, conn, recv>>

\* Back in Run: a session that lasted ReconnectMax is followed by another one at once.
SessionEnded ==
  /\ pc = "ended"
  /\ conn' = [conn EXCEPT ![current] = "down"]
  /\ ready' = FALSE
  /\ \/ pc' = "dial" /\ delay' = ReconnectMin
     \/ pc' = "wait" /\ UNCHANGED delay
  /\ UNCHANGED <<cancelled, current, udp>>

\* wait returns; the timer and ctx may be due together.
WaitReturns ==
  /\ pc = "wait"
  /\ \/ /\ cancelled
        /\ pc' = "returned" /\ UNCHANGED delay
     \/ /\ pc' = "dial" /\ delay' = Grow(delay)
  /\ UNCHANGED <<cancelled, ready, current, conn, udp>>

Cancel ==
  /\ ~ cancelled
  /\ cancelled' = TRUE
  /\ UNCHANGED <<pc, delay, ready, current, conn, udp>>
-----------------------------------------------------------------------------
(* receive: the goroutine of a session takes one datagram at a time.       *)

Receive(c, id, p) ==
  /\ recv[c] = Waiting
  /\ conn[c] = "up"
  /\ recv' = [recv EXCEPT ![c] = [at |-> "lookup", id |-> id, peer |-> p]]
  /\ UNCHANGED <<loop, conn, closed, flows, sock, gauge>>

ReceiveReturns(c) ==
  /\ recv[c] = Waiting
  /\ conn[c] = "down"
  /\ recv' = [recv EXCEPT ![c] = Off]
  /\ UNCHANGED <<loop, conn, closed, flows, sock, gauge>>

\* flow() finds the flow of the datagram.
FlowFound(c) ==
  LET d == recv[c] IN
  /\ d.at = "lookup"
  /\ ~ closed[c] /\ flows[c][d.id] # None
  /\ sock[flows[c][d.id]].peer = d.peer
  /\ recv' = [recv EXCEPT ![c] = [at |-> "write", flow |-> flows[c][d.id], peer |-> d.peer]]
  /\ UNCHANGED <<loop, conn, closed, flows, sock, gauge>>

Free(s) ==
  /\ sock[s] = None
  /\ \A c \in Sessions : recv[c].at = "write" => recv[c].flow # s

\* flow() dials a new one and starts its reader.
FlowDialled(c) ==
  LET d == recv[c] IN
  /\ d.at = "lookup"
  /\ ~ closed[c] /\ flows[c][d.id] = None
  /\ Cardinality({id \in FlowIDs : flows[c][id] # None}) < MaxUDPFlows
  /\ \E s \in Sockets :
       /\ Free(s)
       /\ flows' = [flows EXCEPT ![c][d.id] = s]
       /\ sock' = [sock EXCEPT ![s] = [session |-> c, id |-> d.id, peer |-> d.peer,
                                       open |-> TRUE, reading |-> TRUE]]
       /\ recv' = [recv EXCEPT ![c] = [at |-> "write", flow |-> s, peer |-> d.peer]]
  /\ gauge' = gauge + 1
  /\ UNCHANGED <<loop, conn, closed>>

\* flow() refuses: closed, other endpoints, the limit is reached, or the dial fails.
FlowRefused(c) ==
  LET d == recv[c] IN
  /\ d.at = "lookup"
  /\ ~ closed[c] /\ flows[c][d.id] # None => sock[flows[c][d.id]].peer # d.peer
  /\ recv' = [recv EXCEPT ![c] = Waiting]
  /\ UNCHANGED <<loop, conn, closed, flows, sock, gauge>>

\* The payload is written, or dropped when the flow's socket was closed meanwhile.
Write(c) ==
  /\ recv[c].at = "write"
  /\ recv' = [recv EXCEPT ![c] = Waiting]
  /\ UNCHANGED <<loop, conn, closed, flows, sock, gauge>>
-----------------------------------------------------------------------------
(* readResponses: the goroutine of a flow.                                 *)

\* The idle deadline passes, or Read or SendDatagram fails: the socket is closed.
ReaderStops(s) ==
  /\ sock[s] # None
  /\ sock[s].reading
  /\ sock' = [sock EXCEPT ![s].open = FALSE, ![s].reading = FALSE]
  /\ UNCHANGED <<loop, conn, closed, flows, recv, gauge>>

\* Mutated form: the flow is counted out whether or not it is still in the table.
ReaderReturnsUnchecked(s) ==
  /\ sock[s] # None
  /\ ~ sock[s].reading
  /\ flows' = [flows EXCEPT ![sock[s].session][sock[s].id] = IF @ = s THEN None ELSE @]
  /\ gauge' = gauge - 1
  /\ sock' = [sock EXCEPT ![s] = None]
  /\ UNCHANGED <<loop, conn, closed, recv>>

\* Under mu it leaves the table, unless close() has emptied that already.
ReaderReturns(s) ==
  LET c == sock[s].session
      id == sock[s].id
  IN
  /\ sock[s] # None
  /\ ~ sock[s].reading
  /\ IF flows[c][id] = s
       THEN flows' = [flows EXCEPT ![c][id] = None] /\ gauge' = gauge - 1
       ELSE UNCHANGED <<flows, gauge>>
  /\ sock' = [sock EXCEPT ![s] = None]
  /\ UNCHANGED <<loop, conn, closed, recv>>
-----------------------------------------------------------------------------
Next ==
  \/ Dial \/ DialFails \/ RunReturns \/ Accepted \/ Refused \/ ServeReturns \/ SessionEnded
  \/ WaitReturns \/ Cancel
  \/ \E c \in Sessions :
       \/ ConnectionLost(c)
       \/ \E id \in FlowIDs, p \in Peers : Receive(c, id, p)
       \/ ReceiveReturns(c) \/ FlowFound(c) \/ FlowDialled(c) \/ FlowRefused(c) \/ Write(c)
  \/ \E s \in Sockets : ReaderStops(s) \/ ReaderReturns(s)

Spec == Init /\ [][Next]_vars

\* Calls return: a dial and a handshake have deadlines, a wait has a timer, AcceptStream and
\* ReceiveDatagram end with the connection and Read with the socket.  An open flow need not
\* become idle, and nothing makes a dial or a handshake succeed.
FairSpec ==
  /\ Spec
  /\ WF_vars(Dial \/ DialFails \/ RunReturns)
  /\ WF_vars(Accepted \/ Refused)
  /\ WF_vars(ServeReturns)
  /\ WF_vars(SessionEnded)
  /\ WF_vars(WaitReturns)
  /\ \A c \in Sessions :
       /\ WF_vars(ReceiveReturns(c))
       /\ WF_vars(FlowFound(c) \/ FlowDialled(c) \/ FlowRefused(c))
       /\ WF_vars(Write(c))
  /\ \A s \in Sockets :
       /\ WF_vars(sock[s] # None /\ ~ sock[s].open /\ ReaderStops(s))
       /\ WF_vars(ReaderReturns(s))
-----------------------------------------------------------------------------
(* Properties.                                                             *)

\* The table of a session and its sockets agree in both directions, although readers leave
\* on their own: an entry is a flow of that session and number, and an open socket is in
\* the table of its session, so that close() reaches it.  Each flow is counted out once, by
\* its reader or by close(), also when the reader of an ended session comes after the start
\* of the next one.  What receive is about to write goes to a socket dialled for the endpoints
\* of that datagram in that session, or to a closed one.
FlowsAgree ==
  /\ \A c \in Sessions, id \in FlowIDs :
       flows[c][id] # None =>
         /\ sock[flows[c][id]] # None
         /\ sock[flows[c][id]].session = c /\ sock[flows[c][id]].id = id
  /\ \A s \in Sockets :
       sock[s] # None /\ sock[s].open => flows[sock[s].session][sock[s].id] = s
  /\ gauge = Cardinality({e \in Sessions \X FlowIDs : flows[e[1]][e[2]] # None})
  /\ \A c \in Sessions :
       recv[c].at = "write" /\ sock[recv[c].flow] # None =>
         sock[recv[c].flow].peer = recv[c].peer /\ sock[recv[c].flow].session = c

\* Every flow of a lost connection is released, by whichever goroutine comes first.
SocketsReleased ==
  \A s \in Sockets :
    (sock[s] # None /\ conn[sock[s].session] = "down") ~> (sock[s] = None)

\* Until it is told to stop the connector keeps trying: it is in a session or dials again.
NeverGivesUp == []<>(pc = "dial" \/ pc = "serve" \/ cancelled)

=============================================================================
