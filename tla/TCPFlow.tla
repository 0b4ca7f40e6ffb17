------------------------------ MODULE TCPFlow -------------------------------
(***************************************************************************)
(* One TCP flow from a tailnet client to a Railway service: handleTCP of   *)
(* the edge (internal/edge/edge.go), handleTCP of the connector            *)
(* (internal/connector/connector.go) and the copy loops that both run when *)
(* the flow is set up (internal/proxy/copy.go, Bidirectional).  A flow to  *)
(* the DNS server of the environment is copied message by message by the   *)
(* connector (internal/dnsproxy/dnsproxy.go, ForwardTCP).                  *)
(*                                                                         *)
(*   client --link 1-- edge --link 2-- connector --link 3-- upstream       *)
(*                                                                         *)
(* Links 1 and 3 are TCP connections, link 2 is a QUIC stream.  A link has *)
(* a pipe in each direction; a pipe delivers what is written in order,     *)
(* then the end of file, unless it is reset.  Bytes are counted.           *)
(***************************************************************************)
EXTENDS Integers

CONSTANTS
  MaxSent,  \* bound on the units of data an end sends
  Window    \* units a pipe holds

ASSUME FlowAssumption == MaxSent \in Nat /\ Window \in Nat \ {0}

Dirs == {"fwd", "bwd"}      \* fwd: from the client to the upstream
Links == 1..3
Proxies == 1..2             \* the edge, between links 1 and 2; the connector, 2 and 3
Pipes == Links \X Dirs

VARIABLES
  data,              \* units under way in a pipe
  fin, reset,        \* pipes closed by the writer; pipes aborted
  lost,              \* the QUIC session is lost
  sent, got,         \* per direction: units written by one end and read by the other
  main,              \* the two handlers
  copy,              \* the copy goroutines of each handler and their results
  answer,            \* the OpenTCPResult frame on the stream
  dialled,           \* link 3 exists
  dns,               \* the upstream is the environment's DNS server
  fault              \* an end aborted, the session was lost or the set-up failed

marks == <<fin, reset>>
pipes == <<data, marks>>
tcpVars == <<pipes, lost, sent, got, main, copy, answer, dialled, dns, fault>>

Source(p, d) == IF d = "fwd" THEN <<p, d>> ELSE <<p + 1, d>>
Sink(p, d) == IF d = "fwd" THEN <<p + 1, d>> ELSE <<p, d>>
First(d) == IF d = "fwd" THEN <<1, d>> ELSE <<3, d>>
Last(d) == IF d = "fwd" THEN <<3, d>> ELSE <<1, d>>

TCPTypeOK ==
  /\ data \in [Pipes -> 0..Window]
  /\ fin \subseteq Pipes /\ reset \subseteq Pipes
  /\ sent \in [Dirs -> 0..MaxSent] /\ got \in [Dirs -> 0..MaxSent]
  /\ DOMAIN main = Proxies
  /\ main[1] \in {"accept", "route", "open", "await", "first", "second", "done"}
  /\ main[2] \in {"none", "request", "dial", "reply", "first", "second", "done"}
  /\ copy \in [Proxies \X Dirs -> {"off", "run", "ok", "error"}]
  /\ answer \in {"none", "accepted", "refused"}
  /\ lost \in BOOLEAN /\ dialled \in BOOLEAN /\ dns \in BOOLEAN /\ fault \in BOOLEAN

TCPInit ==
  /\ data = [q \in Pipes |-> 0]
  /\ fin = {} /\ reset = {} /\ lost = FALSE
  /\ sent = [d \in Dirs |-> 0] /\ got = [d \in Dirs |-> 0]
  /\ main = [p \in Proxies |-> IF p = 1 THEN "accept" ELSE "none"]
  /\ copy = [g \in Proxies \X Dirs |-> "off"]
  /\ answer = "none"
  /\ dialled = FALSE /\ dns = FALSE /\ fault = FALSE
-----------------------------------------------------------------------------
(* The connections.                                                        *)

Delivered(q) == q \in fin /\ data[q] = 0

\* The pipes that handler p reads and writes on link l.
Reads(p, l) == <<l, IF l = p THEN "fwd" ELSE "bwd">>
Writes(p, l) == <<l, IF l = p THEN "bwd" ELSE "fwd">>

\* Close of a TCP connection: what was written is still delivered, unless there is unread
\* data; what the other end writes from now on is refused.
CloseTCP(p, l) ==
  [f |-> {Writes(p, l)},
   r |-> {q \in {Reads(p, l)} : ~ Delivered(q)}
           \cup {q \in {Writes(p, l)} : data[Reads(p, l)] > 0}]

\* CancelRead and CancelWrite of a QUIC stream; both ends see a stream error.
CancelStream == [f |-> {}, r |-> {q \in {2} \X Dirs : ~ Delivered(q)}]

\* Close of a QUIC stream ends only the direction that is written.
CloseStream(p) == [f |-> {Writes(p, 2)}, r |-> {}]

Both(a, b) == [f |-> a.f \cup b.f, r |-> a.r \cup b.r]

Apply(c) ==
  /\ fin' = fin \cup c.f
  /\ reset' = reset \cup c.r

\* The other link of handler p: the client's for the edge, the upstream's for the connector.
TCPLink(p) == IF p = 1 THEN 1 ELSE 3
-----------------------------------------------------------------------------
(* Setting the flow up.                                                    *)

Step(p, pc) == main' = [main EXCEPT ![p] = pc]

\* The edge gives up: the stream, if there is one, is cancelled and the client closed.
Deny(stream) ==
  /\ Step(1, "done")
  /\ Apply(IF stream THEN Both(CancelStream, CloseTCP(1, 1)) ELSE CloseTCP(1, 1))
  /\ fault' = TRUE

\* acceptTCP: a handler starts unless MaxTCPFlows of them run.
acceptTCP ==
  /\ main[1] = "accept"
  /\ \/ Step(1, "route") /\ UNCHANGED <<marks, fault>>
     \/ Deny(FALSE)
  /\ UNCHANGED <<data, lost, sent, got, copy, answer, dialled, dns>>

\* route() finds a session or not.
FindRoute ==
  /\ main[1] = "route"
  /\ \/ Step(1, "open") /\ UNCHANGED <<marks, fault>>
     \/ Deny(FALSE)
  /\ UNCHANGED <<data, lost, sent, got, copy, answer, dialled, dns>>

\* OpenStreamSync and the OpenTCP frame; the connector accepts the stream.
OpenTCP ==
  /\ main[1] = "open"
  /\ \/ main' = [main EXCEPT ![1] = "await", ![2] = "request"] /\ UNCHANGED <<marks, fault>>
     \/ Deny(FALSE)
  /\ UNCHANGED <<data, lost, sent, got, copy, answer, dialled, dns>>

\* The frame cannot be written; the connector may have met the stream already.
OpenFails ==
  /\ main[1] = "open"
  /\ main' = [main EXCEPT ![1] = "done", ![2] = "request"]
  /\ Apply(Both(CancelStream, CloseTCP(1, 1)))
  /\ fault' = TRUE
  /\ UNCHANGED <<data, lost, sent, got, copy, answer, dialled, dns>>

\* The edge reads the answer, or its ten seconds are over or the stream has failed.
Answered ==
  /\ main[1] = "await"
  /\ \/ /\ answer = "accepted" /\ <<2, "bwd">> \notin reset
        /\ Step(1, "first")
        /\ copy' = [g \in Proxies \X Dirs |-> IF g[1] = 1 THEN "run" ELSE copy[g]]
        /\ UNCHANGED <<marks, fault>>
     \/ /\ Deny(TRUE)
        /\ UNCHANGED copy
  /\ UNCHANGED <<data, lost, sent, got, answer, dialled, dns>>

\* The connector refuses: it answers and closes its side of the stream.
Refuse ==
  /\ Step(2, "done")
  /\ answer' = "refused"
  /\ Apply(CloseStream(2))
  /\ fault' = TRUE

\* The request cannot be read, is not allowed or too late, or is good.
ReadRequest ==
  /\ main[2] = "request"
  /\ \/ Step(2, "dial") /\ UNCHANGED <<marks, answer, fault>>
     \/ Refuse
     \/ Step(2, "done") /\ Apply(CancelStream) /\ fault' = TRUE /\ UNCHANGED answer
  /\ UNCHANGED <<data, lost, sent, got, copy, dialled, dns>>

DialUpstream ==
  /\ main[2] = "dial"
  /\ \/ /\ Step(2, "reply") /\ dialled' = TRUE /\ dns' \in BOOLEAN
        /\ UNCHANGED <<marks, answer, fault>>
     \/ Refuse /\ UNCHANGED <<dialled, dns>>
  /\ UNCHANGED <<data, lost, sent, got, copy>>

\* Mutated form: the upstream connection is forgotten when the answer cannot be written.
AcceptKeepingUpstream ==
  /\ main[2] = "reply"
  /\ \/ /\ Step(2, "first")
        /\ answer' = "accepted"
        /\ copy' = [g \in Proxies \X Dirs |-> IF g[1] = 2 THEN "run" ELSE copy[g]]
        /\ UNCHANGED <<marks, fault>>
     \/ /\ Step(2, "done")
        /\ Apply(CancelStream)
        /\ fault' = TRUE
        /\ UNCHANGED <<answer, copy>>
  /\ UNCHANGED <<data, lost, sent, got, dialled, dns>>

\* The answer is written, perhaps to a stream that the edge has given up, or it fails.
Accept ==
  /\ main[2] = "reply"
  /\ \/ /\ Step(2, "first")
        /\ answer' = "accepted"
        /\ copy' = [g \in Proxies \X Dirs |-> IF g[1] = 2 THEN "run" ELSE copy[g]]
        /\ UNCHANGED <<marks, fault>>
     \/ /\ Step(2, "done")
        /\ Apply(Both(CloseTCP(2, 3), CancelStream))
        /\ fault' = TRUE
        /\ UNCHANGED <<answer, copy>>
  /\ UNCHANGED <<data, lost, sent, got, dialled, dns>>
-----------------------------------------------------------------------------
(* Bidirectional.                                                          *)

\* io.Copy moves data.
CopyData(p, d) ==
  LET in == Source(p, d)
      out == Sink(p, d)
  IN
  /\ copy[<<p, d>>] = "run"
  /\ data[in] > 0 /\ in \notin reset
  /\ data[out] < Window /\ out \notin reset /\ out \notin fin
  /\ data' = [data EXCEPT ![in] = @ - 1, ![out] = @ + 1]
  /\ UNCHANGED <<marks, lost, sent, got, main, copy, answer, dialled, dns, fault>>

\* Handler p copies DNS messages.
Messages(p) == dns /\ p = 2

\* What closeSend and closeWrite close after a copy to pipe out: ForwardTCP's closeWrite
\* closes no QUIC stream.
Ended(p, out) == IF Messages(p) /\ out[1] = 2 THEN {} ELSE {out}

\* A call on pipe q that fails reports net.ErrClosed: the error of a session that is lost is
\* one, for every stream of it.  (So is that of a connection the handler has closed itself,
\* but only after the first result, when the outcome of a copy decides nothing any more.)
Gone(q) == lost /\ q[1] = 2

\* Bidirectional reports that the send side cannot be closed; ForwardTCP does not.
CloseSendFails(p, out) == ~ Messages(p) /\ out \in reset /\ ~ Gone(out)

\* What normalizeCopyError and transferError make of a call on pipe q that has failed.
Failure(q) == IF Gone(q) THEN "ok" ELSE "error"

\* A copy goroutine of handler p ends with r, and closes the send side in any case.
CopyResult(p, d, r) ==
  /\ Apply([f |-> Ended(p, Sink(p, d)), r |-> {}])
  /\ copy' = [copy EXCEPT ![<<p, d>>] = IF CloseSendFails(p, Sink(p, d)) THEN "error" ELSE r]

\* Mutated form: the end is passed on as soon as it is known, before the data.
CopyEndsEarly(p, d) ==
  /\ copy[<<p, d>>] = "run"
  /\ Source(p, d) \in fin /\ Source(p, d) \notin reset
  /\ CopyResult(p, d, "ok")
  /\ UNCHANGED <<data, lost, sent, got, main, answer, dialled, dns, fault>>

\* The copy meets the end of file and passes it on.
CopyEnds(p, d) ==
  /\ copy[<<p, d>>] = "run"
  /\ Delivered(Source(p, d)) /\ Source(p, d) \notin reset
  /\ CopyResult(p, d, "ok")
  /\ UNCHANGED <<data, lost, sent, got, main, answer, dialled, dns, fault>>

\* Reading or writing fails.
CopyFails(p, d) ==
  LET in == Source(p, d)
      out == Sink(p, d)
  IN
  /\ copy[<<p, d>>] = "run"
  /\ \/ in \in reset /\ CopyResult(p, d, Failure(in))
     \/ data[in] > 0 /\ (out \in reset \/ out \in fin) /\ CopyResult(p, d, Failure(out))
  /\ UNCHANGED <<data, lost, sent, got, main, answer, dialled, dns, fault>>

\* A message of the client or of the DNS server that ForwardTCP does not pass on: it cannot
\* be decoded or encoded, or its question is outside the suffix.
MessageRefused(d) ==
  LET in == Source(2, d) IN
  /\ dns /\ copy[<<2, d>>] = "run"
  /\ data[in] > 0 /\ in \notin reset
  /\ data' = [data EXCEPT ![in] = @ - 1]
  /\ CopyResult(2, d, "error")
  /\ fault' = TRUE
  /\ UNCHANGED <<lost, sent, got, main, answer, dialled, dns>>

Results(p) == {d \in Dirs : copy[<<p, d>>] \in {"ok", "error"}}

\* Mutated form: both connections are closed after the first result, whatever it is.
FirstResultCloses(p) ==
  /\ main[p] = "first"
  /\ Results(p) # {}
  /\ Step(p, "second")
  /\ Apply(Both(CancelStream, CloseTCP(p, TCPLink(p))))
  /\ UNCHANGED <<data, lost, sent, got, copy, answer, dialled, dns, fault>>

\* Mutated form: an error does not close anything.
FirstResultWaits(p) ==
  /\ main[p] = "first"
  /\ Results(p) # {}
  /\ Step(p, "second")
  /\ UNCHANGED <<pipes, lost, sent, got, copy, answer, dialled, dns, fault>>

\* The first result.  Bidirectional closes both connections when it is an error, with
\* forceClose; ForwardTCP also when the DNS server has ended, and only with Close.
FirstResult(p) ==
  /\ main[p] = "first"
  /\ \E d \in Results(p) :
       CASE Messages(p) /\ (copy[<<p, d>>] = "error" \/ d = "bwd") ->
              Apply(Both(CloseStream(p), CloseTCP(p, 3)))
         [] ~ Messages(p) /\ copy[<<p, d>>] = "error" ->
              Apply(Both(CancelStream, CloseTCP(p, TCPLink(p))))
         [] OTHER -> UNCHANGED marks
  /\ Step(p, "second")
  /\ UNCHANGED <<data, lost, sent, got, copy, answer, dialled, dns, fault>>

\* Mutated form: the deadline counts from the last response only.
DrainTimeoutAfterResponse ==
  /\ dns /\ main[2] = "second" /\ copy[<<2, "fwd">>] = "ok" /\ copy[<<2, "bwd">>] = "run"
  /\ data[<<3, "bwd">>] = 0 /\ <<3, "bwd">> \notin fin /\ <<3, "bwd">> \notin reset
  /\ sent["bwd"] > 0
  /\ CopyResult(2, "bwd", "error")
  /\ fault' = TRUE
  /\ UNCHANGED <<data, lost, sent, got, main, answer, dialled, dns>>

\* After the last query the DNS server has ten seconds for each response.
DrainTimeout ==
  /\ dns /\ main[2] = "second" /\ copy[<<2, "fwd">>] = "ok" /\ copy[<<2, "bwd">>] = "run"
  /\ data[<<3, "bwd">>] = 0 /\ <<3, "bwd">> \notin fin /\ <<3, "bwd">> \notin reset
  /\ CopyResult(2, "bwd", "error")
  /\ fault' = TRUE
  /\ UNCHANGED <<data, lost, sent, got, main, answer, dialled, dns>>

\* The second result: both connections are closed and the handler returns.
SecondResult(p) ==
  /\ main[p] = "second"
  /\ Results(p) = Dirs
  /\ Apply(Both(CloseStream(p), CloseTCP(p, TCPLink(p))))
  /\ Step(p, "done")
  /\ UNCHANGED <<data, lost, sent, got, copy, answer, dialled, dns, fault>>
-----------------------------------------------------------------------------
(* The ends: the client sends fwd and the upstream bwd.                    *)

Present(d) == d = "fwd" \/ dialled

Send(d) ==
  LET q == First(d) IN
  /\ Present(d)
  /\ sent[d] < MaxSent
  /\ data[q] < Window /\ q \notin fin /\ q \notin reset
  /\ data' = [data EXCEPT ![q] = @ + 1]
  /\ sent' = [sent EXCEPT ![d] = @ + 1]
  /\ UNCHANGED <<marks, lost, got, main, copy, answer, dialled, dns, fault>>

HalfClose(d) ==
  LET q == First(d) IN
  /\ Present(d)
  /\ q \notin fin /\ q \notin reset
  /\ fin' = fin \cup {q}
  /\ UNCHANGED <<data, reset, lost, sent, got, main, copy, answer, dialled, dns, fault>>

Take(d) ==
  LET q == Last(d) IN
  /\ data[q] > 0 /\ q \notin reset
  /\ data' = [data EXCEPT ![q] = @ - 1]
  /\ got' = [got EXCEPT ![d] = @ + 1]
  /\ UNCHANGED <<marks, lost, sent, main, copy, answer, dialled, dns, fault>>

\* The client or the upstream resets its connection, or the QUIC session is lost.
Abort(l) ==
  /\ l = 2 => main[2] # "none"
  /\ l = 3 => dialled
  /\ \E q \in {l} \X Dirs : q \notin reset /\ ~ Delivered(q)
  /\ reset' = reset \cup {q \in {l} \X Dirs : ~ Delivered(q)}
  /\ lost' = (lost \/ l = 2)
  /\ fault' = TRUE
  /\ UNCHANGED <<data, fin, sent, got, main, copy, answer, dialled, dns>>
-----------------------------------------------------------------------------
Copy(p, d) == CopyData(p, d) \/ CopyEnds(p, d) \/ CopyFails(p, d)
Edge == acceptTCP \/ FindRoute \/ OpenTCP \/ OpenFails \/ Answered
Connector == ReadRequest \/ DialUpstream \/ Accept
Await(p) == FirstResult(p) \/ SecondResult(p)
Handler(p) == (p = 1 /\ Edge) \/ (p = 2 /\ Connector) \/ Await(p)

TCPNext ==
  \/ \E p \in Proxies : Handler(p) \/ \E d \in Dirs : Copy(p, d)
  \/ DrainTimeout
  \/ \E d \in Dirs : MessageRefused(d) \/ Send(d) \/ HalfClose(d) \/ Take(d)
  \/ \E l \in Links : Abort(l)

TCPSpec == TCPInit /\ [][TCPNext]_tcpVars

\* Every step of a set-up has a deadline, goroutines run when their calls can return, and
\* the ends read what reaches them; they need not send, finish or fail.
TCPFairSpec ==
  /\ TCPSpec
  /\ \A p \in Proxies : WF_tcpVars(Handler(p)) /\ \A d \in Dirs : WF_tcpVars(Copy(p, d))
  /\ WF_tcpVars(DrainTimeout)
  /\ \A d \in Dirs : WF_tcpVars(Take(d))
-----------------------------------------------------------------------------
(* Properties.                                                             *)

\* ForwardTCP closes the connection to a DNS server that has ended, whatever queries are
\* under way.
QueriesDropped(d) == dns /\ d = "fwd" /\ First("bwd") \in fin

\* In a flow without a fault an end that meets the end of file has everything the other end
\* sent: closing one direction truncates neither that direction nor the other, except for
\* queries to a DNS server that has closed.
EndMeansComplete ==
  \A d \in Dirs :
    ~ fault /\ Delivered(Last(d)) /\ ~ QueriesDropped(d) => got[d] = sent[d] /\ First(d) \in fin

\* A handler that has returned leaves no connection behind: the client or upstream it served
\* is closed, and so is the direction of the stream it wrote, however the set-up or the
\* copying ended and whichever side timed out first.
NothingLeftOpen ==
  \A p \in Proxies :
    main[p] = "done" =>
      /\ (p = 1 \/ dialled) => Writes(p, TCPLink(p)) \in fin
      /\ main[2] # "none" => Writes(p, 2) \in fin \/ Writes(p, 2) \in reset

\* Units that are still to arrive at the other end.
Outstanding(d) == got[d] < sent[d] /\ ~ fault /\ ~ QueriesDropped(d)

\* What an end has sent arrives, also after the other direction has ended, unless there is a
\* fault: half-closing does not end the flow.
EverythingArrives ==
  (\E d \in Dirs : Outstanding(d)) ~> (\A d \in Dirs : ~ Outstanding(d))

\* A copy of handler p has failed, or will as soon as it reads, and the handler still runs.
Failing(p) ==
  /\ main[p] # "done" /\ ~ Messages(p)
  /\ \E d \in Dirs : \/ copy[<<p, d>>] = "error"
                     \/ copy[<<p, d>>] = "run" /\ Source(p, d) \in reset /\ ~ Gone(Source(p, d))

\* Handler p has lost its session, and its TCP peer has sent something or ended since.
Orphaned(p) ==
  LET q == Reads(p, TCPLink(p)) IN
  /\ main[p] # "done" /\ ~ Messages(p)
  /\ lost
  /\ data[q] > 0 \/ q \in fin \/ q \in reset

\* A copy error ends the handler, although its other copy may be waiting for an idle
\* connection, and so does a reset of the stream or connection that it still reads; the slot
\* of the flow is given back.  The loss of the session is no such error: normalizeCopyError
\* takes net.ErrClosed for an ordinary end, so the handler waits for its TCP peer, and ends as
\* soon as that sends or ends.
ErrorsEndHandler ==
  (\E p \in Proxies : Failing(p) \/ Orphaned(p)) ~>
    (\A p \in Proxies : ~ Failing(p) /\ ~ Orphaned(p))

\* A DNS flow whose queries have ended, by the client or by an error, ends: a DNS server
\* that neither answers nor closes does not keep it.  (One whose responses have ended waits
\* for the client.)
QueriesEndHandler ==
  (dns /\ copy[<<2, "fwd">>] \in {"ok", "error"}) ~> (main[2] = "done")
=============================================================================
