------------------------------ MODULE EdgeRun -------------------------------
(***************************************************************************)
(* The life of an edge process: Server.Run (internal/edge/edge.go) on top  *)
(* of the interception policy in the kernel (NetPolicy).                   *)
(*                                                                         *)
(* Run starts Tailscale, waits for its interface, applies the policy,      *)
(* opens the listeners and starts the members of an error group: an accept *)
(* loop per listener, the route reconciler, a watcher of the Tailscale     *)
(* process and the member that shuts the others down.  The first member    *)
(* that fails ends the context of the group; Run waits for all of them and *)
(* then makes its deferred calls, the last one first.  The process may     *)
(* also die at any step and be started again.                              *)
(***************************************************************************)
EXTENDS NetPolicy

VARIABLES
  stage,      \* how far Run has come
  managed,    \* config.ManageTailscale
  dynamic,    \* there is a registry: a DNS listener and a reconciler
  tailscale,  \* the managed process: "off", "up" or "dead"
  open,       \* the listeners that are open
  members,    \* the members of the group that have not returned
  healthy,    \* what the status server reports
  told,       \* the context given to Run is done
  result      \* what Run returns

process == <<stage, managed, dynamic, tailscale, open, members, healthy, told, result>>
runVars == <<vars, process>>

\* The listeners in the order in which they are opened, each with its accept loop.
Listening == IF dynamic THEN <<"quic", "tcp", "udp", "dns">> ELSE <<"quic", "tcp", "udp">>
Listeners == {Listening[i] : i \in 1..Len(Listening)}

Members ==
  Listeners \cup {"shutdown"} \cup (IF dynamic THEN {"reconciler"} ELSE {})
            \cup (IF managed THEN {"watcher"} ELSE {})

RunTypeOK ==
  /\ TypeOK
  /\ stage \in {"boot", "wait", "apply", "listen", "serve", "unwind", "returned"}
  /\ managed \in BOOLEAN /\ dynamic \in BOOLEAN
  /\ tailscale \in {"off", "up", "dead"}
  /\ open \subseteq Listeners /\ members \subseteq Members
  /\ healthy \in BOOLEAN /\ told \in BOOLEAN
  /\ result \in {"none", "nil", "error"}

RunInit ==
  /\ Init
  /\ stage = "boot" /\ managed \in BOOLEAN /\ dynamic \in BOOLEAN
  /\ tailscale = "off" /\ open = {} /\ members = {}
  /\ healthy = FALSE /\ told = FALSE /\ result = "none"
-----------------------------------------------------------------------------
(* Run up to the group.                                                    *)

At(s) == stage = s /\ UNCHANGED <<managed, dynamic, told>>

\* Run returns err: the deferred calls come next.
Fails == stage' = "unwind" /\ result' = "error"

\* Starts containerboot, if the edge manages it.
startTailscale ==
  /\ At("boot")
  /\ \/ ~ managed /\ stage' = "wait" /\ UNCHANGED <<tailscale, result>>
     \/ managed /\ stage' = "wait" /\ tailscale' = "up" /\ UNCHANGED result
     \/ managed /\ Fails /\ UNCHANGED tailscale
  /\ healthy' = FALSE
  /\ UNCHANGED <<vars, open, members>>

\* The interface is there, the wait ends after a minute or with the context, or Tailscale
\* has stopped.
waitForNetwork ==
  /\ At("wait")
  /\ \/ stage' = "apply" /\ UNCHANGED result
     \/ Fails
  /\ UNCHANGED <<vars, tailscale, open, members, healthy>>

\* policy.Apply; a failed one has cleaned up itself and is not closed.
ApplyPolicy ==
  /\ At("apply")
  /\ ApplyStarts \/ ApplyCleanup \/ Apply \/ rollback
  /\ CASE pc' = "running" -> stage' = "listen" /\ UNCHANGED result
       [] pc' = "stopped" -> Fails
       [] OTHER           -> UNCHANGED <<stage, result>>
  /\ UNCHANGED <<tailscale, open, members, healthy>>

\* The next listener is opened, or cannot be.
Listen ==
  /\ At("listen") /\ open # Listeners
  /\ \/ /\ \E i \in 1..Len(Listening) :
             /\ Listening[i] \notin open
             /\ \A j \in 1..(i - 1) : Listening[j] \in open
             /\ open' = open \cup {Listening[i]}
        /\ UNCHANGED <<stage, result>>
     \/ Fails /\ UNCHANGED open
  /\ UNCHANGED <<vars, tailscale, members, healthy>>

\* The edge is healthy, and the group starts.
Serve ==
  /\ At("listen") /\ open = Listeners
  /\ stage' = "serve" /\ healthy' = TRUE /\ members' = Members
  /\ UNCHANGED <<vars, tailscale, open, result>>
-----------------------------------------------------------------------------
(* The members of the group.                                               *)

\* A member returns; the first error ends the context of the group and is its result.
Leaves(m) == members' = members \ {m} /\ UNCHANGED <<stage, healthy>>

CancelGroup ==
  /\ cancelled' = TRUE
  /\ UNCHANGED <<kernel, routes, pc, index, failed, outcome, restarts>>

EndsWith(m, r) == Leaves(m) /\ result' = r /\ CancelGroup

\* The listener of an accept loop breaks.
AcceptFails(m) ==
  /\ At("serve") /\ m \in members \cap Listeners /\ ~ cancelled
  /\ EndsWith(m, "error")
  /\ UNCHANGED <<tailscale, open>>

\* An accept loop is in its read or accept until its listener is closed; only QUIC's also
\* ends with the context.
AcceptEnds(m) ==
  /\ At("serve") /\ m \in members \cap Listeners /\ cancelled
  /\ m \notin open \/ m = "quic"
  /\ Leaves(m)
  /\ UNCHANGED <<vars, tailscale, open, result>>

\* The reconciler replaces the prefixes of the policy, and ends with the context only.
Reconciler ==
  /\ At("serve") /\ "reconciler" \in members
  /\ \/ (\E r \in RouteSets : Replace(r)) /\ UNCHANGED <<stage, members, healthy>>
     \/ cancelled /\ Leaves("reconciler") /\ UNCHANGED vars
  /\ UNCHANGED <<tailscale, open, result>>

\* The watcher reports that Tailscale has stopped, or kills it at the end.
Watcher ==
  /\ At("serve") /\ "watcher" \in members
  /\ \/ /\ tailscale = "dead" /\ ~ cancelled
        /\ EndsWith("watcher", "error")
        /\ UNCHANGED tailscale
     \/ /\ cancelled
        /\ Leaves("watcher") /\ tailscale' = "dead"
        /\ UNCHANGED <<vars, result>>
  /\ UNCHANGED open

\* Mutated form: the context alone is to end the accept loops for UDP.
ShutdownStreams ==
  /\ At("serve") /\ "shutdown" \in members /\ cancelled
  /\ open' = open \ {"quic", "tcp"}
  /\ Leaves("shutdown")
  /\ UNCHANGED <<vars, tailscale, result>>

\* At the end of the context the listeners are closed, and the sessions and flows with them.
Shutdown ==
  /\ At("serve") /\ "shutdown" \in members /\ cancelled
  /\ open' = {}
  /\ Leaves("shutdown")
  /\ UNCHANGED <<vars, tailscale, result>>

\* All members have returned.  An edge that was told to stop returns no error.
Waited ==
  /\ At("serve") /\ members = {}
  /\ stage' = "unwind"
  /\ result' = IF told THEN "nil" ELSE result
  /\ UNCHANGED <<vars, tailscale, open, members, healthy>>
-----------------------------------------------------------------------------
(* The deferred calls, the last one first.                                 *)

CloseListeners ==
  /\ At("unwind") /\ open # {}
  /\ open' = {}
  /\ UNCHANGED <<vars, stage, tailscale, members, healthy, result>>

\* Only a policy that was applied is closed.
ClosePolicy ==
  /\ At("unwind") /\ open = {}
  /\ CloseStarts \/ Close
  /\ UNCHANGED <<stage, tailscale, open, members, healthy, result>>

\* Mutated form: the policy is closed by Run's last lines and not by a deferred call, so a
\* listener that cannot be opened leaves it behind.
ReturnAtOnce ==
  /\ At("unwind") /\ open = {} /\ (pc \notin {"running", "close"} \/ ~ healthy)
  /\ stage' = "returned" /\ healthy' = FALSE
  /\ tailscale' = IF managed /\ tailscale = "up" THEN "dead" ELSE tailscale
  /\ UNCHANGED <<vars, open, members, result>>

\* Tailscale is killed, the edge is not healthy any more, and Run has returned.
Return ==
  /\ At("unwind") /\ open = {} /\ pc \notin {"running", "close"}
  /\ stage' = "returned" /\ healthy' = FALSE
  /\ tailscale' = IF managed /\ tailscale = "up" THEN "dead" ELSE tailscale
  /\ UNCHANGED <<vars, open, members, result>>
-----------------------------------------------------------------------------
(* What happens to the process.                                            *)

\* A signal, or the failure of another server of the process.
Stop ==
  /\ stage # "returned" /\ ~ told
  /\ told' = TRUE
  /\ CancelGroup
  /\ UNCHANGED <<stage, managed, dynamic, tailscale, open, members, healthy, result>>

TailscaleDies ==
  /\ tailscale = "up" /\ tailscale' = "dead"
  /\ UNCHANGED <<vars, stage, managed, dynamic, open, members, healthy, told, result>>

\* The process has ended, by itself or in the middle of something, and a new one starts.
ProcessRestarts ==
  /\ Restart
  /\ stage' = "boot" /\ UNCHANGED <<managed, dynamic>>
  /\ tailscale' = "off" /\ open' = {} /\ members' = {}
  /\ healthy' = FALSE /\ told' = FALSE /\ result' = "none"

Main ==
  \/ startTailscale \/ waitForNetwork \/ ApplyPolicy \/ Listen \/ Serve
  \/ Waited \/ CloseListeners \/ ClosePolicy \/ Return

RunNext ==
  \/ Main
  \/ \E m \in Members : AcceptFails(m) \/ AcceptEnds(m)
  \/ Reconciler \/ Watcher \/ Shutdown
  \/ Stop \/ TailscaleDies \/ ProcessRestarts

\* Commands end, calls return and goroutines run.  The reconciler's select finds the ended
\* context at its next tick at the latest.
RunSpec ==
  /\ RunInit /\ [][RunNext]_runVars
  /\ WF_runVars(Main)
  /\ WF_runVars(\E m \in Members : AcceptEnds(m))
  /\ WF_runVars(Reconciler /\ members' # members) /\ WF_runVars(Watcher)
  /\ WF_runVars(Shutdown)
-----------------------------------------------------------------------------
(* Properties.                                                             *)

\* While the edge reports itself healthy and has not begun to stop, packets for its
\* prefixes are redirected to listeners that somebody reads: the whole policy is in force,
\* every listener is open and every member runs, except that a Tailscale process which has
\* just died is not noticed yet.
HealthyMeansServing ==
  healthy /\ ~ cancelled =>
    /\ table = routes /\ local = Families /\ \A f \in Families : rules[f] = 1
    /\ open = Listeners /\ members = Members

\* When Run has returned, at whatever point it failed or was stopped, no listener, member
\* or Tailscale process is left, and nothing of the policy, of this process or of one that
\* was killed before it.  There are two exceptions: a command of the cleanup has failed, which
\* is reported, or Run failed before it came to the policy (Tailscale did not start, or its
\* interface did not appear), when what a killed process has left stays for the next start.
ReturnedMeansGone ==
  stage = "returned" =>
    /\ open = {} /\ members = {} /\ ~ healthy /\ tailscale # "up"
    /\ NothingLeft \/ outcome = "unclean" \/ pc = "new"

\* A stop, a failed member and the death of Tailscale each end Run: no member waits for
\* something that only another member's end brings.
RunReturns ==
  stage # "returned" /\ (cancelled \/ tailscale = "dead") ~> stage \in {"returned", "boot"}
=============================================================================
