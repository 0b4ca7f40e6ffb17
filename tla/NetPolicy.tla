----------------------------- MODULE NetPolicy ------------------------------
(***************************************************************************)
(* The interception policy of the edge in the kernel                       *)
(* (internal/netpolicy/netpolicy_linux.go): an nftables table, and per     *)
(* address family a policy routing rule and a local route.  The kernel     *)
(* keeps them when the edge process dies, and the next process starts from *)
(* what it finds.                                                          *)
(*                                                                         *)
(* Every command (nft, ip) is one step.  It succeeds, or fails without an  *)
(* effect; when its context ends it is killed, after it took effect or     *)
(* before.                                                                 *)
(***************************************************************************)
EXTENDS Integers, Sequences

CONSTANTS
  RouteSets,   \* the sets of prefixes that are applied and replaced
  MaxRestarts, \* bound on the restarts of the edge, after a crash or an exit
  Absent       \* no nftables table

ASSUME PolicyAssumption == Absent \notin RouteSets /\ MaxRestarts \in Nat

Families == {"-4", "-6"}

VARIABLES
  table,      \* kernel: the prefixes of the table tailbridge, Absent if there is none
  rules,      \* kernel: number of fwmark rules per family
  local,      \* kernel: families with the local route in table 100
  routes,     \* Policy.routes
  pc, index,  \* the call in progress and its next command
  failed,     \* a command of this cleanup has failed
  outcome,    \* of the last Apply or Close
  cancelled,  \* the context of the commands of Apply and Replace is done
  restarts

kernel == <<table, rules, local>>
vars == <<kernel, routes, pc, index, failed, outcome, cancelled, restarts>>

Command(object, family) == [object |-> object, family |-> family]

\* The commands of Apply after the first cleanup, and those of cleanup.
Setup ==
  << Command("table", "inet"), Command("rule", "-4"), Command("route", "-4"),
     Command("rule", "-6"), Command("route", "-6") >>
Teardown ==
  << Command("route", "-6"), Command("rule", "-6"), Command("route", "-4"),
     Command("rule", "-4"), Command("table", "inet") >>

TypeOK ==
  /\ table \in RouteSets \cup {Absent}
  /\ rules \in [Families -> Nat]
  /\ local \subseteq Families
  /\ routes \in RouteSets
  /\ pc \in {"new", "clean", "setup", "rollback", "running", "close", "stopped"}
  /\ index \in 1..Len(Setup)
  /\ failed \in BOOLEAN
  /\ outcome \in {"none", "ok", "unclean", "clean"}
  /\ cancelled \in BOOLEAN
  /\ restarts \in 0..MaxRestarts

Init ==
  /\ table = Absent
  /\ rules = [f \in Families |-> 0]
  /\ local = {}
  /\ routes \in RouteSets
  /\ pc = "new" /\ index = 1 /\ failed = FALSE /\ outcome = "none"
  /\ cancelled = FALSE /\ restarts = 0
-----------------------------------------------------------------------------
(* The kernel.                                                             *)

On(c, object, f) == c.object = object /\ c.family = f

Add(c) ==
  /\ table' = IF c.object = "table" THEN routes ELSE table
  /\ rules' = [f \in Families |-> IF On(c, "rule", f) THEN rules[f] + 1 ELSE rules[f]]
  /\ local' = local \cup {f \in Families : On(c, "route", f)}

\* Removing what is absent is no error (policyObjectAbsent); rule del removes one rule.
Remove(c) ==
  /\ table' = IF c.object = "table" THEN Absent ELSE table
  /\ rules' = [f \in Families |->
                 IF On(c, "rule", f) /\ rules[f] > 0 THEN rules[f] - 1 ELSE rules[f]]
  /\ local' = local \ {f \in Families : On(c, "route", f)}

NothingLeft == table = Absent /\ local = {} /\ \A f \in Families : rules[f] = 0
-----------------------------------------------------------------------------
Goto(p) == pc' = p /\ index' = 1

\* cleanup runs all its commands; after the last one, where to go without and with an error.
Cleanup(p, killable, good, bad) ==
  /\ pc = p
  /\ \/ /\ Remove(Teardown[index])
        /\ UNCHANGED failed
     \/ /\ UNCHANGED kernel \/ (killable /\ Remove(Teardown[index]))
        /\ failed' = TRUE
  /\ IF index < Len(Teardown)
       THEN index' = index + 1 /\ UNCHANGED <<pc, outcome>>
       ELSE /\ Goto(IF failed' THEN bad ELSE good)
            /\ outcome' = IF failed' THEN "unclean"
                          ELSE IF good = "setup" THEN outcome ELSE "clean"
  /\ UNCHANGED <<routes, cancelled, restarts>>

\* Apply starts with a cleanup and stops when that fails.
ApplyStarts ==
  /\ pc = "new"
  /\ Goto("clean") /\ failed' = FALSE
  /\ UNCHANGED <<kernel, routes, outcome, cancelled, restarts>>

\* Mutated form: Apply goes on although its cleanup has failed.
CleanupAnyway == Cleanup("clean", cancelled, "setup", "setup")

ApplyCleanup == Cleanup("clean", cancelled, "setup", "stopped")

\* The commands of Apply; the first failure starts the rollback.
Apply ==
  /\ pc = "setup"
  /\ \/ /\ Add(Setup[index])
        /\ IF index < Len(Setup)
             THEN index' = index + 1 /\ UNCHANGED <<pc, outcome>>
             ELSE Goto("running") /\ outcome' = "ok"
        /\ UNCHANGED failed
     \/ /\ UNCHANGED kernel \/ (cancelled /\ Add(Setup[index]))
        /\ Goto("rollback") /\ failed' = FALSE
        /\ UNCHANGED outcome
  /\ UNCHANGED <<routes, cancelled, restarts>>

\* rollback has a context of its own, which may end too.
rollback == Cleanup("rollback", TRUE, "stopped", "stopped")

\* Mutated form: the new prefixes are kept although nft has failed.
ReplaceKeeping(r) ==
  /\ pc \in {"running", "stopped"}
  /\ routes' = r
  /\ \/ table # Absent /\ table' = r
     \/ UNCHANGED table
  /\ UNCHANGED <<rules, local, pc, index, failed, outcome, cancelled, restarts>>

\* Replace: delete table and the new table in one nft transaction, which fails as a whole
\* when there is no table to delete.  Close holds the mutex while it runs.
Replace(r) ==
  /\ pc \in {"running", "stopped"}
  /\ \/ table # Absent /\ table' = r /\ routes' = r
     \/ UNCHANGED <<table, routes>>
     \/ table # Absent /\ cancelled /\ table' = r /\ UNCHANGED routes
  /\ UNCHANGED <<rules, local, pc, index, failed, outcome, cancelled, restarts>>

\* The deferred Close of Server.Run.
CloseStarts ==
  /\ pc = "running"
  /\ Goto("close") /\ failed' = FALSE
  /\ UNCHANGED <<kernel, routes, outcome, cancelled, restarts>>

Close == Cleanup("close", TRUE, "stopped", "stopped")

Cancel ==
  /\ ~ cancelled
  /\ cancelled' = TRUE
  /\ UNCHANGED <<kernel, routes, pc, index, failed, outcome, restarts>>

\* The process dies or has returned; another one starts with its own prefixes.
Restart ==
  /\ restarts < MaxRestarts
  /\ restarts' = restarts + 1
  /\ routes' \in RouteSets
  /\ Goto("new") /\ failed' = FALSE /\ outcome' = "none" /\ cancelled' = FALSE
  /\ UNCHANGED kernel

Next ==
  \/ ApplyStarts \/ ApplyCleanup \/ Apply \/ rollback \/ CloseStarts \/ Close
  \/ \E r \in RouteSets : Replace(r)
  \/ Cancel \/ Restart

Spec == Init /\ [][Next]_vars
-----------------------------------------------------------------------------
(* Properties.                                                             *)

\* No crash, failed rollback or failed Close ever lets a second routing rule come into
\* being: rule del removes only one, so a second one would stay for good.
OneRulePerFamily == \A f \in Families : rules[f] <= 1

\* After a successful Apply the whole policy is in force with the prefixes the edge believes
\* in, also after failed replacements; a replacement killed by the shutdown is the exception.
PolicyInForce ==
  pc = "running" =>
    /\ ~ cancelled => table = routes
    /\ table # Absent
    /\ local = Families
    /\ \A f \in Families : rules[f] = 1

\* When a failed Apply or a Close reports no cleanup error nothing of the policy is left,
\* whatever an earlier process had left behind.
CleanMeansNothing == pc = "stopped" /\ outcome = "clean" => NothingLeft

=============================================================================
