----------------------------- MODULE EdgeProofs -----------------------------
(***************************************************************************)
(* The edge process and what its name server and its sessions give out.    *)
(* EdgeRun: the safety of the interception policy and of the process       *)
(* around it, for any sets of prefixes and any number of crashes and       *)
(* restarts.  Resolution, for every set of environments and networks, any  *)
(* answers of the resolvers and any lists of routes: where a name and the  *)
(* addresses in its answer lead, that an answer can be used as it stands,  *)
(* and that the two ends of a session agree on the routes.                 *)
(***************************************************************************)
EXTENDS EdgeRun, Resolution, SequenceTheorems, WellFoundedInduction, TLAPS

-----------------------------------------------------------------------------
(* EdgeRun: the life of the edge process.                                  *)

\* What the commands of cleanup before command i have removed.
Cleared(i) ==
  /\ i > 1 => "-6" \notin local
  /\ i > 2 => rules["-6"] = 0
  /\ i > 3 => "-4" \notin local
  /\ i > 4 => rules["-4"] = 0

\* What the commands of Apply before command i have made.
Made(i) ==
  /\ table = IF i > 1 THEN routes ELSE Absent
  /\ rules["-4"] = IF i > 2 THEN 1 ELSE 0
  /\ "-4" \in local <=> i > 3
  /\ rules["-6"] = IF i > 4 THEN 1 ELSE 0
  /\ "-6" \notin local

Cleaning == pc \in {"clean", "rollback", "close"}

\* The inductive invariant: Apply starts from a kernel without rules because a cleanup that
\* reports no error has removed everything, and no step but Apply's adds a rule.
PolicyInv ==
  /\ TypeOK
  /\ OneRulePerFamily
  /\ Cleaning /\ ~ failed => Cleared(index)
  /\ pc = "setup" => Made(index)
  /\ PolicyInForce
  /\ CleanMeansNothing
-----------------------------------------------------------------------------
\* The commands of setup and of teardown, one by one.
LEMMA CommandsAre ==
  /\ Len(Setup) = 5 /\ Len(Teardown) = 5
  /\ Setup[1].object = "table" /\ Setup[1].family = "inet"
  /\ Setup[2].object = "rule" /\ Setup[2].family = "-4"
  /\ Setup[3].object = "route" /\ Setup[3].family = "-4"
  /\ Setup[4].object = "rule" /\ Setup[4].family = "-6"
  /\ Setup[5].object = "route" /\ Setup[5].family = "-6"
  /\ Teardown[1].object = "route" /\ Teardown[1].family = "-6"
  /\ Teardown[2].object = "rule" /\ Teardown[2].family = "-6"
  /\ Teardown[3].object = "route" /\ Teardown[3].family = "-4"
  /\ Teardown[4].object = "rule" /\ Teardown[4].family = "-4"
  /\ Teardown[5].object = "table" /\ Teardown[5].family = "inet"
  BY Zenon DEF Setup, Teardown, Command

\* What each command of cleanup removes.
LEMMA Removes ==
  ASSUME TypeOK, NEW i \in 1..5, Remove(Teardown[i])
  PROVE  /\ table' = IF i = 5 THEN Absent ELSE table
         /\ local' = local \ (IF i = 1 THEN {"-6"} ELSE IF i = 3 THEN {"-4"} ELSE {})
         /\ rules' \in [Families -> Nat]
         /\ rules'["-6"] = IF i = 2 /\ rules["-6"] > 0 THEN rules["-6"] - 1 ELSE rules["-6"]
         /\ rules'["-4"] = IF i = 4 /\ rules["-4"] > 0 THEN rules["-4"] - 1 ELSE rules["-4"]
<1> USE DEF Families
<1>1. rules \in [Families -> Nat] /\ local \subseteq Families
  BY Zenon DEF TypeOK
<1>2. CASE i = 1
  BY <1>1, <1>2, CommandsAre, ZenonT(60) DEF Remove, On
<1>3. CASE i = 2
  BY <1>1, <1>3, CommandsAre DEF Remove, On
<1>4. CASE i = 3
  BY <1>1, <1>4, CommandsAre, ZenonT(60) DEF Remove, On
<1>5. CASE i = 4
  BY <1>1, <1>5, CommandsAre DEF Remove, On
<1>6. CASE i = 5
  BY <1>1, <1>6, CommandsAre, ZenonT(60) DEF Remove, On
<1> QED
  BY <1>2, <1>3, <1>4, <1>5, <1>6

\* What each command of Apply adds.
LEMMA Adds ==
  ASSUME TypeOK, NEW i \in 1..5, Add(Setup[i])
  PROVE  /\ table' = IF i = 1 THEN routes ELSE table
         /\ local' = local \cup (IF i = 3 THEN {"-4"} ELSE IF i = 5 THEN {"-6"} ELSE {})
         /\ rules' \in [Families -> Nat]
         /\ rules'["-4"] = IF i = 2 THEN rules["-4"] + 1 ELSE rules["-4"]
         /\ rules'["-6"] = IF i = 4 THEN rules["-6"] + 1 ELSE rules["-6"]
<1> USE DEF Families
<1>1. rules \in [Families -> Nat] /\ local \subseteq Families
  BY Zenon DEF TypeOK
<1>2. CASE i = 1
  BY <1>1, <1>2, CommandsAre, ZenonT(60) DEF Add, On
<1>3. CASE i = 2
  BY <1>1, <1>3, CommandsAre DEF Add, On
<1>4. CASE i = 3
  BY <1>1, <1>4, CommandsAre, ZenonT(60) DEF Add, On
<1>5. CASE i = 4
  BY <1>1, <1>5, CommandsAre DEF Add, On
<1>6. CASE i = 5
  BY <1>1, <1>6, CommandsAre, ZenonT(60) DEF Add, On
<1> QED
  BY <1>2, <1>3, <1>4, <1>5, <1>6
-----------------------------------------------------------------------------
\* One command of a cleanup.  At the end of one without an error nothing is left.
LEMMA CleanupStep ==
  ASSUME PolicyInv, NEW p \in {"clean", "rollback", "close"}, NEW killable \in BOOLEAN,
         NEW good \in {"setup", "stopped"}, Cleanup(p, killable, good, "stopped")
  PROVE  PolicyInv'
<1> USE PolicyAssumption DEF Families
<1>1. /\ TypeOK /\ index \in 1..5 /\ Len(Teardown) = 5 /\ Len(Setup) = 5 /\ pc = p
      /\ rules["-4"] <= 1 /\ rules["-6"] <= 1
      /\ UNCHANGED <<routes, cancelled, restarts>>
  BY CommandsAre, Zenon DEF PolicyInv, TypeOK, OneRulePerFamily, Cleanup
<1>2. \/ Remove(Teardown[index]) /\ failed' = failed
      \/ UNCHANGED kernel /\ failed' = TRUE
      \/ Remove(Teardown[index]) /\ failed' = TRUE
  BY Zenon DEF Cleanup
<1>3. PICK i \in 1..5 : i = index
  BY <1>1, Zenon
<1>4. Remove(Teardown[index]) =>
        /\ table' = IF i = 5 THEN Absent ELSE table
        /\ local' = local \ (IF i = 1 THEN {"-6"} ELSE IF i = 3 THEN {"-4"} ELSE {})
        /\ rules' \in [Families -> Nat]
        /\ rules'["-6"] = IF i = 2 /\ rules["-6"] > 0 THEN rules["-6"] - 1 ELSE rules["-6"]
        /\ rules'["-4"] = IF i = 4 /\ rules["-4"] > 0 THEN rules["-4"] - 1 ELSE rules["-4"]
  BY <1>1, <1>3, Removes, Zenon
<1>5. /\ rules' \in [Families -> Nat] /\ local' \subseteq Families
      /\ table' \in RouteSets \cup {Absent}
      /\ rules'["-4"] <= 1 /\ rules'["-6"] <= 1
  <2>1. CASE Remove(Teardown[index])
    <3>1. local \subseteq Families /\ rules \in [Families -> Nat]
          /\ table \in RouteSets \cup {Absent}
      BY <1>1, Zenon DEF TypeOK
    <3>2. local' \subseteq Families
      BY <1>4, <2>1, <3>1, Zenon
    <3>3. table' \in RouteSets \cup {Absent}
      BY <1>4, <2>1, <3>1, Zenon
    <3>4. rules'["-4"] <= 1 /\ rules'["-6"] <= 1
      BY <1>1, <1>4, <2>1, <3>1
    <3> QED
      BY <1>4, <2>1, <3>2, <3>3, <3>4, Zenon
  <2>2. CASE UNCHANGED kernel
    BY <1>1, <2>2, Zenon DEF TypeOK, kernel
  <2> QED
    BY <1>2, <2>1, <2>2, Zenon
<1>6. ASSUME ~ failed' PROVE Cleared(i + 1)' /\ (i = 5 => table' = Absent)
  <2>1. Remove(Teardown[index]) /\ ~ failed
    BY <1>2, <1>6
  <2>2. Cleared(i)
    BY <1>1, <1>3, <2>1, Zenon DEF PolicyInv, Cleaning
  <2> QED
    BY <1>1, <1>4, <2>1, <2>2 DEF Cleared, TypeOK
<1>7. CASE i < 5
  <2>1. pc' = pc /\ index' = i + 1 /\ outcome' = outcome /\ failed' \in BOOLEAN
    BY <1>1, <1>2, <1>3, <1>7, Zenon DEF Cleanup, TypeOK
  <2>2. TypeOK'
    BY <1>1, <1>5, <1>7, <2>1 DEF TypeOK
  <2>3. (Cleaning /\ ~ failed => Cleared(index))'
    BY <1>6, <2>1, Zenon DEF Cleared
  <2> QED
    BY <1>1, <1>5, <2>1, <2>2, <2>3, Zenon
    DEF PolicyInv, OneRulePerFamily, PolicyInForce, CleanMeansNothing
<1>8. CASE i = 5
  <2>1. /\ pc' = (IF failed' THEN "stopped" ELSE good) /\ index' = 1 /\ failed' \in BOOLEAN
        /\ outcome' = IF failed' THEN "unclean"
                      ELSE IF good = "setup" THEN outcome ELSE "clean"
    <3>1. failed' \in BOOLEAN
      BY <1>1, <1>2, Zenon DEF TypeOK
    <3>2. ~ (index < Len(Teardown))
      BY <1>1, <1>3, <1>8
    <3> QED
      BY <3>1, <3>2, Zenon DEF Cleanup, Goto
  <2>2. TypeOK'
    BY <1>1, <1>5, <2>1 DEF TypeOK
  <2>3. ASSUME ~ failed' PROVE NothingLeft' /\ Made(1)'
    <3>1. table' = Absent /\ "-6" \notin local' /\ "-4" \notin local'
          /\ rules'["-6"] = 0 /\ rules'["-4"] = 0
      BY <1>6, <1>8, <2>3 DEF Cleared
    <3> QED
      BY <1>5, <3>1 DEF NothingLeft, Made
  <2>4. pc' \in {"stopped", "setup"} /\ (pc' = "setup" => ~ failed')
        /\ (pc' = "stopped" /\ outcome' = "clean" => ~ failed')
    BY <2>1, Zenon
  <2> QED
    BY <1>5, <2>1, <2>2, <2>3, <2>4, Zenon
    DEF PolicyInv, OneRulePerFamily, Cleaning, PolicyInForce, CleanMeansNothing, Made
<1> QED
  BY <1>7, <1>8

\* One command of Apply.
LEMMA ApplyStep == PolicyInv /\ Apply => PolicyInv'
<1> SUFFICES ASSUME PolicyInv, Apply PROVE PolicyInv'
  BY Zenon
<1> USE PolicyAssumption DEF Families
<1>1. /\ TypeOK /\ index \in 1..5 /\ Len(Setup) = 5 /\ pc = "setup"
      /\ rules \in [Families -> Nat] /\ local \subseteq Families
      /\ table \in RouteSets \cup {Absent} /\ routes \in RouteSets
      /\ UNCHANGED <<routes, cancelled, restarts>>
  BY CommandsAre, Zenon DEF PolicyInv, TypeOK, Apply
<1>2. PICK i \in 1..5 : i = index
  BY <1>1, Zenon
<1>3. Made(i)
  BY <1>1, <1>2, Zenon DEF PolicyInv
<1>4. Add(Setup[index]) =>
        /\ table' = IF i = 1 THEN routes ELSE table
        /\ local' = local \cup (IF i = 3 THEN {"-4"} ELSE IF i = 5 THEN {"-6"} ELSE {})
        /\ rules' \in [Families -> Nat]
        /\ rules'["-4"] = IF i = 2 THEN rules["-4"] + 1 ELSE rules["-4"]
        /\ rules'["-6"] = IF i = 4 THEN rules["-6"] + 1 ELSE rules["-6"]
  BY <1>1, <1>2, Adds, Zenon
<1>5. /\ rules' \in [Families -> Nat] /\ local' \subseteq Families
      /\ table' \in RouteSets \cup {Absent}
      /\ rules'["-4"] <= 1 /\ rules'["-6"] <= 1
  <2>1. CASE Add(Setup[index])
    <3>1. local' \subseteq Families /\ table' \in RouteSets \cup {Absent}
      BY <1>1, <1>4, <2>1, Zenon
    <3>2. rules'["-4"] <= 1 /\ rules'["-6"] <= 1
      BY <1>3, <1>4, <2>1 DEF Made
    <3> QED
      BY <1>4, <2>1, <3>1, <3>2, Zenon
  <2>2. CASE UNCHANGED kernel
    BY <1>1, <1>3, <2>2 DEF Made, kernel
  <2> QED
    BY <2>1, <2>2, Zenon DEF Apply
<1>6. CASE pc' = "rollback"
  <2>1. index' = 1 /\ failed' \in BOOLEAN /\ outcome' = outcome
    BY <1>1, <1>6, Zenon DEF Apply, Goto
  <2> QED
    <3>1. TypeOK'
      BY <1>1, <1>5, <1>6, <2>1 DEF TypeOK
    <3>2. Cleared(index)'
      BY <2>1 DEF Cleared
    <3> QED
      BY <1>5, <1>6, <3>1, <3>2, Zenon
      DEF PolicyInv, OneRulePerFamily, PolicyInForce, CleanMeansNothing
<1>7. CASE pc' # "rollback" /\ i < 5
  <2>1. /\ pc' = "setup" /\ index' = i + 1 /\ outcome' = outcome /\ failed' = failed
        /\ Add(Setup[index])
    BY <1>1, <1>2, <1>7, Zenon DEF Apply, Goto
  <2>2. Made(i + 1)'
    BY <1>1, <1>3, <1>4, <1>7, <2>1 DEF Made
  <2>3. Made(index)'
    BY <2>1, <2>2, Zenon DEF Made
  <2> QED
    BY <1>1, <1>5, <1>7, <2>1, <2>3
    DEF PolicyInv, TypeOK, OneRulePerFamily, Cleaning, PolicyInForce, CleanMeansNothing
<1>8. CASE pc' # "rollback" /\ i = 5
  <2>1. /\ pc' = "running" /\ index' = 1 /\ outcome' = "ok" /\ failed' = failed
        /\ Add(Setup[index])
    BY <1>1, <1>2, <1>8 DEF Apply, Goto
  <2>2. /\ table' = routes' /\ table' # Absent /\ local' = Families
        /\ rules'["-4"] = 1 /\ rules'["-6"] = 1
    <3>1. table' = routes' /\ table' # Absent
      BY <1>1, <1>3, <1>4, <1>8, <2>1 DEF Made
    <3>2. rules'["-4"] = 1 /\ rules'["-6"] = 1
      BY <1>3, <1>4, <1>8, <2>1 DEF Made
    <3>3. "-4" \in local /\ local' = local \cup {"-6"}
      BY <1>3, <1>4, <1>8, <2>1 DEF Made
    <3> QED
      BY <1>1, <3>1, <3>2, <3>3, Zenon
  <2> QED
    BY <1>1, <1>5, <2>1, <2>2
    DEF PolicyInv, TypeOK, OneRulePerFamily, Cleaning, PolicyInForce, CleanMeansNothing
<1> QED
  BY <1>6, <1>7, <1>8

\* The invariant holds before the first command.
LEMMA PolicyInit == Init => PolicyInv
<1> SUFFICES ASSUME Init PROVE PolicyInv
  BY Zenon
<1>1. TypeOK
  <2>1. failed \in BOOLEAN /\ cancelled \in BOOLEAN
    BY Zenon DEF Init
  <2>2. index \in 1..Len(Setup) /\ restarts \in 0..MaxRestarts
    BY PolicyAssumption, CommandsAre DEF Init
  <2>3. rules \in [Families -> Nat] /\ local \subseteq Families
    BY Zenon DEF Init
  <2> QED
    BY <2>1, <2>2, <2>3, Zenon DEF Init, TypeOK
<1>2. OneRulePerFamily
  BY DEF Init, OneRulePerFamily
<1> QED
  BY <1>1, <1>2, Zenon DEF Init, PolicyInv, Cleaning, PolicyInForce, CleanMeansNothing

\* Every step of the policy keeps the invariant.
LEMMA PolicyStep == PolicyInv /\ [Next]_vars => PolicyInv'
<1> SUFFICES ASSUME PolicyInv, [Next]_vars PROVE PolicyInv'
  BY Zenon
<1> USE PolicyAssumption, CommandsAre
<1>1. CASE ApplyStarts
  <2>1. pc' = "clean" /\ index' = 1 /\ failed' \in BOOLEAN
        /\ UNCHANGED <<table, rules, local, routes, outcome, cancelled, restarts>>
    BY <1>1, Zenon DEF ApplyStarts, Goto, kernel
  <2>2. TypeOK'
    BY <2>1 DEF PolicyInv, TypeOK
  <2>3. Cleared(index)'
    BY <2>1 DEF Cleared
  <2> QED
    BY <2>1, <2>2, <2>3, Zenon DEF PolicyInv, OneRulePerFamily, PolicyInForce, CleanMeansNothing
<1>2. CASE ApplyCleanup
  <2>1. cancelled \in BOOLEAN
    BY Zenon DEF PolicyInv, TypeOK
  <2> QED
    BY <1>2, <2>1, CleanupStep, Zenon DEF ApplyCleanup
<1>3. CASE Apply
  BY <1>3, ApplyStep, Zenon
<1>4. CASE rollback
  BY <1>4, CleanupStep, Zenon DEF rollback
<1>5. CASE CloseStarts
  <2>1. pc' = "close" /\ index' = 1 /\ failed' \in BOOLEAN
        /\ UNCHANGED <<table, rules, local, routes, outcome, cancelled, restarts>>
    BY <1>5, Zenon DEF CloseStarts, Goto, kernel
  <2>2. TypeOK'
    BY <2>1 DEF PolicyInv, TypeOK
  <2>3. Cleared(index)'
    BY <2>1 DEF Cleared
  <2> QED
    BY <2>1, <2>2, <2>3, Zenon DEF PolicyInv, OneRulePerFamily, PolicyInForce, CleanMeansNothing
<1>6. CASE Close
  BY <1>6, CleanupStep, Zenon DEF Close
<1>7. ASSUME NEW r \in RouteSets, Replace(r) PROVE PolicyInv'
  <2>1. CASE pc = "running"
    BY <1>7, <2>1 DEF Replace, PolicyInv, TypeOK, OneRulePerFamily, Cleaning, PolicyInForce,
                      CleanMeansNothing
  <2>2. CASE pc = "stopped"
    BY <1>7, <2>2, ZenonT(60)
       DEF Replace, PolicyInv, TypeOK, OneRulePerFamily, Cleaning, PolicyInForce,
                      CleanMeansNothing, NothingLeft
  <2> QED
    BY <1>7, <2>1, <2>2, Zenon DEF Replace
<1>8. CASE Cancel
  BY <1>8 DEF Cancel, kernel, PolicyInv, TypeOK, OneRulePerFamily, Cleaning, Cleared, Made,
              PolicyInForce, CleanMeansNothing, NothingLeft
<1>9. CASE Restart
  <2>1. pc' = "new" /\ index' = 1 /\ failed' \in BOOLEAN /\ outcome' = "none"
        /\ cancelled' \in BOOLEAN /\ routes' \in RouteSets /\ UNCHANGED <<table, rules, local>>
        /\ restarts' = restarts + 1 /\ restarts < MaxRestarts
    BY <1>9, Zenon DEF Restart, Goto, kernel
  <2>2. TypeOK'
    BY <2>1 DEF PolicyInv, TypeOK
  <2> QED
    BY <2>1, <2>2, Zenon
    DEF PolicyInv, OneRulePerFamily, Cleaning, PolicyInForce, CleanMeansNothing
<1>10. CASE UNCHANGED vars
  BY <1>10 DEF vars, kernel, PolicyInv, TypeOK, OneRulePerFamily, Cleaning, Cleared, Made,
               PolicyInForce, CleanMeansNothing, NothingLeft
<1> QED
  BY <1>1, <1>2, <1>3, <1>4, <1>5, <1>6, <1>7, <1>8, <1>9, <1>10, Zenon DEF Next
-----------------------------------------------------------------------------
(* Run on top of the policy.                                               *)

\* Every step of Run is one of the policy's or leaves it alone.
LEMMA RunTakesPolicySteps == [RunNext]_runVars => [Next]_vars
<1>1. CancelGroup => [Next]_vars
  BY Zenon DEF CancelGroup, Cancel, Next, vars, kernel
<1>2. Main => [Next]_vars
  BY Zenon DEF Main, startTailscale, waitForNetwork, ApplyPolicy, Listen, Serve, Waited,
         CloseListeners, ClosePolicy, Return, Next
<1>3. Reconciler => [Next]_vars
  BY Zenon DEF Reconciler, Next
<1>4. \A m \in Members : AcceptFails(m) \/ AcceptEnds(m) => [Next]_vars
  BY <1>1, Zenon DEF AcceptFails, AcceptEnds, EndsWith
<1>5. Watcher \/ Shutdown \/ Stop \/ TailscaleDies \/ ProcessRestarts => [Next]_vars
  BY <1>1, Zenon DEF Watcher, Shutdown, EndsWith, Stop, TailscaleDies, ProcessRestarts, Next
<1> QED
  BY <1>2, <1>3, <1>4, <1>5, Zenon DEF RunNext, runVars

\* The invariant holds throughout a run.
LEMMA PolicyInvariant == RunSpec => []PolicyInv
<1>1. RunInit => PolicyInv
  BY PolicyInit, Zenon DEF RunInit
<1>2. PolicyInv /\ [RunNext]_runVars => PolicyInv'
  BY PolicyStep, RunTakesPolicySteps, Zenon
<1> QED
  BY <1>1, <1>2, PTL DEF RunSpec

\* No crash, failed rollback or failed Close of any number of edge processes lets a second
\* fwmark rule come into being (Policy.Apply stops when its cleanup reports an error).
THEOREM AtMostOneRule == RunSpec => []OneRulePerFamily
<1>1. PolicyInv => OneRulePerFamily
  BY Zenon DEF PolicyInv
<1> QED
  BY <1>1, PolicyInvariant, PTL
-----------------------------------------------------------------------------
\* How far the policy is at each stage of Run, and what Apply and Close have reported.
StageOK ==
  /\ stage \in {"boot", "wait", "apply", "listen", "serve", "unwind", "returned"}
  /\ stage \in {"boot", "wait"} => pc = "new"
  /\ stage = "apply" => pc \in {"new", "clean", "setup", "rollback"}
  /\ stage \in {"listen", "serve"} => pc = "running"
  /\ stage = "unwind" => pc \in {"new", "stopped", "running", "close"}
  /\ stage = "returned" => pc \in {"new", "stopped"}
  /\ pc \in {"new", "clean", "setup", "rollback"} => outcome = "none"
  /\ pc \in {"running", "close"} => outcome = "ok"
  /\ pc = "stopped" => outcome \in {"unclean", "clean"}

\* What the stages say about the rest of the process.
ProcessOK ==
  /\ tailscale = "up" => managed
  /\ stage \in {"boot", "returned"} => open = {} /\ tailscale # "up"
  /\ members # {} => stage = "serve"
  /\ healthy => stage \in {"serve", "unwind"}
  /\ stage = "serve" /\ ~ cancelled => open = Listeners /\ members = Members
  /\ stage = "unwind" /\ healthy => cancelled

RunInv == PolicyInv /\ StageOK /\ ProcessOK

\* What the steps of the policy do to pc and outcome.
LEMMA PolicyMoves ==
  ASSUME PolicyInv, StageOK
  PROVE  /\ ApplyStarts => pc' = "clean" /\ outcome' = outcome
         /\ ApplyCleanup => \/ pc' \in {"clean", "setup"} /\ outcome' = outcome
                            \/ pc' = "stopped" /\ outcome' = "unclean"
         /\ Apply => \/ pc' \in {"setup", "rollback"} /\ outcome' = outcome
                     \/ pc' = "running" /\ outcome' = "ok"
         /\ rollback => \/ pc' = "rollback" /\ outcome' = outcome
                        \/ pc' = "stopped" /\ outcome' \in {"unclean", "clean"}
         /\ CloseStarts => pc = "running" /\ pc' = "close" /\ outcome' = outcome
         /\ Close => pc = "close"
         /\ Close => \/ pc' = "close" /\ outcome' = outcome
                     \/ pc' = "stopped" /\ outcome' \in {"unclean", "clean"}
<1>1. ApplyStarts => pc' = "clean" /\ outcome' = outcome
  BY Zenon DEF ApplyStarts, Goto
<1>2. ApplyCleanup => \/ pc' \in {"clean", "setup"} /\ outcome' = outcome
                      \/ pc' = "stopped" /\ outcome' = "unclean"
  BY Zenon DEF ApplyCleanup, Cleanup, Goto
<1>3. Apply => \/ pc' \in {"setup", "rollback"} /\ outcome' = outcome
               \/ pc' = "running" /\ outcome' = "ok"
  BY Zenon DEF Apply, Goto
<1>4. rollback => \/ pc' = "rollback" /\ outcome' = outcome
                  \/ pc' = "stopped" /\ outcome' \in {"unclean", "clean"}
  BY Zenon DEF rollback, Cleanup, Goto
<1>5. CloseStarts => pc = "running" /\ pc' = "close" /\ outcome' = outcome
  BY Zenon DEF CloseStarts, Goto
<1>6. Close => pc = "close"
  BY Zenon DEF Close, Cleanup
<1>7. Close => \/ pc' = "close" /\ outcome' = outcome
               \/ pc' = "stopped" /\ outcome' \in {"unclean", "clean"}
  BY Zenon DEF Close, Cleanup, Goto
<1> QED
  BY <1>1, <1>2, <1>3, <1>4, <1>5, <1>6, <1>7, Zenon

\* The steps of Run itself.
LEMMA MainKeeps == RunInv /\ Main => StageOK' /\ ProcessOK'
<1> SUFFICES ASSUME RunInv, Main PROVE StageOK' /\ ProcessOK'
  BY Zenon
<1> USE DEF RunInv
<1>1. CASE startTailscale
  BY <1>1, Zenon DEF startTailscale, At, Fails, StageOK, ProcessOK, vars, kernel
<1>2. CASE waitForNetwork
  BY <1>2, Zenon DEF waitForNetwork, At, Fails, StageOK, ProcessOK, vars, kernel
<1>3. CASE ApplyPolicy
  <2>1. /\ stage = "apply" /\ pc \in {"new", "clean", "setup", "rollback"} /\ outcome = "none"
        /\ UNCHANGED <<managed, dynamic, told, tailscale, open, members, healthy>>
    BY <1>3, Zenon DEF ApplyPolicy, At, StageOK
  <2>2. \/ pc' \in {"clean", "setup", "rollback"} /\ outcome' = "none" /\ stage' = "apply"
        \/ pc' = "running" /\ outcome' = "ok" /\ stage' = "listen"
        \/ pc' = "stopped" /\ outcome' \in {"unclean", "clean"} /\ stage' = "unwind"
    BY <1>3, <2>1, PolicyMoves, Zenon DEF ApplyPolicy, Fails
  <2> QED
    BY <2>1, <2>2, Zenon DEF StageOK, ProcessOK
<1>4. CASE Listen
  BY <1>4, Zenon DEF Listen, At, Fails, StageOK, ProcessOK, vars, kernel
<1>5. CASE Serve
  BY <1>5 DEF Serve, At, StageOK, ProcessOK, vars, kernel, Listeners, Listening, Members
<1>6. CASE Waited
  <2>1. Members # {}
    BY Zenon DEF Members
  <2> QED
    BY <1>6, <2>1, Zenon DEF Waited, At, StageOK, ProcessOK, vars, kernel
<1>7. CASE CloseListeners
  BY <1>7, Zenon DEF CloseListeners, At, StageOK, ProcessOK, vars, kernel
<1>8. CASE ClosePolicy
  <2>1. /\ stage = "unwind"
        /\ UNCHANGED <<stage, managed, dynamic, told, tailscale, open, members, healthy>>
    BY <1>8, Zenon DEF ClosePolicy, At
  <2>2. cancelled' = cancelled
    BY <1>8, Zenon DEF ClosePolicy, CloseStarts, Close, Cleanup
  <2>3. \/ pc' = "close" /\ outcome' = "ok"
        \/ pc' = "stopped" /\ outcome' \in {"unclean", "clean"}
    BY <1>8, PolicyMoves, Zenon DEF ClosePolicy, StageOK
  <2> QED
    BY <2>1, <2>2, <2>3, Zenon DEF StageOK, ProcessOK
<1>9. CASE Return
  BY <1>9, Zenon DEF Return, At, StageOK, ProcessOK, vars, kernel
<1> QED
  BY <1>1, <1>2, <1>3, <1>4, <1>5, <1>6, <1>7, <1>8, <1>9, Zenon DEF Main

\* The steps of the members and of the world.
LEMMA OthersKeep ==
  ASSUME RunInv,
         \/ \E m \in Members : AcceptFails(m) \/ AcceptEnds(m)
         \/ Reconciler \/ Watcher \/ Shutdown \/ Stop \/ TailscaleDies \/ ProcessRestarts
  PROVE  StageOK' /\ ProcessOK'
<1> USE DEF RunInv
<1>1. ASSUME NEW m \in Members, AcceptFails(m) PROVE StageOK' /\ ProcessOK'
  BY <1>1, Zenon DEF AcceptFails, EndsWith, Leaves, CancelGroup, At, StageOK, ProcessOK
<1>2. ASSUME NEW m \in Members, AcceptEnds(m) PROVE StageOK' /\ ProcessOK'
  BY <1>2, Zenon DEF AcceptEnds, Leaves, At, StageOK, ProcessOK, vars, kernel
<1>3. CASE Reconciler
  <2>1. stage = "serve" /\ UNCHANGED <<stage, managed, dynamic, tailscale, open, healthy>>
        /\ UNCHANGED <<pc, outcome, cancelled>> /\ (~ cancelled => members' = members)
    BY <1>3, Zenon DEF Reconciler, At, Replace, Leaves, vars
  <2> QED
    BY <2>1 DEF StageOK, ProcessOK, Listeners, Listening, Members
<1>4. CASE Watcher
  BY <1>4 DEF Watcher, EndsWith, Leaves, CancelGroup, At, StageOK, ProcessOK, vars, kernel
<1>5. CASE Shutdown
  BY <1>5, Zenon DEF Shutdown, Leaves, At, StageOK, ProcessOK, vars, kernel
<1>6. CASE Stop
  BY <1>6, ZenonT(60) DEF Stop, CancelGroup, StageOK, ProcessOK
<1>7. CASE TailscaleDies
  BY <1>7 DEF TailscaleDies, StageOK, ProcessOK, vars, kernel, Listeners, Listening, Members
<1>8. CASE ProcessRestarts
  BY <1>8, Zenon DEF ProcessRestarts, Restart, Goto, StageOK, ProcessOK
<1> QED
  BY <1>1, <1>2, <1>3, <1>4, <1>5, <1>6, <1>7, <1>8, Zenon

\* The stages of the run and the process agree in every reachable state.
LEMMA RunInvariant == RunSpec => []RunInv
<1>1. RunInit => RunInv
  BY PolicyInit, Zenon DEF RunInit, Init, RunInv, StageOK, ProcessOK
<1>2. RunInv /\ [RunNext]_runVars => RunInv'
  <2> SUFFICES ASSUME RunInv, [RunNext]_runVars PROVE RunInv'
    BY Zenon
  <2>1. PolicyInv'
    BY PolicyStep, RunTakesPolicySteps, Zenon DEF RunInv
  <2>2. CASE RunNext
    BY <2>1, <2>2, MainKeeps, OthersKeep, ZenonT(60) DEF RunNext, RunInv
  <2>3. CASE UNCHANGED runVars
    BY <2>1, <2>3 DEF RunInv, runVars, vars, kernel, process, StageOK, ProcessOK, Listeners,
                      Listening, Members
  <2> QED
    BY <2>2, <2>3, Zenon
<1> QED
  BY <1>1, <1>2, PTL DEF RunSpec

\* A healthy edge that has not begun to stop has its whole policy in force, every listener
\* open and every member of the group running (Server.Run up to SetHealthy(true), the error
\* group, and Policy.Replace).
THEOREM HealthyServes == RunSpec => []HealthyMeansServing
<1>1. RunInv => HealthyMeansServing
  BY Zenon DEF RunInv, PolicyInv, PolicyInForce, StageOK, ProcessOK, HealthyMeansServing
<1> QED
  BY <1>1, RunInvariant, PTL

\* Whatever point Run returns from, what it and the processes before it have set up is gone,
\* or the cleanup has reported an error, or Run never came to Policy.Apply (the deferred calls
\* of Server.Run, Policy.Close).
THEOREM ReturnedIsGone == RunSpec => []ReturnedMeansGone
<1>1. RunInv => ReturnedMeansGone
  BY Zenon DEF RunInv, PolicyInv, CleanMeansNothing, StageOK, ProcessOK, ReturnedMeansGone
<1> QED
  BY <1>1, RunInvariant, PTL

-----------------------------------------------------------------------------
(* Resolution: where names lead, what answers hold, and agreed routes.     *)

-----------------------------------------------------------------------------
(* Where a name and the addresses in its answer lead.                      *)

Others(e, a) == {f \in Envs \ {e} : alias[f] = a}

\* The addresses of a rewritten record lead to those of the original in environment e.
Leads(e, record, original) ==
  \A x \in record.addresses :
    /\ ~ Covers(Real, x)
    /\ \A f \in Envs : Covers(Virtual[f], x) =>
         f = e /\ translateAddress(x, Virtual[f], Real) \in original.addresses

AliasOK ==
  /\ \A e, f \in Envs : alias[e] = alias[f] /\ alias[e] # Nothing => e = f
  /\ \A a \in Aliases : moved[a] <= time

LookupOK ==
  lookup # Nothing =>
    /\ lookup.env \in Envs /\ lookup.alias \in Aliases
    /\ lookup.asked \in Nat /\ lookup.asked <= time
    /\ Others(lookup.env, lookup.alias) # {} => lookup.asked <= moved[lookup.alias]
    /\ lookup.at = "edge" => /\ lookup.record.ttl \in 0..MaxTTL
                             /\ Leads(lookup.env, lookup.record, lookup.original)

AnswerOK ==
  answer # Nothing =>
    /\ answer.env \in Envs /\ answer.alias \in Aliases
    /\ answer.expires \in Nat /\ answer.expires <= time + MaxTTL
    /\ Leads(answer.env, answer.record, answer.original)
    /\ Others(answer.env, answer.alias) # {} =>
         answer.expires <= moved[answer.alias] + MaxTTL + Patience

ResolutionInv == ResolutionTypeOK /\ AliasOK /\ LookupOK /\ AnswerOK
-----------------------------------------------------------------------------
\* The virtual prefixes and the real one are IPv6 prefixes of one length.
LEMMA Lengths ==
  \A e \in Envs : /\ Virtual[e] \in IPv6Prefixes /\ Real \in IPv6Prefixes
                  /\ Len(Virtual[e].bits) = Len(Real.bits)
BY PrefixAssumption, Zenon

\* Of the prefixes of one length, an address lies in the one it was made from.
LEMMA OnePrefix ==
  ASSUME NEW P \in IPv6Prefixes, NEW Q \in IPv6Prefixes, Len(P.bits) = Len(Q.bits),
         NEW h \in Seq({0, 1})
  PROVE  Covers(P, Address(Q, h)) <=> P = Q
<1> DEFINE F == P.bits
<1> DEFINE E == Q.bits
<1>1. /\ F \in Seq({0, 1}) /\ E \in Seq({0, 1}) /\ Len(F) = Len(E)
      /\ P.family = 6 /\ Q.family = 6
  BY Zenon DEF IPv6Prefixes
<1>2. Address(Q, h).bits = E \o h /\ Address(Q, h).family = 6
  BY <1>1, Zenon DEF Address, IPv6Prefixes
<1>3. ASSUME Covers(P, Address(Q, h))
      PROVE  F = E
  <2>1. SubSeq(F, 1, Len(F)) = SubSeq(E \o h, 1, Len(F))
    BY <1>2, <1>3 DEF Covers
  <2> HIDE DEF F, E
  <2>2. \A i \in 1..Len(F) : SubSeq(F, 1, Len(F))[i] = F[i]
    BY <1>1
  <2>3. \A i \in 1..Len(F) : SubSeq(E \o h, 1, Len(F))[i] = E[i]
    BY <1>1
  <2> QED
    BY <1>1, <2>1, <2>2, <2>3, SMTT(60)
<1>4. ASSUME F = E
      PROVE  Covers(P, Address(Q, h))
  <2>1. Len(F) <= Len(E \o h) /\ SubSeq(F, 1, Len(F)) = SubSeq(E \o h, 1, Len(F))
    <3> HIDE DEF F, E
    <3> QED
      BY <1>1, <1>4
  <2> QED
    BY <1>1, <1>2, <2>1 DEF Covers
<1>5. F = E <=> P = Q
  BY <1>1 DEF IPv6Prefixes
<1> QED
  BY <1>3, <1>4, <1>5, Zenon

\* The resolver's address in the virtual prefix of an environment lies in no other one's.
LEMMA OneOwner ==
  ASSUME NEW e \in Envs, NEW f \in Envs, NEW h \in Hosts, Covers(Virtual[f], Address(Virtual[e], h))
  PROVE  f = e
<1>1. h \in Seq({0, 1}) /\ Len(Virtual[f].bits) = Len(Virtual[e].bits)
  BY PrefixAssumption, Zenon
<1>2. Virtual[f] = Virtual[e]
  BY <1>1, OnePrefix, Lengths, Zenon
<1> QED
  BY <1>2, PrefixAssumption, Zenon

\* translateAddress replaces the prefix and keeps the host.
LEMMA Translated ==
  ASSUME NEW P \in IPv6Prefixes, NEW Q \in IPv6Prefixes, Len(P.bits) = Len(Q.bits),
         NEW h \in Seq({0, 1})
  PROVE  translateAddress(Address(P, h), P, Q) = Address(Q, h)
<1> DEFINE F == P.bits
<1>1. F \in Seq({0, 1}) /\ Q.bits \in Seq({0, 1}) /\ P.family = 6 /\ Q.family = 6
  BY Zenon DEF IPv6Prefixes
<1>2. Address(P, h) = [family |-> 6, bits |-> F \o h] /\ Address(Q, h) = [family |-> 6, bits |-> Q.bits \o h]
  BY <1>1, Zenon DEF Address
<1>3. SubSeq(F \o h, Len(F) + 1, Len(F \o h)) = h
  <2> HIDE DEF F
  <2> DEFINE T == SubSeq(F \o h, Len(F) + 1, Len(F \o h))
  <2>1. T \in Seq({0, 1}) /\ Len(T) = Len(h)
    BY <1>1
  <2>2. \A i \in 1..Len(h) : T[i] = h[i]
    BY <1>1
  <2> HIDE DEF T
  <2>3. T = h
    BY <2>1, <2>2
  <2> QED
    BY <2>3, Zenon DEF T
<1>4. Address(P, h).bits = F \o h /\ Address(P, h).family = 6
  BY <1>2, SMTT(60)
<1>5. translateAddress(Address(P, h), P, Q) =
        [family |-> 6, bits |-> Q.bits \o SubSeq(F \o h, Len(F) + 1, Len(F \o h))]
  BY <1>4, Zenon DEF translateAddress
<1> QED
  BY <1>2, <1>3, <1>5, Zenon

\* A route leads to an environment whose virtual prefix holds the destination.
LEMMA RouteOwner ==
  ASSUME NEW destination, route(destination) # NoRoute
  PROVE  /\ route(destination).env \in Envs /\ session[route(destination).env] # Nothing
         /\ Covers(Virtual[route(destination).env], destination)
         /\ route(destination).address =
              translateAddress(destination, Virtual[route(destination).env], Real)
<1> DEFINE owners == {e \in Envs : entries[e] # Nothing /\ Covers(Virtual[e], destination)}
<1> DEFINE owner == CHOOSE f \in owners : TRUE
<1>1. owners # {}
  BY Zenon DEF route
<1>2. owner \in owners
  BY <1>1, Zenon
<1>3. /\ session[owner] # Nothing
      /\ route(destination) =
           [env |-> owner, address |-> translateAddress(destination, Virtual[owner], Real)]
  BY <1>1, Zenon DEF route
<1> QED
  BY <1>2, <1>3

\* rewriteRecords caps the time to live of whatever a resolver answers.
LEMMA Capped ==
  ASSUME NEW name, NEW record \in Records(name), NEW e, NEW suffix
  PROVE  rewriteRecords(e, suffix, record).ttl \in 0..MaxTTL
<1>1. /\ "ttl" \in DOMAIN record /\ record.ttl \in Nat
  BY ResolutionAssumption, Zenon DEF Records
<1>2. /\ DOMAIN rewriteRecord(e, record) = DOMAIN record
      /\ rewriteRecord(e, record).ttl = record.ttl
  BY <1>1, Zenon DEF rewriteRecord, rewriteSVCBValues
<1> QED
  BY <1>1, <1>2, ResolutionAssumption DEF rewriteRecords

\* Each address of an answer is rewritten to one that leads back to it, or left alone.
LEMMA LeadsBack ==
  ASSUME NEW e \in Envs, NEW y, y = Public \/ \E h \in Hosts : y = Address(Real, h)
  PROVE  LET x == ToVirtual(e, y) IN
         /\ ~ Covers(Real, x)
         /\ \A f \in Envs : Covers(Virtual[f], x) =>
              f = e /\ translateAddress(x, Virtual[f], Real) = y
<1>1. CASE y = Public
  BY <1>1, PrefixAssumption, Zenon DEF ToVirtual
<1>2. ASSUME NEW h \in Hosts, y = Address(Real, h)
      PROVE  /\ ToVirtual(e, y) = Address(Virtual[e], h)
             /\ ~ Covers(Real, Address(Virtual[e], h))
             /\ \A f \in Envs : Covers(Virtual[f], Address(Virtual[e], h)) => f = e
             /\ translateAddress(Address(Virtual[e], h), Virtual[e], Real) = y
  <2>1. h \in Seq({0, 1}) /\ Virtual[e] # Real
    BY PrefixAssumption, Zenon
  <2>2. Covers(Real, y) /\ translateAddress(y, Real, Virtual[e]) = Address(Virtual[e], h)
    BY <1>2, <2>1, Lengths, OnePrefix, Translated
  <2>3. ~ Covers(Real, Address(Virtual[e], h))
    BY <2>1, Lengths, OnePrefix, Zenon
  <2>4. translateAddress(Address(Virtual[e], h), Virtual[e], Real) = y
    BY <1>2, <2>1, Lengths, Translated, Zenon
  <2> QED
    BY <2>2, <2>3, <2>4, OneOwner, Zenon DEF ToVirtual
<1> QED
  BY <1>1, <1>2, Zenon

\* So does a rewritten record.
LEMMA RecordLeadsBack ==
  ASSUME NEW name, NEW record \in Records(name), NEW e \in Envs, NEW suffix
  PROVE  Leads(e, rewriteRecords(e, suffix, record), record)
<1>1. /\ "addresses" \in DOMAIN record
      /\ \A y \in record.addresses : y = Public \/ \E h \in Hosts : y = Address(Real, h)
  BY DEF Records, RealAddresses
<1>2. /\ "addresses" \in DOMAIN rewriteRecord(e, record)
      /\ rewriteRecords(e, suffix, record).addresses = rewriteRecord(e, record).addresses
  BY <1>1, Zenon DEF rewriteRecords, rewriteRecord, rewriteSVCBValues
<1>3. \A x \in rewriteRecord(e, record).addresses :
        \E y \in record.addresses : x = ToVirtual(e, y)
  BY <1>1, Zenon DEF rewriteRecord, rewriteSVCBValues
<1> QED
  BY <1>1, <1>2, <1>3, LeadsBack DEF Leads
-----------------------------------------------------------------------------
\* The empty registry knows no alias, and nothing is under way.
LEMMA InitResolves == ResolutionInit => ResolutionInv
BY ResolutionAssumption
   DEF ResolutionInit, ResolutionInv, ResolutionTypeOK, AliasOK, LookupOK, AnswerOK

\* Giving an alias to an environment starts the clock of what others got under it.
LEMMA RegisterKeeps ==
  ASSUME ResolutionInv, NEW e \in Envs, NEW a \in Aliases, Register(e, a)
  PROVE  ResolutionInv'
<1> USE DEF ResolutionInv
<1>1. /\ time' = time /\ registry' = registry /\ entries' = entries
      /\ lookup' = lookup /\ answer' = answer /\ live' = live \cup {e}
      /\ alias' = [alias EXCEPT ![e] = a]
      /\ moved' = [moved EXCEPT ![a] = IF alias[e] = a THEN @ ELSE time]
      /\ \A f \in Envs \ {e} : alias[f] # a
  BY Zenon DEF Register
<1>2. ResolutionTypeOK'
  BY <1>1, ResolutionAssumption DEF ResolutionTypeOK
<1>3. AliasOK'
  BY <1>1 DEF ResolutionTypeOK, AliasOK
<1>4. ASSUME NEW b \in Aliases, NEW f \in Envs, NEW t \in Nat, t <= time,
             Others(f, b) # {} => t <= moved[b], Others(f, b)' # {}
      PROVE  t <= moved'[b]
  BY <1>1, <1>4, Zenon DEF ResolutionTypeOK, AliasOK, Others
<1>5. LookupOK'
  BY <1>1, <1>4, Zenon DEF LookupOK
<1>6. ASSUME NEW b \in Aliases, NEW f \in Envs, NEW t \in Nat, t <= time + MaxTTL,
             Others(f, b) # {} => t <= moved[b] + MaxTTL + Patience, Others(f, b)' # {}
      PROVE  t <= moved'[b] + MaxTTL + Patience
  BY <1>1, <1>6, ResolutionAssumption DEF ResolutionTypeOK, AliasOK, Others
<1>7. AnswerOK'
  BY <1>1, <1>6, Zenon DEF AnswerOK
<1> QED
  BY <1>2, <1>3, <1>5, <1>7, Zenon

\* Steps that give no alias away and neither start nor advance a query.
LEMMA OtherStepsKeep ==
  ASSUME ResolutionInv,
         \/ Tick \/ refreshDynamic \/ authenticateSingle \/ UNCHANGED resolutionVars
         \/ \E e \in Envs : Withdraw(e) \/ authenticate(e)
         \/ \E e \in DOMAIN session : Disconnect(e)
  PROVE  ResolutionInv'
<1> USE DEF ResolutionInv
<1>1. /\ alias' = alias /\ moved' = moved /\ answer' = answer /\ registry' = registry
      /\ live' \subseteq live
      /\ time' = time \/ time' = time + 1
      /\ lookup' = lookup \/ lookup' = Nothing
      /\ entries' = entries \/ entries' = [e \in Envs |-> IF e \in live THEN alias[e] ELSE Nothing]
  BY Zenon
  DEF Tick, refreshDynamic, authenticateSingle, authenticate, Handshake, Withdraw, Disconnect,
         CloseSessions, registrations, resolutionVars
<1>2. ResolutionTypeOK'
  BY <1>1 DEF ResolutionTypeOK
<1>3. time \in Nat /\ time <= time' /\ time' \in Nat
  BY <1>1 DEF ResolutionTypeOK
<1>4. AliasOK'
  BY <1>1, <1>3 DEF ResolutionTypeOK, AliasOK
<1>5. LookupOK'
  BY <1>1, <1>3 DEF LookupOK, Others
<1>6. AnswerOK'
  BY <1>1, <1>3, ResolutionAssumption DEF AnswerOK, Others
<1> QED
  BY <1>2, <1>4, <1>5, <1>6, ZenonT(60)

\* The environment a query goes to has the alias of the query.
LEMMA AskKeeps ==
  ASSUME ResolutionInv, NEW name, forwardDNS(name)
  PROVE  ResolutionInv'
<1> USE DEF ResolutionInv
<1>1. PICK e \in live :
        LET active == route(Address(Virtual[e], ResolverHost)) IN
        /\ active # NoRoute
        /\ lookup' = [at |-> "connector", name |-> name, env |-> active.env, asked |-> time,
                      alias |-> alias[e], destination |-> active.address]
  BY Zenon DEF forwardDNS
<1>2. e \in Envs /\ alias[e] \in Aliases
  BY Zenon DEF ResolutionTypeOK
<1>3. route(Address(Virtual[e], ResolverHost)).env = e
  BY <1>1, <1>2, RouteOwner, OneOwner, PrefixAssumption, Zenon
<1>4. UNCHANGED <<time, registrations, entries, session, answer>>
  BY Zenon DEF forwardDNS
<1>5. Others(e, alias[e])' = {}
  BY <1>2, <1>4, ResolutionAssumption, ZenonT(60) DEF AliasOK, Others, registrations
<1>6. LookupOK'
  BY <1>1, <1>2, <1>3, <1>4, <1>5, SMTT(60)
  DEF LookupOK, ResolutionTypeOK, registrations, Others
<1>7. ResolutionTypeOK' /\ AliasOK' /\ AnswerOK'
  BY <1>4, Zenon DEF ResolutionTypeOK, AliasOK, AnswerOK, Others, registrations
<1> QED
  BY <1>6, <1>7, Zenon

\* A query that is rewritten, answered or received keeps its environment, alias and time.
LEMMA AnswerKeeps ==
  ASSUME ResolutionInv,
         \/ Query \/ Receive
         \/ lookup # Nothing /\ \E record \in Records(lookup.name) : Response(record)
  PROVE  ResolutionInv'
<1> USE DEF ResolutionInv
<1>1. /\ lookup # Nothing
      /\ UNCHANGED <<time, registrations, entries, session>>
  BY Zenon DEF Query, Receive, Response
<1>2. ResolutionTypeOK' /\ AliasOK'
  BY <1>1, Zenon DEF ResolutionTypeOK, AliasOK, registrations
<1>3. CASE Query
  <2>1. answer' = answer
    BY <1>3, ZenonT(60) DEF Query
  <2>2. AnswerOK'
    BY <1>1, <2>1, Zenon DEF AnswerOK, Others, registrations
  <2>3. \/ lookup' = Nothing
        \/ /\ lookup'.env = lookup.env /\ lookup'.alias = lookup.alias
           /\ lookup'.asked = lookup.asked /\ lookup'.at = "resolver"
    BY <1>3 DEF Query
  <2>4. LookupOK'
    BY <1>1, <2>3, Zenon DEF LookupOK, Others, registrations
  <2> QED
    BY <1>2, <2>2, <2>4, Zenon
<1>4. CASE Receive
  <2>1. LookupOK'
    BY <1>4, Zenon DEF Receive, LookupOK
  <2>2. CASE time - lookup.asked <= Patience
    <3>1. /\ answer'.env = lookup.env /\ answer'.alias = lookup.alias
          /\ answer'.expires = time + lookup.record.ttl
          /\ answer'.record = lookup.record /\ answer'.original = lookup.original
          /\ lookup.record.ttl \in 0..MaxTTL
          /\ Leads(lookup.env, lookup.record, lookup.original)
      BY <1>4, <2>2, ZenonT(60) DEF Receive, LookupOK
    <3> QED
      BY <1>1, <1>2, <2>1, <2>2, <3>1, ResolutionAssumption, SMTT(60)
         DEF AnswerOK, LookupOK, Others, registrations, ResolutionTypeOK
  <2>3. CASE ~ (time - lookup.asked <= Patience)
    <3>1. answer' = answer
      BY <1>4, <2>3, Zenon DEF Receive
    <3> QED
      BY <1>1, <1>2, <2>1, <3>1, Zenon DEF AnswerOK, Others, registrations
  <2> QED
    BY <2>2, <2>3, Zenon
<1>5. ASSUME NEW record \in Records(lookup.name), Response(record)
      PROVE  ResolutionInv'
  <2>1. /\ answer' = answer
        /\ lookup' = [at |-> "edge", env |-> lookup.env, asked |-> lookup.asked,
                      alias |-> lookup.alias, original |-> record,
                      record |-> rewriteRecords(lookup.env, session[lookup.env].suffix, record)]
    BY <1>5, Zenon DEF Response
  <2>2. AnswerOK'
    BY <1>1, <2>1, ZenonT(60) DEF AnswerOK, Others, registrations
  <2>3. LookupOK'
    BY <1>1, <2>1, Capped, RecordLeadsBack, Zenon DEF LookupOK, Others, registrations
  <2> QED
    BY <1>2, <2>2, <2>3, Zenon
<1> QED
  BY <1>3, <1>4, <1>5, Zenon
-----------------------------------------------------------------------------
\* The registry, the edge, the connectors and the client keep the invariant.
LEMMA ResolutionInvariant == ResolutionSpec => []ResolutionInv
<1>1. ResolutionInv /\ [ResolutionNext]_resolutionVars => ResolutionInv'
  BY RegisterKeeps, OtherStepsKeep, AskKeeps, AnswerKeeps, Zenon DEF ResolutionNext
<1> QED
  BY <1>1, InitResolves, PTL DEF ResolutionSpec

\* MovedAliasFollowed (rewriteRecords' cap, forwardDNS' look-up in the store): for any
\* environments, aliases and answers, a client uses an answer obtained before an alias moved
\* no longer than the cap and its patience after the move.
THEOREM AliasFollowed == ResolutionSpec => []MovedAliasFollowed
<1>1. ResolutionInv => MovedAliasFollowed
  <2> SUFFICES ASSUME ResolutionInv, answer # Nothing, time < answer.expires,
                      NEW e \in live \ {answer.env}, alias[e] = answer.alias
               PROVE  time - moved[answer.alias] <= MaxTTL + Patience
    BY Zenon DEF MovedAliasFollowed
  <2>1. e \in Others(answer.env, answer.alias)
    BY Zenon DEF ResolutionInv, ResolutionTypeOK, Others
  <2> QED
    BY <2>1, ResolutionAssumption DEF ResolutionInv, ResolutionTypeOK, AnswerOK
<1> QED
  BY <1>1, ResolutionInvariant, PTL

\* AnswerReachesAsked (rewriteRecord, translateAddress, route): for any prefixes and any answer
\* of a resolver, an address in the answer is routed nowhere or to the environment that gave
\* it, as the address it gave, however registrations and sessions have changed since.
THEOREM ReachesAsked == ResolutionSpec => []AnswerReachesAsked
<1>1. ResolutionInv => AnswerReachesAsked
  BY RouteOwner, Zenon DEF ResolutionInv, AnswerOK, Leads, AnswerReachesAsked
<1> QED
  BY <1>1, ResolutionInvariant, PTL

-----------------------------------------------------------------------------
(* An answer can be used as it stands.                                     *)

\* HasSuffix, position by position.
LEMMA SuffixSeen ==
  ASSUME NEW S, NEW s \in Seq(S), NEW t \in Seq(S)
  PROVE  HasSuffix(t, s) <=> Len(s) <= Len(t) /\ \A i \in 1..Len(s) : s[i] = t[Len(t) - Len(s) + i]
<1>1. CASE Len(s) <= Len(t)
  <2> DEFINE u == SubSeq(t, Len(t) - Len(s) + 1, Len(t))
  <2>1. u \in Seq(S) /\ Len(u) = Len(s) /\ \A i \in 1..Len(s) : u[i] = t[Len(t) - Len(s) + i]
    BY <1>1
  <2>2. u = s <=> \A i \in 1..Len(s) : s[i] = u[i]
    <3> HIDE DEF u
    <3> QED BY <2>1, SeqEqual, Zenon
  <2> QED BY <1>1, <2>1, <2>2, Zenon DEF HasSuffix
<1> QED BY <1>1, Zenon DEF HasSuffix

\* A sequence with one more element in front.
LEMMA Joined ==
  ASSUME NEW S, NEW x \in S, NEW q \in Seq(S)
  PROVE  /\ <<x>> \o q \in Seq(S) /\ Len(<<x>> \o q) = Len(q) + 1 /\ (<<x>> \o q)[1] = x
         /\ \A i \in 1..Len(q) : (<<x>> \o q)[i + 1] = q[i]
<1>1. <<x>> \in Seq(S) /\ Len(<<x>>) = 1 /\ <<x>>[1] = x
  OBVIOUS
<1> DEFINE p == <<x>>
<1>2. p \in Seq(S) /\ Len(p) = 1 /\ p[1] = x
  BY <1>1, Zenon
<1> HIDE DEF p
<1>2a. /\ p \o q \in Seq(S) /\ Len(p \o q) = Len(p) + Len(q)
      /\ \A i \in 1..Len(p) + Len(q) : (p \o q)[i] = IF i <= Len(p) THEN p[i] ELSE q[i - Len(p)]
  BY <1>2, ConcatProperties, Zenon
<1>3. /\ p \o q \in Seq(S) /\ Len(p \o q) = Len(q) + 1
      /\ \A i \in 1..Len(q) + 1 : (p \o q)[i] = IF i <= 1 THEN p[i] ELSE q[i - 1]
  BY <1>2, <1>2a
<1>4. (p \o q)[1] = x
  BY <1>2, <1>3
<1>5. ASSUME NEW i \in 1..Len(q) PROVE (p \o q)[i + 1] = q[i]
  <2>1. i + 1 \in 1..Len(q) + 1 /\ ~ (i + 1 <= 1) /\ (i + 1) - 1 = i
    OBVIOUS
  <2> QED BY <1>3, <2>1, Zenon
<1> QED BY <1>3, <1>4, <1>5, Zenon DEF p

\* Replacing the suffix a name was given and then the new one leads back to the name.
LEMMA ReplacedBack ==
  ASSUME NEW S, NEW x \in S, NEW from \in Seq(S), NEW to \in Seq(S)
  PROVE  replaceSuffix(<<x>> \o from, from, to) = <<x>> \o to
<1> DEFINE n == <<x>> \o from
           m == <<x>> \o to
           k == SubSeq(n, 1, Len(n) - Len(from))
<1>1. /\ n \in Seq(S) /\ Len(n) = Len(from) + 1 /\ n[1] = x
      /\ \A i \in 1..Len(from) : n[i + 1] = from[i]
      /\ m \in Seq(S) /\ Len(m) = Len(to) + 1 /\ m[1] = x
      /\ \A i \in 1..Len(to) : m[i + 1] = to[i]
  BY Joined
<1> HIDE DEF n, m
<1>2. HasSuffix(n, from)
  BY <1>1, SuffixSeen, SMTT(60)
<1>3. k \in Seq(S) /\ Len(k) = 1 /\ k[1] = x
  BY <1>1
<1> HIDE DEF k
<1>4. k \o to = m
  <2>1. /\ k \o to \in Seq(S) /\ Len(k \o to) = Len(m)
        /\ \A i \in 1..Len(m) : (k \o to)[i] = IF i <= 1 THEN k[i] ELSE to[i - 1]
    <3>1. /\ k \o to \in Seq(S) /\ Len(k \o to) = Len(k) + Len(to)
          /\ \A i \in 1..Len(k) + Len(to) : (k \o to)[i] = IF i <= Len(k) THEN k[i] ELSE to[i - Len(k)]
      BY <1>3, ConcatProperties, Zenon
    <3> QED BY <1>1, <1>3, <3>1
  <2>2. ASSUME NEW i \in 1..Len(m) PROVE (k \o to)[i] = m[i]
    <3>1. CASE i = 1
      BY <1>1, <1>3, <2>1, <3>1
    <3>2. CASE i # 1
      <4>1. i - 1 \in 1..Len(to) /\ (i - 1) + 1 = i
        BY <1>1, <3>2
      <4>2. m[i] = to[i - 1]
        BY <1>1, <4>1, Zenon
      <4>3. (k \o to)[i] = to[i - 1]
        BY <1>1, <2>1, <3>2, <4>1
      <4> QED BY <4>2, <4>3, Zenon
    <3> QED BY <3>1, <3>2, Zenon
  <2> QED BY <1>1, <2>1, <2>2, SeqEqual, Zenon
<1>5. replaceSuffix(n, from, to) = m
  BY <1>2, <1>4, Zenon DEF replaceSuffix, k
<1> QED BY <1>5, Zenon DEF n, m

\* A name under another top domain is not rewritten.
LEMMA NameKept ==
  ASSUME NEW S, NEW from \in Seq(S), NEW n \in Seq(S), NEW to, from # <<>>,
         n # <<>> => n[Len(n)] # from[Len(from)]
  PROVE  replaceSuffix(n, from, to) = n
<1>1. Len(from) \in 1..Len(from)
  OBVIOUS
<1>2. ~ HasSuffix(n, from)
  <2> SUFFICES ASSUME HasSuffix(n, from) PROVE FALSE
    BY Zenon
  <2>1. Len(from) <= Len(n) /\ from[Len(from)] = n[Len(n) - Len(from) + Len(from)]
    BY <1>1, SuffixSeen, Zenon
  <2> QED BY <1>1, <2>1
<1> QED BY <1>2, Zenon DEF replaceSuffix

\* A name under one alias has no other alias as its suffix.
LEMMA SuffixAgrees ==
  ASSUME NEW S, NEW x \in S, NEW a \in S, NEW b \in S, NEW r \in Seq(S),
         HasSuffix(<<x>> \o (<<a>> \o r), <<b>> \o r)
  PROVE  b = a
<1> DEFINE p == <<b>> \o r
           q == <<a>> \o r
           n == <<x>> \o q
<1>1. /\ p \in Seq(S) /\ Len(p) = Len(r) + 1 /\ p[1] = b
      /\ q \in Seq(S) /\ Len(q) = Len(r) + 1 /\ q[1] = a
  BY Joined
<1> HIDE DEF p, q
<1>2. /\ n \in Seq(S) /\ Len(n) = Len(q) + 1
      /\ \A i \in 1..Len(q) : n[i + 1] = q[i]
  BY <1>1, Joined
<1> HIDE DEF n
<1>3. HasSuffix(n, p)
  BY Zenon DEF n, p, q
<1>4. \A i \in 1..Len(p) : p[i] = n[Len(n) - Len(p) + i]
  BY <1>1, <1>2, <1>3, SuffixSeen, ZenonT(60)
<1>5. 1 \in 1..Len(p) /\ 1 \in 1..Len(q) /\ Len(n) - Len(p) + 1 = 1 + 1
  BY <1>1, <1>2
<1>6. p[1] = n[1 + 1]
  BY <1>4, <1>5, Zenon
<1> QED BY <1>1, <1>2, <1>5, <1>6, Zenon

Labels == {"db", "web", "example.com", "railway.internal"} \cup Aliases

\* Every suffix is of labels and ends in the Railway domain.
LEMMA SuffixLabels ==
  ASSUME NEW a \in Aliases
  PROVE  /\ railwaySuffix \in Seq(Labels) /\ railwaySuffix # <<>>
         /\ railwaySuffix[Len(railwaySuffix)] = "railway.internal"
         /\ SuffixOf(a) \in Seq(Labels) /\ SuffixOf(a) # <<>>
         /\ SuffixOf(a)[Len(SuffixOf(a))] = "railway.internal"
<1> DEFINE r == railwaySuffix
           s == SuffixOf(a)
<1>1. "railway.internal" \in Labels
  BY Zenon DEF Labels
<1>2. r \in Seq(Labels) /\ Len(r) = 1 /\ r[1] = "railway.internal"
  BY <1>1 DEF railwaySuffix
<1>3. s = <<a>> \o r /\ a \in Labels
  BY Zenon DEF SuffixOf, Labels
<1> HIDE DEF r, s
<1>4. /\ s \in Seq(Labels) /\ Len(s) = Len(r) + 1
      /\ \A i \in 1..Len(r) : s[i + 1] = r[i]
  <2>1. r \in Seq(Labels) /\ a \in Labels
    BY <1>2, <1>3, Zenon
  <2>2. /\ <<a>> \o r \in Seq(Labels) /\ Len(<<a>> \o r) = Len(r) + 1
        /\ \A i \in 1..Len(r) : (<<a>> \o r)[i + 1] = r[i]
    BY <2>1, Joined
  <2> QED BY <1>3, <2>2, Zenon
<1>5. 1 \in 1..Len(r) /\ Len(s) = 1 + 1
  BY <1>2, <1>4
<1>6. s[Len(s)] = "railway.internal"
  BY <1>2, <1>4, <1>5, Zenon
<1>7. s # <<>> /\ r # <<>>
  BY <1>2, <1>4
<1>8. Len(r) = 1 => r[Len(r)] = r[1]
  BY Zenon
<1> QED BY <1>2, <1>4, <1>6, <1>7, <1>8, Zenon DEF r, s

\* Rewriting a name for one alias and back gives the name.
LEMMA RoundTrip ==
  ASSUME NEW a \in Aliases,
         NEW n, \/ \E x \in {"db", "web"} : n = <<x>> \o railwaySuffix
                \/ n = <<"web", "example.com">>
                \/ n = <<>>
  PROVE  replaceSuffix(replaceSuffix(n, railwaySuffix, SuffixOf(a)), SuffixOf(a), railwaySuffix) = n
<1> DEFINE r == railwaySuffix
           s == SuffixOf(a)
<1>1. /\ r \in Seq(Labels) /\ r # <<>> /\ r[Len(r)] = "railway.internal"
      /\ s \in Seq(Labels) /\ s # <<>> /\ s[Len(s)] = "railway.internal"
  BY SuffixLabels, Zenon
<1> HIDE DEF r, s
<1>2. ASSUME NEW x \in {"db", "web"}, n = <<x>> \o r
      PROVE  replaceSuffix(replaceSuffix(n, r, s), s, r) = n
  <2>1. x \in Labels
    BY Zenon DEF Labels
  <2>2. replaceSuffix(<<x>> \o r, r, s) = <<x>> \o s
    BY <1>1, <2>1, ReplacedBack, Zenon
  <2>3. replaceSuffix(<<x>> \o s, s, r) = <<x>> \o r
    BY <1>1, <2>1, ReplacedBack, Zenon
  <2> QED BY <1>2, <2>2, <2>3, Zenon
<1>3. ASSUME n \in Seq(Labels), n # <<>> => n[Len(n)] # "railway.internal"
      PROVE  replaceSuffix(replaceSuffix(n, r, s), s, r) = n
  <2>1. replaceSuffix(n, r, s) = n
    BY <1>1, <1>3, NameKept, Zenon
  <2>2. replaceSuffix(n, s, r) = n
    BY <1>1, <1>3, NameKept, Zenon
  <2> QED BY <2>1, <2>2, Zenon
<1>4. CASE n = <<"web", "example.com">>
  <2>0. "web" \in Labels /\ "example.com" \in Labels
    BY Zenon DEF Labels
  <2>1. n \in Seq(Labels) /\ Len(n) = 2 /\ n[2] = "example.com"
    BY <1>4, <2>0
  <2> QED BY <1>3, <2>1, Zenon DEF r, s
<1>5. CASE n = <<>>
  <2>1. n \in Seq(Labels)
    BY <1>5
  <2> QED BY <1>3, <1>5, <2>1, Zenon DEF r, s
<1> QED BY <1>2, <1>4, <1>5, Zenon DEF r, s
-----------------------------------------------------------------------------
\* A record that was rewritten for alias a can be used as AnswerUsable says.
Usable(a, record, original) ==
  /\ replaceSuffix(record.name, SuffixOf(a), railwaySuffix) = original.name
  /\ replaceSuffix(record.target, SuffixOf(a), railwaySuffix) = original.target
  /\ record.mandatory \subseteq record.keys
  /\ "ipv6hint" \in record.keys <=> record.type = "SVCB" /\ record.addresses # {}

\* A session has one of the suffixes that its environment was given.
SessionsOK ==
  /\ issued \in [Envs -> SUBSET {SuffixOf(a) : a \in Aliases}]
  /\ DOMAIN session = Envs \cup {Nothing}
  /\ \A e \in Envs : session[e] # Nothing => \E a \in Aliases : session[e].suffix = SuffixOf(a)

\* A query is under way only while its session is there; past the connector, the suffix of the
\* session is that of the alias that was asked for.
QueryOK ==
  lookup # Nothing =>
    /\ session[lookup.env] # Nothing
    /\ lookup.at \in {"connector", "resolver", "edge"}
    /\ lookup.at = "connector" => lookup.name = <<"db">> \o SuffixOf(lookup.alias)
    /\ lookup.at = "resolver" => /\ lookup.name = <<"db">> \o railwaySuffix
                                 /\ session[lookup.env].suffix = SuffixOf(lookup.alias)
    /\ lookup.at = "edge" => Usable(lookup.alias, lookup.record, lookup.original)

UsableInv ==
  /\ SessionsOK
  /\ QueryOK
  /\ answer # Nothing => Usable(answer.alias, answer.record, answer.original)

\* The names of a record lead back through the connector, and its parameters stay consistent.
LEMMA RewrittenUsable ==
  ASSUME NEW a \in Aliases, NEW e, NEW record \in Records(<<"db">> \o railwaySuffix)
  PROVE  Usable(a, rewriteRecords(e, SuffixOf(a), record), record)
<1> DEFINE new == rewriteRecord(e, record)
           out == rewriteRecords(e, SuffixOf(a), record)
<1>1. /\ DOMAIN record = {"type", "name", "ttl", "target", "addresses", "keys", "mandatory"}
      /\ record.name = <<"db">> \o railwaySuffix
      /\ record.target \in {<<>>, <<"web">> \o railwaySuffix, <<"web", "example.com">>}
      /\ record.mandatory = record.keys
      /\ record.type # "SVCB" => record.keys = {}
      /\ record.type = "SVCB" => /\ "ipv6hint" \in record.keys \/ record.addresses = {}
  BY ZenonT(60) DEF Records, Targets
<1>2. /\ DOMAIN new = DOMAIN record
      /\ new.name = record.name /\ new.target = record.target /\ new.type = record.type
      /\ new.mandatory \subseteq new.keys
      /\ "ipv6hint" \in new.keys <=> new.type = "SVCB" /\ new.addresses # {}
  <2>1. CASE record.type = "SVCB"
    <3> DEFINE hints == {ToVirtual(e, x) : x \in {y \in record.addresses : Covers(Real, y)}}
               keys == record.keys \ ({"ipv4hint"} \cup IF hints = {} THEN {"ipv6hint"} ELSE {})
    <3>1. new = [record EXCEPT !.addresses = hints, !.keys = keys, !.mandatory = @ \cap keys]
      BY <2>1, Zenon DEF rewriteRecord, rewriteSVCBValues
    <3>2. record.addresses = {} => hints = {}
      BY Zenon
    <3>3. "ipv6hint" \in keys <=> hints # {}
      BY <1>1, <2>1, <3>2, Zenon
    <3> HIDE DEF hints, keys
    <3>4. /\ DOMAIN new = DOMAIN record /\ new.name = record.name /\ new.target = record.target
          /\ new.type = record.type /\ new.addresses = hints /\ new.keys = keys
          /\ new.mandatory = record.mandatory \cap keys
      BY <1>1, <3>1, Zenon
    <3> HIDE DEF new
    <3> QED BY <2>1, <3>3, <3>4, Zenon
  <2>2. CASE record.type # "SVCB"
    <3>1. new = [record EXCEPT !.addresses = {ToVirtual(e, x) : x \in @}]
      BY <2>2, Zenon DEF rewriteRecord
    <3>2. /\ DOMAIN new = DOMAIN record /\ new.name = record.name /\ new.target = record.target
          /\ new.type = record.type /\ new.keys = record.keys /\ new.mandatory = record.mandatory
      BY <1>1, <3>1, Zenon
    <3> HIDE DEF new
    <3> QED BY <1>1, <2>2, <3>2, Zenon
  <2> QED BY <2>1, <2>2, Zenon
<1> HIDE DEF new
<1>3. out = [new EXCEPT !.ttl = IF @ > MaxTTL THEN MaxTTL ELSE @,
                        !.name = replaceSuffix(@, railwaySuffix, SuffixOf(a)),
                        !.target = replaceSuffix(@, railwaySuffix, SuffixOf(a))]
  BY Zenon DEF rewriteRecords, new
<1>4. /\ out.name = replaceSuffix(record.name, railwaySuffix, SuffixOf(a))
      /\ out.target = replaceSuffix(record.target, railwaySuffix, SuffixOf(a))
      /\ out.type = new.type /\ out.keys = new.keys /\ out.mandatory = new.mandatory
      /\ out.addresses = new.addresses
  BY <1>1, <1>2, <1>3, ZenonT(60)
<1> HIDE DEF out
<1>5. replaceSuffix(out.name, SuffixOf(a), railwaySuffix) = record.name
  BY <1>1, <1>4, RoundTrip, ZenonT(60)
<1>6. replaceSuffix(out.target, SuffixOf(a), railwaySuffix) = record.target
  BY <1>1, <1>4, RoundTrip, ZenonT(60)
<1>7. Usable(a, out, record)
  BY <1>2, <1>4, <1>5, <1>6, Zenon DEF Usable
<1> QED BY <1>7, Zenon DEF out

\* Before the first query there is no answer to be wrong.
LEMMA InitUsable == ResolutionInit => UsableInv
BY ResolutionAssumption, Zenon DEF ResolutionInit, UsableInv, SessionsOK, QueryOK

\* Steps that leave the query and the answer alone, except that CloseSessions may drop the query
\* with its session.
LEMMA SessionStepsKeep ==
  ASSUME ResolutionInv, UsableInv,
         \/ Tick \/ refreshDynamic \/ authenticateSingle \/ UNCHANGED resolutionVars
         \/ \E e \in Envs : Withdraw(e) \/ authenticate(e) \/ \E a \in Aliases : Register(e, a)
         \/ \E e \in DOMAIN session : Disconnect(e)
  PROVE  UsableInv'
<1>1. CASE UNCHANGED <<issued, session, lookup, answer>>
  BY <1>1, Zenon DEF UsableInv, SessionsOK, QueryOK
<1>2. ASSUME NEW e \in Envs, NEW a \in Aliases, Register(e, a) PROVE UsableInv'
  <2>1. /\ issued' = [issued EXCEPT ![e] = @ \cup {SuffixOf(a)}] /\ UNCHANGED <<session, lookup, answer>>
    BY <1>2, Zenon DEF Register
  <2>2. issued' \in [Envs -> SUBSET {SuffixOf(b) : b \in Aliases}]
    BY <2>1, Zenon DEF UsableInv, SessionsOK
  <2> QED BY <2>1, <2>2, Zenon DEF UsableInv, SessionsOK, QueryOK
<1>3. ASSUME NEW E, CloseSessions(E), UNCHANGED <<issued, answer>> PROVE UsableInv'
  <2>1. /\ DOMAIN session' = DOMAIN session
        /\ \A e \in DOMAIN session : session'[e] = IF e \in E THEN Nothing ELSE session[e]
        /\ \/ lookup' = lookup /\ (lookup # Nothing => lookup.env \notin E)
           \/ lookup' = Nothing
    BY <1>3, Zenon DEF CloseSessions
  <2>2. SessionsOK'
    BY <1>3, <2>1, Zenon DEF UsableInv, SessionsOK
  <2>3. lookup' # Nothing => session'[lookup.env] = session[lookup.env]
    BY <2>1, ZenonT(60) DEF UsableInv, SessionsOK, ResolutionInv, LookupOK
  <2>4. QueryOK'
    BY <2>1, <2>3, Zenon DEF UsableInv, QueryOK
  <2> QED BY <1>3, <2>2, <2>4, Zenon DEF UsableInv
<1>4. ASSUME NEW e \in Envs \cup {Nothing}, session[e] = Nothing,
             NEW realRoutes, NEW advertised, NEW suffix, Handshake(e, realRoutes, advertised, suffix),
             e \in Envs => suffix \in issued[e]
      PROVE  UsableInv'
  <2> DEFINE accepted == IntersectPrefixes(realRoutes, advertised)
             new == [edge |-> realRoutes, connector |-> advertised, routes |-> accepted,
                     serves |-> ValidateAcceptedRoutes(accepted, advertised), suffix |-> suffix]
  <2>1. /\ session' = [session EXCEPT ![e] = new] /\ new.suffix = suffix
    BY <1>4, Zenon DEF Handshake
  <2> HIDE DEF new
  <2>2. UNCHANGED <<issued, lookup, answer>>
    BY <1>4, ZenonT(60) DEF Handshake, registrations
  <2>3. /\ DOMAIN session' = DOMAIN session /\ session'[e] = new
        /\ \A f \in DOMAIN session : f # e => session'[f] = session[f]
    BY <2>1, Zenon DEF UsableInv, SessionsOK
  <2>4. e \in Envs => \E a \in Aliases : suffix = SuffixOf(a)
    BY <1>4, Zenon DEF UsableInv, SessionsOK
  <2>5. SessionsOK'
    BY <2>1, <2>2, <2>3, <2>4, ZenonT(60) DEF UsableInv, SessionsOK
  <2>6. lookup # Nothing => session'[lookup.env] = session[lookup.env]
    BY <1>4, <2>3, ZenonT(60) DEF UsableInv, SessionsOK, QueryOK, ResolutionInv, LookupOK
  <2>7. QueryOK'
    BY <2>2, <2>6, Zenon DEF UsableInv, QueryOK
  <2> QED BY <2>2, <2>5, <2>7, Zenon DEF UsableInv
<1>5. CASE Tick \/ UNCHANGED resolutionVars \/ \E e \in Envs : Withdraw(e)
  BY <1>1, <1>5, ZenonT(60) DEF Tick, Withdraw, resolutionVars, registrations
<1>6. CASE refreshDynamic
  BY <1>3, <1>6, Zenon DEF refreshDynamic, registrations
<1>7. CASE \E e \in DOMAIN session : Disconnect(e)
  BY <1>3, <1>7, Zenon DEF Disconnect, registrations
<1>8. CASE authenticateSingle
  BY <1>4, <1>8, ResolutionAssumption, Zenon DEF authenticateSingle
<1>9. CASE \E e \in Envs : authenticate(e)
  BY <1>4, <1>9, Zenon DEF authenticate
<1> QED BY <1>2, <1>5, <1>6, <1>7, <1>8, <1>9, Zenon

\* A query starts where there is a session.
LEMMA AskUsable ==
  ASSUME ResolutionInv, UsableInv, NEW b \in Aliases, forwardDNS(<<"db">> \o SuffixOf(b))
  PROVE  UsableInv'
<1> DEFINE name == <<"db">> \o SuffixOf(b)
<1>1. PICK e \in live :
        LET active == route(Address(Virtual[e], ResolverHost)) IN
        /\ alias[e] = name[Len(name) - 1]
        /\ active # NoRoute
        /\ lookup' = [at |-> "connector", name |-> name, env |-> active.env, asked |-> time,
                      alias |-> alias[e], destination |-> active.address]
  BY ZenonT(60) DEF forwardDNS
<1>2. UNCHANGED <<issued, session, answer>>
  BY Zenon DEF forwardDNS, registrations
<1>3. alias[e] = b
  <2> DEFINE s == SuffixOf(b)
  <2>1. s \in Seq(Labels) /\ b \in Labels /\ "db" \in Labels /\ Len(s) = 2 /\ s[1] = b
    <3>1. railwaySuffix \in Seq(Labels) /\ Len(railwaySuffix) = 1 /\ b \in Labels /\ "db" \in Labels
      BY SuffixLabels, Zenon DEF railwaySuffix, Labels
    <3> DEFINE r == railwaySuffix
    <3>2. s = <<b>> \o r
      BY Zenon DEF SuffixOf
    <3> HIDE DEF r, s
    <3>3. s \in Seq(Labels) /\ Len(s) = Len(r) + 1 /\ s[1] = b
      BY <3>1, <3>2, Joined DEF r
    <3> QED BY <3>1, <3>3 DEF r
  <2> HIDE DEF s
  <2>2. /\ <<"db">> \o s \in Seq(Labels) /\ Len(<<"db">> \o s) = Len(s) + 1
        /\ \A i \in 1..Len(s) : (<<"db">> \o s)[i + 1] = s[i]
    BY <2>1, Joined, SMTT(60)
  <2>3. 1 \in 1..Len(s) /\ Len(<<"db">> \o s) - 1 = 1 + 1
    BY <2>1, <2>2
  <2> QED BY <1>1, <2>1, <2>2, <2>3, Zenon DEF s
<1>4. session[route(Address(Virtual[e], ResolverHost)).env] # Nothing
  BY <1>1, RouteOwner, ZenonT(30)
<1>5. QueryOK'
  BY <1>1, <1>2, <1>3, <1>4, Zenon DEF QueryOK
<1> QED BY <1>2, <1>5, Zenon DEF UsableInv, SessionsOK

\* The connector takes only names under its suffix, which is then that of the alias.
LEMMA AnswerStaysUsable ==
  ASSUME ResolutionInv, UsableInv,
         \/ Query \/ Receive
         \/ /\ lookup # Nothing /\ lookup.at = "resolver"
            /\ \E record \in Records(lookup.name) : Response(record)
  PROVE  UsableInv'
<1>1. /\ lookup # Nothing /\ lookup.env \in Envs /\ lookup.alias \in Aliases
      /\ UNCHANGED <<issued, session>>
  BY Zenon DEF Query, Receive, Response, ResolutionInv, LookupOK, registrations
<1>2. SessionsOK'
  BY <1>1, Zenon DEF UsableInv, SessionsOK
<1>3. CASE Query
  <2> DEFINE s == session[lookup.env]
             n == replaceSuffix(lookup.name, s.suffix, railwaySuffix)
  <2>1. /\ answer' = answer /\ lookup.at = "connector"
        /\ \/ lookup' = Nothing
           \/ /\ HasSuffix(lookup.name, s.suffix)
              /\ lookup'.at = "resolver" /\ lookup'.name = n
              /\ lookup'.env = lookup.env /\ lookup'.alias = lookup.alias
    BY <1>3 DEF Query
  <2>2. s # Nothing /\ lookup.name = <<"db">> \o SuffixOf(lookup.alias)
    BY <1>1, <2>1, ZenonT(60) DEF UsableInv, QueryOK
  <2>3. PICK b \in Aliases : s.suffix = SuffixOf(b)
    BY <1>1, <2>2, Zenon DEF UsableInv, SessionsOK
  <2>4. CASE lookup' # Nothing
    <3>1. "db" \in Labels /\ b \in Labels /\ lookup.alias \in Labels
      BY <1>1, Zenon DEF Labels
    <3>2. railwaySuffix \in Seq(Labels) /\ SuffixOf(b) \in Seq(Labels)
      BY SuffixLabels, ZenonT(60)
    <3>3. HasSuffix(<<"db">> \o (<<lookup.alias>> \o railwaySuffix), <<b>> \o railwaySuffix)
      BY <2>1, <2>2, <2>3, <2>4, Zenon DEF SuffixOf
    <3>4. b = lookup.alias
      BY <3>1, <3>2, <3>3, SuffixAgrees, ZenonT(60)
    <3>5. n = <<"db">> \o railwaySuffix
      BY <2>2, <2>3, <3>1, <3>2, <3>4, ReplacedBack
    <3> HIDE DEF n
    <3>6. QueryOK'
      BY <1>1, <2>1, <2>2, <2>3, <2>4, <3>4, <3>5, Zenon DEF QueryOK
    <3> QED BY <1>2, <2>1, <3>6, Zenon DEF UsableInv
  <2>5. CASE lookup' = Nothing
    BY <1>2, <2>1, <2>5, Zenon DEF UsableInv, QueryOK
  <2> QED BY <2>4, <2>5, Zenon
<1>4. CASE Receive
  <2>1. /\ lookup' = Nothing /\ lookup.at = "edge"
        /\ \/ answer' = answer
           \/ /\ answer'.alias = lookup.alias /\ answer'.record = lookup.record
              /\ answer'.original = lookup.original
    BY <1>4, Zenon DEF Receive
  <2> QED BY <1>1, <1>2, <2>1, Zenon DEF UsableInv, QueryOK
<1>5. ASSUME lookup.at = "resolver", NEW record \in Records(lookup.name), Response(record)
      PROVE  UsableInv'
  <2>1. /\ answer' = answer
        /\ lookup'.at = "edge" /\ lookup'.env = lookup.env /\ lookup'.alias = lookup.alias
        /\ lookup'.original = record
        /\ lookup'.record = rewriteRecords(lookup.env, session[lookup.env].suffix, record)
    BY <1>5, Zenon DEF Response
  <2>2. /\ lookup.name = <<"db">> \o railwaySuffix /\ session[lookup.env] # Nothing
        /\ session[lookup.env].suffix = SuffixOf(lookup.alias)
    BY <1>1, <1>5, Zenon DEF UsableInv, QueryOK
  <2>3. Usable(lookup.alias, rewriteRecords(lookup.env, SuffixOf(lookup.alias), record), record)
    BY <1>1, <1>5, <2>2, RewrittenUsable, ZenonT(60)
  <2>4. QueryOK'
    BY <1>1, <2>1, <2>2, <2>3, Zenon DEF QueryOK
  <2> QED BY <1>2, <2>1, <2>4, Zenon DEF UsableInv
<1> QED BY <1>3, <1>4, <1>5, Zenon

\* AnswerUsable (replaceSuffix in both directions, rewriteSVCBValues): for any environments,
\* aliases and records, a name of an answer becomes the resolver's name again when the client
\* asks for it, and a service requires no parameter that was taken out.
THEOREM AnswersUsable == ResolutionSpec => []AnswerUsable
<1>1. ResolutionInv /\ UsableInv /\ [ResolutionNext]_resolutionVars => UsableInv'
  BY SessionStepsKeep, AskUsable, AnswerStaysUsable, Zenon DEF ResolutionNext
<1>2. UsableInv => AnswerUsable
  BY Zenon DEF UsableInv, Usable, AnswerUsable
<1> QED
  BY <1>1, <1>2, InitUsable, ResolutionInvariant, PTL DEF ResolutionSpec

-----------------------------------------------------------------------------
(* The routes that both ends of a session agree on.                        *)

\* A set of naturals that is not empty has a least member.
LEMMA Least ==
  ASSUME NEW T, T \subseteq Nat, T # {}
  PROVE  \E m \in T : \A n \in T : m <= n
<1> DEFINE R == OpToRel(<, Nat)
<1>1. IsWellFoundedOn(R, Nat)
  BY NatLessThanWellFounded, Zenon
<1>2. \A x \in Nat, y \in Nat : <<y, x>> \in R <=> y < x
  BY Zenon DEF OpToRel
<1> HIDE DEF R
<1>3. \E x \in T : \A y \in T : ~ (<<y, x>> \in R)
  BY <1>1, WFMin, Zenon
<1>4. PICK x \in T : \A y \in T : ~ (<<y, x>> \in R)
  BY <1>3, Zenon
<1>5. ASSUME NEW y \in T PROVE x <= y
  <2>1. x \in Nat /\ y \in Nat /\ ~ (y < x)
    BY <1>2, <1>4, Zenon
  <2> QED
    BY <2>1
<1> QED
  BY <1>5, Zenon

\* Induction over the naturals, by the least member outside the set.
LEMMA Induct ==
  ASSUME NEW S, 0 \in S, \A n \in Nat : n \in S => n + 1 \in S
  PROVE  Nat \subseteq S
<1> SUFFICES ASSUME ~ (Nat \subseteq S) PROVE FALSE
  BY Zenon
<1> DEFINE T == Nat \ S
<1>1. PICK m \in T : \A n \in T : m <= n
  <2>1. T \subseteq Nat /\ T # {}
    BY Zenon
  <2> HIDE DEF T
  <2> QED
    BY <2>1, Least, Zenon
<1>2. m # 0 /\ m - 1 \in Nat /\ m - 1 \notin T
  BY <1>1
<1>3. m - 1 \in S /\ (m - 1) + 1 = m
  BY <1>1, <1>2
<1> QED
  BY <1>1, <1>2, <1>3, Zenon
\* The results of a loop over 1..n that takes its result from one step to the next.
Steps(n, S) == [1..n -> [S -> S]]

Results(n, S, start, F) ==
  {f \in [0..n -> S] : f[0] = start /\ \A k \in 1..n : f[k] = F[k][f[k - 1]]}

\* A loop of n steps has a result.
LEMMA Looped ==
  ASSUME NEW n \in Nat, NEW S, NEW start \in S, NEW F \in Steps(n, S)
  PROVE  Results(n, S, start, F) # {}
<1> DEFINE Upto(m, f) == f \in [0..m -> S] /\ f[0] = start /\ \A k \in 1..m : f[k] = F[k][f[k - 1]]
           T == {m \in Nat : m <= n => \E f : Upto(m, f)}
<1>1. 0 \in T
  <2> DEFINE f == [k \in 0..0 |-> start]
  <2>1. Upto(0, f)
    OBVIOUS
  <2> QED BY <2>1, Zenon
<1>2. ASSUME NEW m \in Nat, m \in T PROVE m + 1 \in T
  <2> SUFFICES ASSUME m + 1 <= n PROVE \E f : Upto(m + 1, f)
    OBVIOUS
  <2>1. PICK f : Upto(m, f)
    BY <1>2
  <2> DEFINE g == [k \in 0..(m + 1) |-> IF k = m + 1 THEN F[m + 1][f[m]] ELSE f[k]]
  <2>2. f[m] \in S /\ F[m + 1][f[m]] \in S
    BY <2>1 DEF Steps
  <2>3. g \in [0..(m + 1) -> S] /\ g[0] = start
    BY <2>1, <2>2, SMTT(60)
  <2>4. ASSUME NEW k \in 1..(m + 1) PROVE g[k] = F[k][g[k - 1]]
    <3>1. CASE k = m + 1
      <4>1. k - 1 = m /\ m \in 0..(m + 1) /\ m # m + 1 /\ k \in 0..(m + 1)
        BY <3>1
      <4>2. g[k] = F[m + 1][f[m]] /\ g[m] = f[m]
        BY <3>1, <4>1, Zenon
      <4> HIDE DEF g
      <4> QED BY <3>1, <4>1, <4>2, Zenon
    <3>2. CASE k # m + 1
      <4>1. k \in 1..m /\ k \in 0..(m + 1) /\ k - 1 \in 0..(m + 1) /\ k - 1 # m + 1
        BY <3>2
      <4>2. g[k] = f[k] /\ g[k - 1] = f[k - 1]
        BY <3>2, <4>1, Zenon
      <4> HIDE DEF g
      <4> QED BY <2>1, <4>1, <4>2, Zenon
    <3> QED BY <3>1, <3>2, Zenon
  <2>5. Upto(m + 1, g)
    BY <2>3, <2>4, Zenon
  <2> QED BY <2>5, Zenon
<1> HIDE DEF Upto
<1>3. n \in T
  <2> HIDE DEF T
  <2> QED BY <1>1, <1>2, Induct, Zenon
<1>4. PICK f : Upto(n, f)
  BY <1>3
<1> QED BY <1>4, Zenon DEF Upto, Results

\* What a step keeps holds at each step of a loop.
LEMMA LoopKeeps ==
  ASSUME NEW n \in Nat, NEW K, 0 \in K, \A k \in 1..n : k - 1 \in K => k \in K
  PROVE  0..n \subseteq K
<1> DEFINE T == {m \in Nat : m <= n => m \in K}
<1>1. 0 \in T
  BY Zenon
<1>2. ASSUME NEW m \in Nat, m \in T PROVE m + 1 \in T
  <2> SUFFICES ASSUME m + 1 <= n PROVE m + 1 \in K
    OBVIOUS
  <2>1. m \in K /\ m + 1 \in 1..n /\ (m + 1) - 1 = m
    BY <1>2
  <2> QED BY <2>1, Zenon
<1>3. Nat \subseteq T
  <2> HIDE DEF T
  <2> QED BY <1>1, <1>2, Induct, Zenon
<1> QED BY <1>3

\* Uncovered is the loop that collects what a new range does not cover.
LEMMA UncoveredLoop ==
  ASSUME NEW r \in Seq(Ranges), NEW p \in Ranges
  PROVE  /\ Uncovered(r, p) \in [0..Len(r) -> Seq(Ranges)]
         /\ Uncovered(r, p)[0] = <<>>
         /\ \A i \in 1..Len(r) :
              Uncovered(r, p)[i] = IF Covers(p, r[i]) THEN Uncovered(r, p)[i - 1]
                              ELSE Append(Uncovered(r, p)[i - 1], r[i])
<1> DEFINE Q == Seq(Ranges)
           n == Len(r)
           Step == [i \in 1..n |-> [q \in Q |-> IF Covers(p, r[i]) THEN q ELSE Append(q, r[i])]]
           IsLoop(f) == f = [i \in 0..n |-> IF i = 0 THEN <<>>
                               ELSE IF Covers(p, r[i]) THEN f[i - 1] ELSE Append(f[i - 1], r[i])]
<1>1. Step \in [1..n -> [Q -> Q]] /\ n \in Nat /\ <<>> \in Q
  OBVIOUS
<1>2. \A k \in 1..n, q \in Q : Step[k][q] = IF Covers(p, r[k]) THEN q ELSE Append(q, r[k])
  BY Zenon
<1>3. \A k \in 1..n, q \in Q : Append(q, r[k]) \in Q
  OBVIOUS
<1> HIDE DEF Step, Q, n
<1>4. PICK f : f \in [0..n -> Q] /\ f[0] = <<>> /\ \A k \in 1..n : f[k] = Step[k][f[k - 1]]
  <2>1. Step \in Steps(n, Q)
    BY <1>1, Zenon DEF Steps
  <2>2. Results(n, Q, <<>>, Step) # {}
    BY <1>1, <2>1, Looped, Zenon
  <2> QED BY <2>2, Zenon DEF Results
<1>5. IsLoop(f)
  <2>1. ASSUME NEW k \in 1..n
        PROVE  f[k] = IF Covers(p, r[k]) THEN f[k - 1] ELSE Append(f[k - 1], r[k])
    <3>1. k - 1 \in 0..n
      BY <1>1
    <3>2. f[k - 1] \in Q /\ f[k] = Step[k][f[k - 1]]
      BY <1>4, <3>1, Zenon
    <3> QED BY <1>2, <3>2, Zenon
  <2>2. \A k \in 0..n : k = 0 \/ k \in 1..n
    BY <1>1
  <2> QED BY <1>4, <2>1, <2>2, Zenon
<1>6. Uncovered(r, p) = CHOOSE g : IsLoop(g)
  BY Zenon DEF Uncovered, n
<1>7. IsLoop(Uncovered(r, p))
  <2> HIDE DEF IsLoop
  <2> QED BY <1>5, <1>6, Zenon
<1> DEFINE g == Uncovered(r, p)
<1>8. /\ g = [k \in 0..n |-> g[k]] /\ g[0] = <<>>
      /\ \A k \in 1..n : g[k] = IF Covers(p, r[k]) THEN g[k - 1] ELSE Append(g[k - 1], r[k])
  <2> HIDE DEF g
  <2>1. IsLoop(g)
    BY <1>7, Zenon DEF g
  <2>2. \A k \in 1..n : k \in 0..n /\ k # 0
    BY <1>1
  <2>3. 0 \in 0..n
    BY <1>1
  <2>4. g = [k \in 0..n |-> g[k]]
    BY <2>1, Zenon
  <2> QED BY <2>1, <2>2, <2>3, <2>4, Zenon
<1> HIDE DEF g, IsLoop
<1>9. \A k \in 0..n : g[k] \in Q
  <2> DEFINE K == {k \in 0..n : g[k] \in Q}
  <2>1. 0 \in K
    BY <1>1, <1>8
  <2>2. ASSUME NEW k \in 1..n, k - 1 \in K PROVE k \in K
    <3>1. g[k - 1] \in Q /\ k \in 0..n
      BY <1>1, <2>2
    <3> QED BY <1>3, <1>8, <3>1, Zenon
  <2>3. 0..n \subseteq K
    <3> HIDE DEF K
    <3> QED BY <1>1, <2>1, <2>2, LoopKeeps, ZenonT(60)
  <2> QED BY <2>3, Zenon
<1>10. g \in [0..n -> Q]
  BY <1>8, <1>9, Zenon
<1> QED BY <1>8, <1>10, Zenon DEF Q, n, g

\* Covers, bit by bit.
LEMMA CoversMeans ==
  ASSUME NEW p \in Ranges, NEW q \in Ranges
  PROVE  /\ Len(p.bits) \in Nat
         /\ Covers(p, q) <=> /\ p.family = q.family /\ Len(p.bits) <= Len(q.bits)
                            /\ \A i \in 1..Len(p.bits) : p.bits[i] = q.bits[i]
<1> DEFINE s == p.bits
           t == q.bits
<1>1. s \in Seq({0, 1}) /\ t \in Seq({0, 1})
  BY Zenon DEF Ranges
<1> HIDE DEF s, t
<1>2. ASSUME Len(s) <= Len(t)
      PROVE  SubSeq(t, 1, Len(s)) = s <=> \A i \in 1..Len(s) : s[i] = t[i]
  <2> DEFINE u == SubSeq(t, 1, Len(s))
  <2>1. u \in Seq({0, 1}) /\ Len(u) = Len(s) /\ \A i \in 1..Len(s) : u[i] = t[i]
    BY <1>1, <1>2
  <2> HIDE DEF u
  <2>2. u = s <=> \A i \in 1..Len(s) : s[i] = u[i]
    BY <1>1, <2>1, SeqEqual, Zenon
  <2> QED BY <2>1, <2>2, Zenon DEF u
<1>3. Len(s) \in Nat
  BY <1>1
<1> QED BY <1>2, <1>3, Zenon DEF Covers, s, t

\* Covers is a partial order in which the prefixes of an address are a chain.
LEMMA CoversOrder ==
  ASSUME NEW p \in Ranges, NEW q \in Ranges, NEW x \in Ranges
  PROVE  /\ Covers(p, p)
         /\ Covers(p, q) /\ Covers(q, x) => Covers(p, x)
         /\ Covers(p, x) /\ Covers(q, x) => Overlaps(p, q)
         /\ Covers(p, q) /\ Len(q.bits) <= Len(p.bits) => Covers(q, p)
<1>1. Covers(p, p)
  BY CoversMeans
<1>2. Covers(p, q) /\ Covers(q, x) => Covers(p, x)
  BY CoversMeans
<1>3. Covers(p, x) /\ Covers(q, x) => Overlaps(p, q)
  BY CoversMeans DEF Overlaps
<1>4. Covers(p, q) /\ Len(q.bits) <= Len(p.bits) => Covers(q, p)
  BY CoversMeans
<1> QED BY <1>1, <1>2, <1>3, <1>4, Zenon

\* Of two ranges that overlap, the narrower one is their intersection.
LEMMA NarrowerMeets ==
  ASSUME NEW p \in Ranges, NEW q \in Ranges, Overlaps(p, q)
  PROVE  /\ Narrower(p, q) \in Ranges
         /\ Covers(q, Narrower(p, q))
         /\ \A x \in Ranges : Covers(Narrower(p, q), x) <=> Covers(p, x) /\ Covers(q, x)
<1> DEFINE m == Narrower(p, q)
<1>1. m \in {p, q} /\ m \in Ranges
  BY Zenon DEF Narrower
<1>2. Covers(p, m) /\ Covers(q, m)
  <2>1. CASE Len(q.bits) > Len(p.bits)
    <3>1. m = q /\ ~ Covers(q, p)
      BY <2>1, CoversMeans DEF Narrower
    <3> QED BY <3>1, CoversOrder, Zenon DEF Overlaps
  <2>2. CASE ~ (Len(q.bits) > Len(p.bits))
    <3>1. m = p /\ Len(q.bits) <= Len(p.bits)
      BY <2>2, CoversMeans DEF Narrower
    <3> QED BY <3>1, CoversOrder, Zenon DEF Overlaps
  <2> QED BY <2>1, <2>2, Zenon
<1> HIDE DEF m
<1>3. \A x \in Ranges : Covers(m, x) <=> Covers(p, x) /\ Covers(q, x)
  BY <1>1, <1>2, CoversOrder, Zenon
<1> QED BY <1>1, <1>2, <1>3, Zenon DEF m

\* No range lies in another one.
Apart(r) == \A i, j \in DOMAIN r : Covers(r[i], r[j]) => i = j

\* What appending a range leaves.
LEMMA AppendedRange ==
  ASSUME NEW q \in Seq(Ranges), NEW x \in Ranges
  PROVE  /\ Append(q, x) \in Seq(Ranges) /\ DOMAIN Append(q, x) = DOMAIN q \cup {Len(q) + 1}
         /\ Append(q, x)[Len(q) + 1] = x
         /\ \A i \in DOMAIN q : Append(q, x)[i] = q[i]
<1>1. DOMAIN q = 1..Len(q) /\ Len(q) \in Nat
  OBVIOUS
<1> QED BY <1>1, AppendProperties

\* Appending a range that neither covers nor is covered keeps the ranges apart.
LEMMA AppendApart ==
  ASSUME NEW q \in Seq(Ranges), NEW x \in Ranges, Apart(q),
         \A a \in DOMAIN q : ~ Covers(q[a], x) /\ ~ Covers(x, q[a])
  PROVE  Apart(Append(q, x))
<1> DEFINE s == Append(q, x)
<1>1. /\ s \in Seq(Ranges) /\ DOMAIN s = DOMAIN q \cup {Len(q) + 1} /\ s[Len(q) + 1] = x
      /\ \A i \in DOMAIN q : s[i] = q[i]
  BY AppendedRange, Zenon
<1> HIDE DEF s
<1>2. Apart(s)
  BY <1>1, Zenon DEF Apart
<1> QED BY <1>2, Zenon DEF s

\* What the inner removal leaves: the ranges that the new one does not contain.
LEMMA UncoveredRanges ==
  ASSUME NEW r \in Seq(Ranges), NEW p \in Ranges, Apart(r)
  PROVE  LET k == Uncovered(r, p)[Len(r)] IN
         /\ k \in Seq(Ranges) /\ Apart(k)
         /\ \A a \in DOMAIN k : \E b \in DOMAIN r : k[a] = r[b] /\ ~ Covers(p, r[b])
         /\ \A b \in DOMAIN r : ~ Covers(p, r[b]) => \E a \in DOMAIN k : k[a] = r[b]
<1> DEFINE g == Uncovered(r, p)
           n == Len(r)
           From(i) == \A a \in DOMAIN g[i] : \E b \in 1..i : g[i][a] = r[b] /\ ~ Covers(p, r[b])
           All(i) == \A b \in 1..i : ~ Covers(p, r[b]) => \E a \in DOMAIN g[i] : g[i][a] = r[b]
           K == {i \in 0..n : Apart(g[i]) /\ From(i) /\ All(i)}
<1>1. /\ g \in [0..n -> Seq(Ranges)] /\ g[0] = <<>>
      /\ \A i \in 1..n : g[i] = IF Covers(p, r[i]) THEN g[i - 1] ELSE Append(g[i - 1], r[i])
  BY UncoveredLoop, ZenonT(60)
<1>2. n \in Nat /\ DOMAIN r = 1..n /\ \A i \in 1..n : r[i] \in Ranges
  OBVIOUS
<1> HIDE DEF g, n
<1>3. 0 \in K
  BY <1>1, <1>2, SMTT(60) DEF Apart
<1>4. ASSUME NEW i \in 1..n, i - 1 \in K PROVE i \in K
  <2>1. /\ g[i - 1] \in Seq(Ranges) /\ Apart(g[i - 1]) /\ From(i - 1) /\ All(i - 1)
    BY <1>1, <1>2, <1>4, Zenon
  <2>2. i \in 0..n /\ 1..i = 1..(i - 1) \cup {i} /\ i \notin 1..(i - 1)
    BY <1>2
  <2>3. CASE Covers(p, r[i])
    <3>1. g[i] = g[i - 1]
      BY <1>1, <2>3, Zenon
    <3> QED BY <2>1, <2>2, <2>3, <3>1, ZenonT(60)
  <2>4. CASE ~ Covers(p, r[i])
    <3> DEFINE q == g[i - 1]
    <3>1. g[i] = Append(q, r[i])
      BY <1>1, <2>4, ZenonT(60)
    <3>2. /\ DOMAIN g[i] = DOMAIN q \cup {Len(q) + 1} /\ g[i][Len(q) + 1] = r[i]
          /\ \A a \in DOMAIN q : g[i][a] = q[a]
      BY <1>2, <2>1, <3>1, AppendedRange, SMTT(60)
    <3>3. From(i)
      BY <2>1, <2>2, <2>4, <3>2
    <3>4. All(i)
      BY <2>1, <2>2, <2>4, <3>2, ZenonT(60)
    <3>5. \A a \in DOMAIN q : ~ Covers(q[a], r[i]) /\ ~ Covers(r[i], q[a])
      <4> SUFFICES ASSUME NEW a \in DOMAIN q PROVE ~ Covers(q[a], r[i]) /\ ~ Covers(r[i], q[a])
        BY Zenon
      <4>1. PICK b \in 1..(i - 1) : q[a] = r[b]
        BY <2>1, Zenon
      <4>2. b # i /\ b \in DOMAIN r /\ i \in DOMAIN r
        BY <1>2, <2>2
      <4> QED BY <4>1, <4>2, Zenon DEF Apart
    <3>6. Apart(g[i])
      <4> HIDE DEF q
      <4> QED BY <1>2, <2>1, <3>1, <3>5, AppendApart, ZenonT(60) DEF q
    <3> QED BY <2>2, <3>3, <3>4, <3>6, Zenon
  <2> QED BY <2>3, <2>4, Zenon
<1>5. 0..n \subseteq K
  <2> HIDE DEF K
  <2> QED BY <1>2, <1>3, <1>4, LoopKeeps, ZenonT(60)
<1>6. n \in 0..n
  BY <1>2
<1>7. n \in K /\ g[n] \in Seq(Ranges)
  <2> HIDE DEF K
  <2> QED BY <1>1, <1>5, <1>6, Zenon
<1> QED BY <1>2, <1>7, ZenonT(60) DEF g, n

\* A range is added to the ones there: they stay apart and hold its addresses too.
LEMMA RangeAdded ==
  ASSUME NEW r \in Seq(Ranges), NEW p \in Ranges, Apart(r)
  PROVE  /\ AddRange(r, p) \in Seq(Ranges) /\ Apart(AddRange(r, p))
         /\ \A x \in Ranges : Allowed(AddRange(r, p), x) <=> Allowed(r, x) \/ Covers(p, x)
         /\ \A a \in DOMAIN AddRange(r, p) :
              AddRange(r, p)[a] = p \/ \E b \in DOMAIN r : AddRange(r, p)[a] = r[b]
<1>1. DOMAIN r = 1..Len(r) /\ \A i \in DOMAIN r : r[i] \in Ranges
  OBVIOUS
<1>2. CASE Allowed(r, p)
  <2>1. AddRange(r, p) = r
    BY <1>2, Zenon DEF AddRange
  <2>2. PICK i \in DOMAIN r : Covers(r[i], p)
    BY <1>2, Zenon DEF Allowed
  <2>3. \A x \in Ranges : Covers(p, x) => Covers(r[i], x)
    BY <1>1, <2>2, CoversOrder, Zenon
  <2>4. \A x \in Ranges : Covers(p, x) => Allowed(r, x)
    BY <2>3, ZenonT(60) DEF Allowed
  <2> QED BY <2>1, <2>4, Zenon
<1>3. CASE ~ Allowed(r, p)
  <2> DEFINE k == Uncovered(r, p)[Len(r)]
             s == Append(k, p)
  <2>1. AddRange(r, p) = s
    BY <1>3, Zenon DEF AddRange
  <2>2. /\ k \in Seq(Ranges) /\ Apart(k)
        /\ \A a \in DOMAIN k : \E b \in DOMAIN r : k[a] = r[b] /\ ~ Covers(p, r[b])
        /\ \A b \in DOMAIN r : ~ Covers(p, r[b]) => \E a \in DOMAIN k : k[a] = r[b]
    BY UncoveredRanges, ZenonT(60)
  <2> HIDE DEF k
  <2>3. /\ s \in Seq(Ranges) /\ DOMAIN s = DOMAIN k \cup {Len(k) + 1} /\ s[Len(k) + 1] = p
        /\ \A i \in DOMAIN k : s[i] = k[i]
    BY <2>2, AppendedRange, Zenon
  <2>4. \A a \in DOMAIN k : ~ Covers(k[a], p) /\ ~ Covers(p, k[a])
    BY <1>3, <2>2, Zenon DEF Allowed
  <2>5. Apart(s)
    BY <2>2, <2>4, AppendApart, Zenon
  <2> HIDE DEF s
  <2>6. ASSUME NEW x \in Ranges, Allowed(s, x) PROVE Allowed(r, x) \/ Covers(p, x)
    BY <2>2, <2>3, <2>6 DEF Allowed
  <2>7. ASSUME NEW x \in Ranges, Covers(p, x) PROVE Allowed(s, x)
    BY <2>3, <2>7, Zenon DEF Allowed
  <2>8. ASSUME NEW x \in Ranges, Allowed(r, x) PROVE Allowed(s, x)
    <3>1. PICK b \in DOMAIN r : Covers(r[b], x)
      BY <2>8, Zenon DEF Allowed
    <3>2. CASE Covers(p, r[b])
      <4>1. Covers(p, x)
        BY <1>1, <3>1, <3>2, CoversOrder, ZenonT(60)
      <4> QED BY <2>7, <4>1, Zenon
    <3>3. CASE ~ Covers(p, r[b])
      <4>1. PICK a \in DOMAIN k : k[a] = r[b]
        BY <2>2, <3>3, Zenon
      <4> QED BY <2>3, <3>1, <4>1, Zenon DEF Allowed
    <3> QED BY <3>2, <3>3, Zenon
  <2>9. ASSUME NEW a \in DOMAIN s PROVE s[a] = p \/ \E b \in DOMAIN r : s[a] = r[b]
    <3>1. a \in DOMAIN k \/ a = Len(k) + 1
      BY <2>3, Zenon
    <3>2. CASE a \in DOMAIN k
      BY <2>2, <2>3, <3>2, Zenon
    <3> QED BY <2>3, <3>1, <3>2, Zenon
  <2> QED BY <2>1, <2>3, <2>5, <2>6, <2>7, <2>8, <2>9, ZenonT(60)
<1> QED BY <1>2, <1>3, Zenon

\* A result of IntersectPrefixes: ranges apart from each other, each of them allowed by the
\* ranges on the right.
Meets(second) == {r \in Seq(Ranges) : Apart(r) /\ \A a \in DOMAIN r : Allowed(second, r[a])}

\* One turn of the inner loop.
LEMMA RightTaken ==
  ASSUME NEW second \in Seq(Ranges), NEW r \in Meets(second), NEW left \in Ranges,
         NEW j \in 1..Len(second), Overlaps(left, second[j])
  PROVE  LET s == AddRange(r, Narrower(left, second[j])) IN
         /\ s \in Meets(second)
         /\ \A x \in Ranges :
              Allowed(s, x) <=> Allowed(r, x) \/ (Covers(left, x) /\ Covers(second[j], x))
<1> DEFINE p == Narrower(left, second[j])
           s == AddRange(r, p)
<1>1. second[j] \in Ranges /\ j \in DOMAIN second
  OBVIOUS
<1>2. /\ p \in Ranges /\ Covers(second[j], p)
      /\ \A x \in Ranges : Covers(p, x) <=> Covers(left, x) /\ Covers(second[j], x)
  BY <1>1, NarrowerMeets, Zenon
<1> HIDE DEF p
<1>3. r \in Seq(Ranges) /\ Apart(r) /\ \A a \in DOMAIN r : Allowed(second, r[a])
  BY Zenon DEF Meets
<1>4. /\ s \in Seq(Ranges) /\ Apart(s)
      /\ \A x \in Ranges : Allowed(s, x) <=> Allowed(r, x) \/ Covers(p, x)
      /\ \A a \in DOMAIN s : s[a] = p \/ \E b \in DOMAIN r : s[a] = r[b]
  BY <1>2, <1>3, RangeAdded, Zenon
<1> HIDE DEF s
<1>5. Allowed(second, p)
  BY <1>1, <1>2, Zenon DEF Allowed
<1>6. \A a \in DOMAIN s : Allowed(second, s[a])
  BY <1>3, <1>4, <1>5, Zenon
<1>7. s \in Meets(second)
  BY <1>4, <1>6, Zenon DEF Meets
<1> QED BY <1>2, <1>4, <1>7, Zenon DEF s, p

\* WithLeft is the inner loop of the intersection.
LEMMA WithLeftLoop ==
  ASSUME NEW second \in Seq(Ranges), NEW r \in Meets(second), NEW left \in Ranges
  PROVE  LET g == WithLeft(r, left, second) IN
         /\ g \in [0..Len(second) -> Meets(second)]
         /\ g[0] = r
         /\ \A j \in 1..Len(second) :
              g[j] = IF Overlaps(left, second[j]) THEN AddRange(g[j - 1], Narrower(left, second[j]))
                     ELSE g[j - 1]
<1> DEFINE Q == Meets(second)
           n == Len(second)
           Turn(q, j) == IF Overlaps(left, second[j]) THEN AddRange(q, Narrower(left, second[j]))
                         ELSE q
           Step == [j \in 1..n |-> [q \in Q |-> Turn(q, j)]]
           IsLoop(f) == f = [j \in 0..n |-> IF j = 0 THEN r ELSE
                               IF Overlaps(left, second[j])
                                 THEN AddRange(f[j - 1], Narrower(left, second[j])) ELSE f[j - 1]]
<1>1. n \in Nat /\ r \in Q
  OBVIOUS
<1>2. \A j \in 1..n, q \in Q : Turn(q, j) \in Q
  BY RightTaken, Zenon
<1> HIDE DEF Q
<1>3. Step \in Steps(n, Q) /\ \A k \in 1..n, q \in Q : Step[k][q] = Turn(q, k)
  <2> HIDE DEF Turn
  <2> QED BY <1>2, Zenon DEF Steps
<1> HIDE DEF Step, n
<1>4. PICK f : f \in [0..n -> Q] /\ f[0] = r /\ \A k \in 1..n : f[k] = Step[k][f[k - 1]]
  <2>1. Results(n, Q, r, Step) # {}
    BY <1>1, <1>3, Looped, Zenon
  <2> QED BY <2>1, Zenon DEF Results
<1>5. IsLoop(f)
  <2>1. ASSUME NEW k \in 1..n PROVE f[k] = Turn(f[k - 1], k)
    <3>1. k - 1 \in 0..n
      BY <1>1
    <3>2. f[k - 1] \in Q /\ f[k] = Step[k][f[k - 1]]
      BY <1>4, <3>1, Zenon
    <3> HIDE DEF Turn
    <3> QED BY <1>3, <3>2, Zenon
  <2>2. \A k \in 0..n : k = 0 \/ k \in 1..n
    BY <1>1
  <2> QED BY <1>4, <2>1, <2>2, ZenonT(60)
<1>6. WithLeft(r, left, second) = CHOOSE g : IsLoop(g)
  BY Zenon DEF WithLeft, n
<1>7. IsLoop(WithLeft(r, left, second))
  <2> HIDE DEF IsLoop
  <2> QED BY <1>5, <1>6, Zenon
<1> DEFINE g == WithLeft(r, left, second)
<1>8. /\ g = [k \in 0..n |-> g[k]] /\ g[0] = r
      /\ \A k \in 1..n : g[k] = Turn(g[k - 1], k)
  <2> HIDE DEF g
  <2>1. IsLoop(g)
    BY <1>7, Zenon DEF g
  <2>2. \A k \in 1..n : k \in 0..n /\ k # 0
    BY <1>1
  <2>3. 0 \in 0..n
    BY <1>1
  <2>4. g = [k \in 0..n |-> g[k]]
    BY <2>1, Zenon
  <2> QED BY <2>1, <2>2, <2>3, <2>4, Zenon
<1> HIDE DEF g, IsLoop
<1>9. \A k \in 0..n : g[k] \in Q
  <2> HIDE DEF Turn
  <2> DEFINE K == {k \in 0..n : g[k] \in Q}
  <2>1. 0 \in K
    BY <1>1, <1>8
  <2>2. ASSUME NEW k \in 1..n, k - 1 \in K PROVE k \in K
    <3>1. g[k - 1] \in Q /\ k \in 0..n
      BY <1>1, <2>2
    <3> QED BY <1>2, <1>8, <3>1, Zenon
  <2>3. 0..n \subseteq K
    <3> HIDE DEF K
    <3> QED BY <1>1, <2>1, <2>2, LoopKeeps, Zenon
  <2> QED BY <2>3, Zenon
<1>10. g \in [0..n -> Q]
  BY <1>8, <1>9, Zenon
<1> QED BY <1>8, <1>10, ZenonT(30) DEF Q, n, g

\* One turn of the outer loop adds what the range on the left shares with those on the right.
LEMMA LeftTaken ==
  ASSUME NEW second \in Seq(Ranges), NEW r \in Meets(second), NEW left \in Ranges
  PROVE  LET s == WithLeft(r, left, second)[Len(second)] IN
         /\ s \in Meets(second)
         /\ \A x \in Ranges :
              Allowed(s, x) <=> Allowed(r, x) \/ (Covers(left, x) /\ Allowed(second, x))
<1> DEFINE g == WithLeft(r, left, second)
           n == Len(second)
           Shared(j, x) == \E i \in 1..j : Covers(left, x) /\ Covers(second[i], x)
           Holds(j) == \A x \in Ranges : Allowed(g[j], x) <=> Allowed(r, x) \/ Shared(j, x)
           K == {j \in 0..n : Holds(j)}
<1>1. /\ g \in [0..n -> Meets(second)] /\ g[0] = r
      /\ \A j \in 1..n :
           g[j] = IF Overlaps(left, second[j]) THEN AddRange(g[j - 1], Narrower(left, second[j]))
                  ELSE g[j - 1]
  BY WithLeftLoop, Zenon
<1>2. n \in Nat /\ DOMAIN second = 1..n /\ \A j \in 1..n : second[j] \in Ranges
  OBVIOUS
<1> HIDE DEF g
<1>3. 0 \in K
  <2>1. \A x : ~ Shared(0, x)
    OBVIOUS
  <2> HIDE DEF Shared
  <2> QED BY <1>1, <1>2, <2>1
<1>4. ASSUME NEW j \in 1..n, j - 1 \in K PROVE j \in K
  <2>1. g[j - 1] \in Meets(second) /\ Holds(j - 1)
    BY <1>1, <1>2, <1>4, Zenon
  <2>2. j \in 0..n /\ 1..j = 1..(j - 1) \cup {j}
    BY <1>2
  <2>3. \A x : Shared(j, x) <=> Shared(j - 1, x) \/ (Covers(left, x) /\ Covers(second[j], x))
    BY <2>2, Zenon
  <2> HIDE DEF Shared
  <2>4. CASE Overlaps(left, second[j])
    <3>1. g[j] = AddRange(g[j - 1], Narrower(left, second[j]))
      BY <1>1, <2>4, ZenonT(60)
    <3> DEFINE s == AddRange(g[j - 1], Narrower(left, second[j]))
    <3>2. \A x \in Ranges :
            Allowed(s, x) <=> Allowed(g[j - 1], x) \/ (Covers(left, x) /\ Covers(second[j], x))
      BY <2>1, <2>4, RightTaken, Zenon
    <3> HIDE DEF s
    <3>3. g[j] = s
      BY <3>1, Zenon DEF s
    <3> QED BY <2>1, <2>2, <2>3, <3>2, <3>3, ZenonT(60)
  <2>5. CASE ~ Overlaps(left, second[j])
    <3>1. g[j] = g[j - 1]
      BY <1>1, <2>5, Zenon
    <3>2. \A x \in Ranges : ~ (Covers(left, x) /\ Covers(second[j], x))
      BY <1>2, <2>5, CoversOrder, Zenon
    <3> QED BY <2>1, <2>2, <2>3, <3>1, <3>2, Zenon
  <2> QED BY <2>4, <2>5, ZenonT(60)
<1>5. 0..n \subseteq K
  <2> HIDE DEF K, n
  <2> QED BY <1>2, <1>3, <1>4, LoopKeeps, ZenonT(60)
<1>6. n \in 0..n
  BY <1>2
<1>7. Holds(n) /\ g[n] \in Meets(second)
  BY <1>1, <1>5, <1>6, Zenon
<1>8. \A x : Shared(n, x) <=> Covers(left, x) /\ Allowed(second, x)
  BY <1>2, Zenon DEF Allowed
<1> HIDE DEF Shared
<1> QED BY <1>7, <1>8, ZenonT(60) DEF g, n

\* Intersected is the outer loop of the intersection.
LEMMA IntersectedLoop ==
  ASSUME NEW first \in Seq(Ranges), NEW second \in Seq(Ranges)
  PROVE  LET g == Intersected(first, second) IN
         /\ g \in [0..Len(first) -> Meets(second)]
         /\ g[0] = <<>>
         /\ \A i \in 1..Len(first) : g[i] = WithLeft(g[i - 1], first[i], second)[Len(second)]
<1> DEFINE Q == Meets(second)
           n == Len(first)
           Turn(q, i) == WithLeft(q, first[i], second)[Len(second)]
           Step == [i \in 1..n |-> [q \in Q |-> Turn(q, i)]]
           IsLoop(f) == f = [i \in 0..n |-> IF i = 0 THEN <<>> ELSE
                               WithLeft(f[i - 1], first[i], second)[Len(second)]]
<1>1. n \in Nat /\ <<>> \in Q
  BY DEF Meets, Apart
<1>2. \A i \in 1..n, q \in Q : Turn(q, i) \in Q
  BY LeftTaken
<1> HIDE DEF Q
<1>3. Step \in Steps(n, Q) /\ \A k \in 1..n, q \in Q : Step[k][q] = Turn(q, k)
  <2> HIDE DEF Turn
  <2> QED BY <1>2, Zenon DEF Steps
<1> HIDE DEF Step, n
<1>4. PICK f : f \in [0..n -> Q] /\ f[0] = <<>> /\ \A k \in 1..n : f[k] = Step[k][f[k - 1]]
  <2>1. Results(n, Q, <<>>, Step) # {}
    BY <1>1, <1>3, Looped, Zenon
  <2> QED BY <2>1, Zenon DEF Results
<1>5. IsLoop(f)
  <2>1. ASSUME NEW k \in 1..n PROVE f[k] = Turn(f[k - 1], k)
    <3>1. k - 1 \in 0..n
      BY <1>1
    <3>2. f[k - 1] \in Q /\ f[k] = Step[k][f[k - 1]]
      BY <1>4, <3>1, Zenon
    <3> HIDE DEF Turn
    <3> QED BY <1>3, <3>2, Zenon
  <2>2. \A k \in 0..n : k = 0 \/ k \in 1..n
    BY <1>1
  <2> QED BY <1>4, <2>1, <2>2, ZenonT(60)
<1>6. Intersected(first, second) = CHOOSE g : IsLoop(g)
  BY Zenon DEF Intersected, n
<1>7. IsLoop(Intersected(first, second))
  <2> HIDE DEF IsLoop
  <2> QED BY <1>5, <1>6, Zenon
<1> DEFINE g == Intersected(first, second)
<1>8. /\ g = [k \in 0..n |-> g[k]] /\ g[0] = <<>>
      /\ \A k \in 1..n : g[k] = Turn(g[k - 1], k)
  <2> HIDE DEF g
  <2>1. IsLoop(g)
    BY <1>7, Zenon DEF g
  <2>2. \A k \in 1..n : k \in 0..n /\ k # 0
    BY <1>1
  <2>3. 0 \in 0..n
    BY <1>1
  <2>4. g = [k \in 0..n |-> g[k]]
    BY <2>1, Zenon
  <2> QED BY <2>1, <2>2, <2>3, <2>4, ZenonT(60)
<1> HIDE DEF g, IsLoop
<1>9. \A k \in 0..n : g[k] \in Q
  <2> HIDE DEF Turn
  <2> DEFINE K == {k \in 0..n : g[k] \in Q}
  <2>1. 0 \in K
    BY <1>1, <1>8
  <2>2. ASSUME NEW k \in 1..n, k - 1 \in K PROVE k \in K
    <3>1. g[k - 1] \in Q /\ k \in 0..n
      BY <1>1, <2>2
    <3> QED BY <1>2, <1>8, <3>1, ZenonT(60)
  <2>3. 0..n \subseteq K
    <3> HIDE DEF K
    <3> QED BY <1>1, <2>1, <2>2, LoopKeeps, ZenonT(60)
  <2> QED BY <2>3, Zenon
<1>10. g \in [0..n -> Q]
  BY <1>8, <1>9, Zenon
<1> QED BY <1>8, <1>10, Zenon DEF Q, n, g

\* IntersectPrefixes, for any two lists of ranges: the result holds exactly the addresses (and
\* the ranges) that both lists hold, none of its ranges lies in another one, and each lies in
\* one of the second list.
THEOREM IntersectionExact ==
  ASSUME NEW first \in Seq(Ranges), NEW second \in Seq(Ranges)
  PROVE  LET s == IntersectPrefixes(first, second) IN
         /\ s \in Seq(Ranges)
         /\ \A i, j \in DOMAIN s : Covers(s[i], s[j]) => i = j
         /\ \A i \in DOMAIN s : Allowed(second, s[i])
         /\ \A x \in Ranges : Allowed(s, x) <=> Allowed(first, x) /\ Allowed(second, x)
<1> DEFINE g == Intersected(first, second)
           n == Len(first)
           Shared(j, x) == \E i \in 1..j : Covers(first[i], x) /\ Allowed(second, x)
           Holds(j) == \A x \in Ranges : Allowed(g[j], x) <=> Shared(j, x)
           K == {j \in 0..n : Holds(j)}
<1>1. /\ g \in [0..n -> Meets(second)] /\ g[0] = <<>>
      /\ \A j \in 1..n : g[j] = WithLeft(g[j - 1], first[j], second)[Len(second)]
  BY IntersectedLoop, Zenon
<1>2. n \in Nat /\ DOMAIN first = 1..n /\ \A j \in 1..n : first[j] \in Ranges
  OBVIOUS
<1> HIDE DEF g
<1>3. 0 \in K
  <2>1. \A x : ~ Shared(0, x) /\ ~ Allowed(g[0], x)
    BY <1>1 DEF Allowed
  <2> HIDE DEF Shared
  <2> QED BY <1>2, <2>1, SMTT(60)
<1>4. ASSUME NEW j \in 1..n, j - 1 \in K PROVE j \in K
  <2>1. g[j - 1] \in Meets(second) /\ Holds(j - 1)
    BY <1>1, <1>2, <1>4, Zenon
  <2>2. j \in 0..n /\ 1..j = 1..(j - 1) \cup {j}
    BY <1>2
  <2>3. \A x : Shared(j, x) <=> Shared(j - 1, x) \/ (Covers(first[j], x) /\ Allowed(second, x))
    BY <2>2, Zenon
  <2> HIDE DEF Shared
  <2>4. g[j] = WithLeft(g[j - 1], first[j], second)[Len(second)]
    BY <1>1, Zenon
  <2>5. \A x \in Ranges :
          Allowed(g[j], x) <=> Allowed(g[j - 1], x) \/ (Covers(first[j], x) /\ Allowed(second, x))
    BY <1>2, <2>1, <2>4, LeftTaken, ZenonT(60)
  <2> QED BY <2>1, <2>2, <2>3, <2>5, ZenonT(60)
<1>5. 0..n \subseteq K
  <2> HIDE DEF K, n
  <2> QED BY <1>2, <1>3, <1>4, LoopKeeps, ZenonT(60)
<1>6. n \in 0..n
  BY <1>2, SMTT(60)
<1>7. Holds(n) /\ g[n] \in Meets(second)
  BY <1>1, <1>5, <1>6, Zenon
<1>8. \A x : Shared(n, x) <=> Allowed(first, x) /\ Allowed(second, x)
  BY <1>2, Zenon DEF Allowed
<1>9. IntersectPrefixes(first, second) = g[n]
  BY Zenon DEF IntersectPrefixes, g
<1> HIDE DEF Shared, n
<1> QED BY <1>7, <1>8, <1>9, Zenon DEF Meets, Apart

\* What both ends of a session agreed on.
Agreed(s) ==
  /\ s.serves
  /\ Apart(s.routes)
  /\ \A x \in Ranges : Allowed(s.routes, x) <=> Allowed(s.edge, x) /\ Allowed(s.connector, x)

AgreedInv ==
  /\ DOMAIN session = Envs \cup {Nothing}
  /\ \A e \in DOMAIN session : session[e] # Nothing => Agreed(session[e])

\* The connector accepts what the edge computed.
LEMMA HandshakeKeeps ==
  ASSUME AgreedInv, NEW e, NEW edge \in Seq(Ranges), NEW connector \in Seq(Ranges), NEW suffix,
         Handshake(e, edge, connector, suffix)
  PROVE  AgreedInv'
<1> DEFINE common == IntersectPrefixes(edge, connector)
           serves == ValidateAcceptedRoutes(common, connector)
           new == [edge |-> edge, connector |-> connector, routes |-> common,
                   serves |-> serves, suffix |-> suffix]
<1>1. common # <<>> /\ session' = [session EXCEPT ![e] = new]
  BY ZenonT(60) DEF Handshake
<1>2. /\ common \in Seq(Ranges)
      /\ \A i, j \in DOMAIN common : Covers(common[i], common[j]) => i = j
      /\ \A i \in DOMAIN common : Allowed(connector, common[i])
      /\ \A x \in Ranges : Allowed(common, x) <=> Allowed(edge, x) /\ Allowed(connector, x)
  BY IntersectionExact, Zenon
<1> HIDE DEF common
<1>3. \A i \in DOMAIN common : common[i] \in Ranges
  BY <1>2
<1>4. \A i, j \in DOMAIN common : common[i] = common[j] => i = j
  BY <1>2, <1>3, CoversOrder, Zenon
<1>5. serves
  BY <1>1, <1>2, <1>4, Zenon DEF ValidateAcceptedRoutes
<1> HIDE DEF serves
<1>6. /\ new.serves = serves /\ new.routes = common /\ new.edge = edge /\ new.connector = connector
  BY Zenon
<1> HIDE DEF new
<1>7. Agreed(new)
  BY <1>2, <1>5, <1>6, ZenonT(60) DEF Agreed, Apart
<1> QED BY <1>1, <1>7, Zenon DEF AgreedInv

\* Closing sessions keeps what the others agreed.
LEMMA CloseKeepsAgreed ==
  ASSUME AgreedInv, NEW E, CloseSessions(E)
  PROVE  AgreedInv'
<1>1. /\ DOMAIN session' = DOMAIN session
      /\ \A e \in DOMAIN session : session'[e] = IF e \in E THEN Nothing ELSE session[e]
  BY Zenon DEF CloseSessions
<1> QED BY <1>1, Zenon DEF AgreedInv

\* HandshakeAgrees (authenticate, IntersectPrefixes, ValidateAcceptedRoutes): for any lists of
\* routes, the routes of a session hold exactly the addresses that both ends allow, none of them
\* lies in another, and the connector takes them all.
THEOREM HandshakesAgree == ResolutionSpec => []HandshakeAgrees
<1>1. ResolutionInit => AgreedInv
  BY Zenon DEF ResolutionInit, AgreedInv
<1>2. AgreedInv /\ [ResolutionNext]_resolutionVars => AgreedInv'
  <2> SUFFICES ASSUME AgreedInv, [ResolutionNext]_resolutionVars PROVE AgreedInv'
    BY Zenon
  <2>1. CASE UNCHANGED session
    BY <2>1, Zenon DEF AgreedInv
  <2>2. <<Real>> \in Seq(Ranges) /\ Edges \subseteq Seq(Ranges) /\ Destinations \subseteq Seq(Ranges)
        /\ Narrow \subseteq Seq(Ranges)
    <3>1. Real \in Ranges
      BY PrefixAssumption, Zenon DEF IPv6Prefixes, Ranges
    <3> QED BY <3>1, ListsAssumption
  <2>3. CASE authenticateSingle
    BY <2>2, <2>3, HandshakeKeeps, Zenon DEF authenticateSingle
  <2>4. ASSUME NEW e \in Envs, authenticate(e) PROVE AgreedInv'
    BY <2>2, <2>4, HandshakeKeeps, ZenonT(60) DEF authenticate
  <2>5. CASE refreshDynamic
    BY <2>5, CloseKeepsAgreed, Zenon DEF refreshDynamic
  <2>6. ASSUME NEW e \in DOMAIN session, Disconnect(e) PROVE AgreedInv'
    BY <2>6, CloseKeepsAgreed, Zenon DEF Disconnect
  <2>7. CASE Tick \/ UNCHANGED resolutionVars
    BY <2>1, <2>7, Zenon DEF Tick, resolutionVars
  <2>8. CASE Query \/ Receive \/ \E record \in Records(lookup.name) : Response(record)
    BY <2>1, <2>8, Zenon DEF Query, Receive, Response
  <2>9. CASE \E e \in Envs : Withdraw(e) \/ \E a \in Aliases : Register(e, a)
    BY <2>1, <2>9, Zenon DEF Withdraw, Register
  <2>10. CASE \E a \in Aliases : forwardDNS(<<"db">> \o SuffixOf(a))
    BY <2>1, <2>10, ZenonT(30) DEF forwardDNS
  <2> QED BY <2>3, <2>4, <2>5, <2>6, <2>7, <2>8, <2>9, <2>10, ZenonT(60) DEF ResolutionNext
<1>3. AgreedInv => HandshakeAgrees
  <2>1. ASSUME NEW family \in {4, 6}, NEW bits \in Bits
        PROVE  [family |-> family, bits |-> bits] \in Ranges
    <3> DEFINE n == Len(Real.bits) + Len(ResolverHost)
    <3>1. n \in Nat
      BY PrefixAssumption DEF IPv6Prefixes
    <3>2. bits \in [1..n -> {0, 1}]
      BY <2>1, Zenon DEF Bits
    <3> HIDE DEF n
    <3>3. bits \in Seq({0, 1})
      BY <3>1, <3>2
    <3> QED BY <2>1, <3>3, ZenonT(60) DEF Ranges
  <2> QED BY <2>1, Zenon DEF AgreedInv, Agreed, Apart, HandshakeAgrees
<1> QED
  BY <1>1, <1>2, <1>3, PTL DEF ResolutionSpec
=============================================================================
