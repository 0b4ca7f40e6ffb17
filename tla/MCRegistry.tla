----------------------------- MODULE MCRegistry -----------------------------
(* Small instances of Registry for TLC.                                    *)
EXTENDS Registry, TLC

\* All environments belong to one project, so that they share its pending limit.
OneProject == [e \in Envs |-> "project"]
ShortLease == [e \in Envs |-> 1]
LongTokens == [t \in Tokens |-> MaxTime + 1]
ShortTokens == [t \in Tokens |-> 2]

NoStatic == {}
\* One environment has a static connector, on either prefix.
StaticEnv == CHOOSE e \in Envs : TRUE
StaticAny == {StaticEnv} \X Prefixes

\* Steps of the allocation instance: sessions and route reconciliation, which neither
\* read nor write an allocation, are left to the other instances.
AllocationSteps == UNCHANGED <<recon, auth>>

MCSymmetry == Permutations(Keys) \cup Permutations(ReqIds) \cup Permutations(Tokens)
=============================================================================
