--------------------------- MODULE MCEdgeSessions ---------------------------
(* Small instances of EdgeSessions for TLC.                                *)
EXTENDS EdgeSessions, TLC

\* Every connector has the same prefix: at most one static and one dynamic connector, the
\* second being the migrated first.
SamePrefix == [k \in Connectors |-> "fd40"]

Rank ==
  CHOOSE f \in [Conns -> 1..Cardinality(Conns)] : \A c, d \in Conns : f[c] = f[d] => c = d

\* Connections are of processes of different ages, numbered by age: their names do not matter.
\* Nobody has to connect, so this keeps no fair step from being taken.
ConnectByAge ==
  \A c, d \in Conns : Rank[c] < Rank[d] /\ pc'[c] # "none" /\ pc'[d] # "none" =>
    conn'[c].started < conn'[d].started

ConnSymmetry == Permutations(Conns)
=============================================================================
