---------------------------- MODULE MCConnector -----------------------------
(* Small instances of Connector for TLC.                                   *)
EXTENDS Connector, TLC

ConnectorSymmetry ==
  Permutations(Sessions) \cup Permutations(FlowIDs) \cup Permutations(Peers)
    \cup Permutations(Sockets)
=============================================================================
