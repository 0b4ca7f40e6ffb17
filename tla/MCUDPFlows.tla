---------------------------- MODULE MCUDPFlows ------------------------------
(* Small instances of UDPFlows for TLC.                                    *)
EXTENDS UDPFlows, TLC

FlowSymmetry == Permutations(Sessions) \cup Permutations(Clients) \cup Permutations(Tasks)
=============================================================================
