SPECIFICATION FairSpec
CONSTANTS
  Sessions = {s1, s2}
  FlowIDs = {f1}
  Peers = {p1, p2}
  Sockets = {k1, k2}
  MaxUDPFlows = 1
  ReconnectMin = 10
  ReconnectMax = 15
  None = None
INVARIANT FlowsAgree
PROPERTIES SocketsReleased NeverGivesUp
CHECK_DEADLOCK FALSE
