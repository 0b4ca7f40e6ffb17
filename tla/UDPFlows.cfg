SPECIFICATION FairSpec
CONSTANTS
  Sessions = {s1, s2}
  Clients = {c1}
  Tasks = {t1, t2}
  MaxFlowID = 2
  MaxUDPFlows = 2
  DNSFlowMax = 1
  None = None
INVARIANT TablesAgree
PROPERTY EndedFlowsVanish
CHECK_DEADLOCK FALSE
