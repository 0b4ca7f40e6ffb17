SPECIFICATION FairSpec
CONSTANTS
  Static = {s}
  Dynamic = {d}
  PrefixOf <- SamePrefix
  Targets = {t1, t2}
  StaticTarget = t1
  Conns = {c1, c2}
  Starts = {1, 2}
  MaxEntries = 3
  None = None
INVARIANTS RoutesUnambiguous FlowsMatchHandshake
PROPERTY DrainedIsClosed
ACTION_CONSTRAINT ConnectByAge
CHECK_DEADLOCK FALSE
