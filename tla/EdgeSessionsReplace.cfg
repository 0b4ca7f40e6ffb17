SPECIFICATION Spec
CONSTANTS
  Static = {}
  Dynamic = {d}
  PrefixOf <- SamePrefix
  Targets = {t1}
  StaticTarget = t1
  Conns = {c1, c2, c3}
  Starts = {1, 2, 3}
  MaxEntries = 1
  None = None
INVARIANTS ReplacedSessionsEnd RoutedIsReported
SYMMETRY ConnSymmetry
CHECK_DEADLOCK FALSE
