SPECIFICATION Spec
CONSTANTS
  Envs = {e1}
  Keys = {k1}
  Prefixes = {1}
  Pool = {1}
  Aliases = {a1}
  Sources = {s1}
  ReqIds = {r1}
  Tokens = {t1, t2}
  None = None
  ProjectOf <- OneProject
  LeaseFor <- ShortLease
  TokenExp <- LongTokens
  StaticConfig <- NoStatic
  PendingTTL = 1
  Quarantine = 1
  Overlap = 1
  MaxProjectPending = 2
  MaxSourcePending = 2
  MaxTime = 2
  MaxGens = 3
INVARIANT FreePrefixAssignable
SYMMETRY MCSymmetry
CHECK_DEADLOCK FALSE
