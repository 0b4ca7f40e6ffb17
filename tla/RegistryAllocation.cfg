SPECIFICATION Spec
CONSTANTS
  Envs = {e1, e2}
  Keys = {k1}
  Prefixes = {1, 2}
  Pool = {1}
  Aliases = {a1, a2}
  Sources = {s1}
  ReqIds = {r1, r2}
  Tokens = {t1, t2, t3}
  None = None
  ProjectOf <- OneProject
  LeaseFor <- ShortLease
  TokenExp <- LongTokens
  StaticConfig <- StaticAny
  PendingTTL = 1
  Quarantine = 1
  Overlap = 1
  MaxProjectPending = 2
  MaxSourcePending = 2
  MaxTime = 2
  MaxGens = 3
INVARIANTS NewestGenerationCurrent
PROPERTY QuarantineRespected
ACTION_CONSTRAINT AllocationSteps
SYMMETRY MCSymmetry
CHECK_DEADLOCK FALSE
