SPECIFICATION FairSpec
CONSTANTS
  Envs = {e1}
  Keys = {k1, k2}
  Prefixes = {1}
  Pool = {1}
  Aliases = {a1}
  Sources = {s1}
  ReqIds = {r1, r2}
  Tokens = {t1, t2}
  None = None
  ProjectOf <- OneProject
  LeaseFor <- ShortLease
  TokenExp <- ShortTokens
  StaticConfig <- NoStatic
  PendingTTL = 1
  Quarantine = 1
  Overlap = 1
  MaxProjectPending = 2
  MaxSourcePending = 2
  MaxTime = 3
  MaxGens = 4
INVARIANTS OnePendingPerEnvironment WithdrawnAdmitsNobody LiveHasActiveKey TokenChangesOnce
PROPERTIES ImplementsLedger ElapsedLeaseWithdrawn
CHECK_DEADLOCK FALSE
