SPECIFICATION FairSpec
CONSTANTS
  Prefixes = {p, q}
  StaticRoutes = {}
  AllowedRoutes = {real}
  MaxGens = 4
  MaxFailures = 1
  MaxRestarts = 1
INVARIANTS AppliedIsInForce ReadyIsInForce
PROPERTY Converges
CHECK_DEADLOCK FALSE
