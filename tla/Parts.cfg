SPECIFICATION PartsSpec
CONSTANTS
  Count = 3
  MaxFailures = 3
  Calls = {c1, c2}
  Kids = {k1}
  MaxAges = {1, 5}
  Hour = 3
  Minute = 2
  Timeout = 1
  Horizon = 3
  None = None
  Envs = {"e1", "e2"}
  Aliases = {a1, a2}
  Real <- MCReal
  Virtual <- MCVirtual
  Hosts <- MCHosts
  ResolverHost <- MCResolver
  Public <- MCPublic
  Edges <- MCLists
  Destinations <- MCLists
  Narrow <- MCNarrow
  TTLs = {3}
  MaxTTL = 1
  Patience = 1
  LastTime = 3
  Nothing = Nothing
SYMMETRY Symmetry
INVARIANTS AllOrNothing VerifiedKeyIsRecent HandshakeAgrees AnswerReachesAsked AnswerUsable MovedAliasFollowed
PROPERTIES ForeignKept RefusedKeyIsCached
CHECK_DEADLOCK FALSE
