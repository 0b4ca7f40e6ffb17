SPECIFICATION RunSpec
CONSTANTS
  RouteSets = {a, b}
  MaxRestarts = 2
  Absent = Absent
INVARIANTS OneRulePerFamily HealthyMeansServing ReturnedMeansGone
PROPERTY RunReturns
CHECK_DEADLOCK FALSE
