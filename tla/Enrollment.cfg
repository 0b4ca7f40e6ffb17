SPECIFICATION FairSpec
CONSTANTS
  MaxKeys = 3
  MaxRequests = 9
  MaxTime = 4
  MaxFaults = 2
  MaxRevokes = 1
  LeaseTime = 2
  None = None
INVARIANT VolumeHoldsUsableKey
PROPERTY EventuallyRuns
CHECK_DEADLOCK FALSE
