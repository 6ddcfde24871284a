\* Two servers, three troubles of any kind; both callers.
SPECIFICATION FairSpec
CONSTANTS
  Callers <- Both
  Servers <- TwoServers
  WaitTime = 1
  MaxRetry = 2
  LeaseTime = 2
  MaxTrouble = 3
INVARIANT LeaseHeld
PROPERTY GetsAddress
CHECK_DEADLOCK FALSE
