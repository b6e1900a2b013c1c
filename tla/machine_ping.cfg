SPECIFICATION FairSpec
CONSTANTS
  MaxFaults = 0
  Timeout = 2
  MaxTime = 3
PROPERTY PingEnds
