SPECIFICATION FairSpec
CONSTANTS
  MaxFaults = 2
  Timeout = 2
  MaxTime = 3
INVARIANTS NothingLeft NewsOutOfTime
PROPERTIES AgentWaitEnds SignalEnds
