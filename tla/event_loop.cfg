SPECIFICATION FairSpec
CONSTANTS
  User = {u1, u2, u3}
  Loop = {l1, l2}
  NoLoop = NoLoop
  NoUser = NoUser
  MaxFaults = 2
INVARIANTS NeverAborts SharedLoopRuns
PROPERTY DestroyReturns
