SPECIFICATION FairSpec
CONSTANTS
  Runner = {r1}
  Machine = {m1}
  Task = {t1}
  Nobody = Nobody
  NoTask = NoTask
  MaxFaults = 2
  MaxLost = 2
INVARIANTS StartedOnWholeFiles HandlesReturned VerdictAgrees
PROPERTIES OnlyCommandHolds RunnerRefined
