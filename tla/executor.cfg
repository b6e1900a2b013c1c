SPECIFICATION FairSpec
CONSTANTS
  Task = {t1, t2, t3}
  Worker = {f1, w1, w2, w3}
  Fixed = {f1}
  NoTask = NoTask
  NoWorker = NoWorker
  MaxThreads = 2
  MaxStops = 2
  MaxFaults = 1
  Cancels = TRUE
PROPERTIES CountsRefined TaskStarts StopReturns
INVARIANTS BusyWithinWorkers NoSelfJoin QueueCovered TaskOnce
