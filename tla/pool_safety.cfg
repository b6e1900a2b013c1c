SPECIFICATION Spec
CONSTANTS
  Runner = {r1, r2}
  Machine = {m1, m2, m3, m4, m5, m6}
  NoMachine = NoMachine
  IdleTarget = 1
  MaxConcurrency = 2
  MaxFaults = 1
  MaxThrows = 1
  MaxLeft = 1
  Word = 65536
SYMMETRY Symmetry
INVARIANTS CountersExact SlotsBounded LiveBounded MachineExclusive LeftAtExit
PROPERTIES LeaseRefined ExecutorRefined
