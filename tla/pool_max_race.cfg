SPECIFICATION Spec
CONSTANTS
  Runner = {r1, r2}
  Machine = {m1, m2, m3, m4}
  NoMachine = NoMachine
  IdleTarget = 1
  MaxConcurrency = 2
  MaxFaults = 0
  MaxThrows = 0
  MaxLeft = 0
  Word = 65536
INVARIANT LiveWithinMax
