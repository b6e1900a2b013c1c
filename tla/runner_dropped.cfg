SPECIFICATION FairSpec
CONSTANTS
  Runner = {r1, r2}
  Machine = {m1, m2}
  Nobody = Nobody
  Limit = 2
  Task = {t1}
  NoTask = NoTask
  MaxLost = 0
PROPERTY AssignedIsSettled
