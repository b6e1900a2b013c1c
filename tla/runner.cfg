SPECIFICATION FairSpec
CONSTANTS
  Runner = {r1, r2}
  Machine = {m1, m2}
  Nobody = Nobody
  Limit = 2
  Task = {t1, t2}
  NoTask = NoTask
  MaxLost = 1
INVARIANTS ListenOnlyWhenReady AssignedAccounted
PROPERTIES FreshMachine SettledOrDropped RunnersExit
