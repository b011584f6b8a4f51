SPECIFICATION SwitchSpec
CONSTANTS
  Clicks = {d1, d2, d3}
  Runs = {r1, r2}
SYMMETRY ActorSymmetry
INVARIANT AuditTellsTheState
PROPERTY StopReachesEveryRun
CHECK_DEADLOCK FALSE
