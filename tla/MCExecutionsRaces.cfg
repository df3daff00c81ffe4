SPECIFICATION Spec
CONSTANTS
  None = None
  r1 = r1
  p1 = p1
  p2 = p2
  w1 = w1
  w2 = w2
  daily = daily
  SchedKey = "schedule"
  Keys = {"schedule", "manual"}
  Clients = {r1}
  Schedulers = {p1, p2}
  Companies <- MCTwoCompanies
  MaxExecs = 2
  Faults = {"abort", "skip", "death"}
  Schedules = {daily}
  Target <- MCTargetAll
  ApiKeys = {"manual"}
  Workers = {w1, w2}
SYMMETRY MCSymmetry
INVARIANTS
  AtMostOneScheduled
  NoLockCycle
  
  QueuedRowHasJob
PROPERTY
  RefinesLifecycle
