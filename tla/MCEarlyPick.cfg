SPECIFICATION Spec
CONSTANTS
  None = None
  r1 = r1
  p1 = p1
  p2 = p2
  w1 = w1
  w2 = w2
  daily = daily
  SchedKey = "schedule"
  Keys = {"schedule", "manual"}
  Clients = {r1}
  Schedulers = {p1}
  Companies <- MCOneCompany
  MaxExecs = 2
  Faults = {}
  Schedules = {daily}
  Target <- MCTargetAll
  ApiKeys = {"manual"}
  Workers = {w1}
INVARIANT ReturnedJobLeavesNoQueuedRow
