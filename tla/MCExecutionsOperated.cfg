SPECIFICATION FairSpec
CONSTANTS
  None = None
  r1 = r1
  p1 = p1
  p2 = p2
  w1 = w1
  w2 = w2
  daily = daily
  SchedKey = "schedule"
  Keys = {"schedule", "manual"}
  Clients = {}
  Schedulers = {p1, p2}
  Companies <- MCOneCompany
  MaxExecs = 2
  Faults = {"ambiguous", "requeue", "abandon", "revoke"}
  Schedules = {daily}
  Target <- MCTargetAll
  ApiKeys = {"manual"}
  Workers = {w1, w2}
INVARIANT
  OneJobPerExecution
PROPERTIES
  CommittedJobFinishes
  DueScheduleIsServed
  TickEnds
