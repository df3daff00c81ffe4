SPECIFICATION WaitingSpec
CHECK_DEADLOCK FALSE
CONSTANTS
  t1 = t1
  t2 = t2
  Tabs = {t1, t2}
  MaxBusy = 1
  MaxCalls = 2
  Faults = {}
  ItemStatus <- MCItemStatus
  PageSize = 1
  FormCompanies = {"c1"}
  FormRenewals = 1
  MaxChanges = 1
  PollTimeout = 2
  MaxExports = 2
  FilesRenewals = 1
  MaxFailures = 1
INVARIANTS
  WaitingSelectionIsOfFilter
PROPERTIES
  TabsFollowCookie
  WaitingFinalStatusIsShown
  WaitingFormSettles
  WaitingEndedExportIsShown
