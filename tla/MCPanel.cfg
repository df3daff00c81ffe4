SPECIFICATION PanelSpec
CHECK_DEADLOCK FALSE
CONSTANTS
  t1 = t1
  t2 = t2
  Tabs = {t1, t2}
  MaxBusy = 2
  MaxCalls = 2
  Faults = {"network", "close"}
  ScheduleUsers = {"u1", "u2"}
  Crons = {"daily", "weekly"}
  First <- MCFirst
  Last <- MCLast
  Calendar <- MCCalendar
  Exprs <- MCExprs
  Filters = {"all", "x"}
  NoFilter = "all"
  PageSizes = {1, 2}
  MaxRows = 2
  MaxSaved = 1
  MaxCompanies = 1
  MaxLosses = 1
  Me = "me"
  CredOthers = {"other"}
  Process <- MCProcess
  MaxUploads = 2
  MaxReads = 0
  CredFaults = {"storage"}
  CompOthers = {"other"}
  Cnpjs = {"a", "b"}
  Cap = {1}
  CompFaults = {"network"}
  PageTabs <- MCPageTabs
  PageWrites = 2
  PageFaults = {"network"}
  OccOthers = {}
  OccWrites = 2
  OccFaults = {}
SYMMETRY MCSymmetry
INVARIANTS
  PanelTypeOK
  CookieWorks
  SessionRenews
  PanelSerialWritesAreCoherent
  PanelEditKeepsRuns
  
  PanelCelebratedMeansCollected
  PanelActiveHasBlob
  PanelEditIsShown

  
