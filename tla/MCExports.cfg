SPECIFICATION FairSpec
CONSTANTS
  x1 = x1
  x2 = x2
  b1 = b1
  b2 = b2
  Exports = {x1, x2}
  Builders = {b1, b2}
  MaxUploads = 2
  Faults = {"ambiguous", "abort", "build", "death", "requeue"}
CHECK_DEADLOCK FALSE
INVARIANTS
  OpenExportIsRecoverable
  FilesMatchReady
  NotifiedOnce
PROPERTIES
  RefinesLifecycle
  ExportFinishes
