SPECIFICATION Spec
CHECK_DEADLOCK FALSE
CONSTANTS
  Others = {"other"}
  MaxWrites = 2
  Faults = {"access"}
PROPERTY
  ResolvedStaysResolved
