SPECIFICATION Spec
CONSTANTS
  x1 = x1
  x2 = x2
  b1 = b1
  b2 = b2
  Exports = {x1}
  Builders = {b1, b2}
  MaxUploads = 2
  Faults = {"build"}
CHECK_DEADLOCK FALSE
INVARIANT FailedBuildIsMarked
