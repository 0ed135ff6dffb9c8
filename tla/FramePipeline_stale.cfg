SPECIFICATION Spec
CONSTANTS
  EnvFrames = {2}
  Faults = {}
  ZeroCopy = FALSE
  MaxRuns = 3
  MaxRecords = 1
INVARIANTS
  ResultIsOfItsFrame
\* The caller may stop calling, and a destroyed model stays destroyed.
CHECK_DEADLOCK FALSE
