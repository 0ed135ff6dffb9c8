SPECIFICATION Spec
CONSTANTS
  EnvFrames = {1, 2}
  Faults = {"record", "wait", "collect", "signal", "syncwait"}
  ZeroCopy = FALSE
  MaxRuns = 5
  MaxRecords = 1
INVARIANTS
  DeliveredInOrder
PROPERTIES
  CallsReturn
\* The caller may stop calling, and a destroyed model stays destroyed.
CHECK_DEADLOCK FALSE
