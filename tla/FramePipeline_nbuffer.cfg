SPECIFICATION Spec
CONSTANTS
  EnvFrames = {2, 3, 9}
  Faults = {"record", "wait", "collect"}
  ZeroCopy = FALSE
  MaxRuns = 5
  MaxRecords = 3
INVARIANTS
  AtMostOneFrameOnGpu
  NothingReleasedInUse
PROPERTIES
  ReadbackStableWhenCollected
  OnlyKnownDrops
  RefinesOrderedStream
\* The caller may stop calling, and a destroyed model stays destroyed.
CHECK_DEADLOCK FALSE
