SPECIFICATION Spec
CONSTANTS
  EnvFrames = {0, 1}
  Faults = {"collect"}
  ZeroCopy = TRUE
  MaxRuns = 5
  MaxRecords = 1
INVARIANTS
  ResultIsOfItsFrame
PROPERTIES
  UploadStableWhileRead
  RefinesDataStream
\* The caller may stop calling, and a destroyed model stays destroyed.
CHECK_DEADLOCK FALSE
