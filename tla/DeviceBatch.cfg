SPECIFICATION Spec
CONSTANTS
  Buffers <- MCBuffers
  Spare = {8}
  Width = 2
  Args <- MCArgs
  Copied = {2}
  Dropped = {2}
  Viewed = {3}
  Depths = {1, 3}
  Ring = 2
  MaxCalls = 2
  Careful = TRUE
INVARIANTS
  RestInCommon
  OnlyAliasesMisstate
  NothingFreedRuns
  MemoryIsSequential
\* A caller that has used up its calls may stop.
CHECK_DEADLOCK FALSE
