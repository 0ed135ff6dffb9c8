SPECIFICATION Spec
CONSTANTS
  Buffers <- MCBuffers
  Spare = {8}
  Width = 2
  Args <- MCViewArgs
  Copied = {4}
  Dropped = {2}
  Viewed = {3}
  Depths = {1, 3}
  Ring = 2
  MaxCalls = 2
  Careful = TRUE
INVARIANT
  MemoryIsSequential
\* A caller that has used up its calls may stop.
CHECK_DEADLOCK FALSE
