SPECIFICATION Spec
CONSTANTS
  Threads = {1, 2}
  Buffers <- MCBuffers
  Graphs <- MCGraphs
  Dispatches <- MCDispatches
  Uses <- MCUses
  Width = 1
  Lengths = {1}
  FailingWaits = {"fill", "kernel", "read"}
  MaxCalls = 3
  Apart = TRUE
INVARIANTS
  ListsRunClean
\* Callers may stop calling.
CHECK_DEADLOCK FALSE
