SPECIFICATION Spec
CONSTANTS
  Graphs <- MCGraphs
  Batches = {2}
  MaxRuns = 2
  alignment = 16
INVARIANTS
  RunsComputeTheGraph
  InferredSpecsHold
PROPERTIES
  OnlyWaitingValuesCollide
\* A session may be left open.
CHECK_DEADLOCK FALSE
