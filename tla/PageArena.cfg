SPECIFICATION Spec
CONSTANTS
  Tasks <- MCTasks
  Alignment = 4
  ReuseSlots = TRUE
  ReuseGap = 1
  ReuseExact = FALSE
INVARIANTS NeighboursApart LivesApart TypedPages
CHECK_DEADLOCK FALSE
