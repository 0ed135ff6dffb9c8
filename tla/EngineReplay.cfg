SPECIFICATION FairSpec
CONSTANTS
  Programs <- MCReplayPrograms
  Alignment = 4
  ReuseSlots = TRUE
  ReuseGap = 0
  ReuseExact = FALSE
  EnableBranch = TRUE
  MaxCalls = 2
  MaxFaults = 1
INVARIANTS KernelsReadTheirInputs KernelsFindTheirPages TransitionsStartRight EngineIsAccepted PlanIsRecordable
PROPERTIES RefinesReplay CallsReturn AllFramesRun
CHECK_DEADLOCK FALSE
