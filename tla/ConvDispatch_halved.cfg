SPECIFICATION Spec
CONSTANTS
  Settings <- MCBuilt
  Devices <- MCDevices
INVARIANT BuiltPlansAreComplete
CHECK_DEADLOCK FALSE
