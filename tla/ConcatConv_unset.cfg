SPECIFICATION RecorderSpec
CONSTANTS
  Settings <- MCJoined
  Devices <- MCDevices
INVARIANT PipelinesAreMade
CHECK_DEADLOCK FALSE
