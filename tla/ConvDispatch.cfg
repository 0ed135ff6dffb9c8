SPECIFICATION RecorderSpec
CONSTANTS
  Settings <- MCSettings
  Devices <- MCDevices
INVARIANTS
  ComputesTheConvolution
  ReadsWhatIsBound
  OnlyFailuresRefuse
PROPERTY FallbacksGoForward
\* A recording ends.
CHECK_DEADLOCK FALSE
