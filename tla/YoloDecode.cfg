SPECIFICATION Spec
CONSTANTS
  conf_threshold = 25
  iou_threshold = 40
  max_candidates = 3
  max_detections = 2
  Heads <- MCHeads
  Asked <- MCAsked
  MaxFrames = 2
INVARIANTS
  AgreesWithCpu
PROPERTIES
  RefinesDetections
\* The caller may stop calling.
CHECK_DEADLOCK FALSE
