CONSTANTS
  MaxPods = 3
  InitReplicas = 3
  Specs <- GraySpecs
  WorkloadKind = "StatefulSet"
  Troubles <- GrayTroubles
SPECIFICATION Spec
INVARIANTS TypeOK
PROPERTIES TrafficBeforeLabel
CHECK_DEADLOCK FALSE
