CONSTANTS
  MaxPods = 3
  InitReplicas = 3
  Specs <- DirectionSpecs
  WorkloadKind = "StatefulSet"
  Troubles <- EvictionTroubles
SPECIFICATION Spec
PROPERTIES ScaleRespectsDirection
CHECK_DEADLOCK FALSE
