CONSTANTS
  MaxPods = 2
  InitReplicas = 2
  Specs <- ModeSpecs
  WorkloadKind = "StatefulSet"
  Troubles <- ModeTroubles
SPECIFICATION Spec
INVARIANTS ServingFloor
PROPERTIES DirectionRespected
CHECK_DEADLOCK FALSE
