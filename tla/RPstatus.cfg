CONSTANTS
  MaxPods = 2
  InitReplicas = 2
  Specs <- LiveSpecs
  WorkloadKind = "StatefulSet"
  Troubles <- EvictionTroubles
SPECIFICATION Spec
INVARIANTS StatusIsCurrent
CHECK_DEADLOCK FALSE
