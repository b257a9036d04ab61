CONSTANTS
  MaxPods = 2
  InitReplicas = 2
  Specs <- TotalSpecs
  WorkloadKind = "StatefulSet"
  Troubles <- EditTroubles
SPECIFICATION Spec
PROPERTIES EventuallyConverged
CHECK_DEADLOCK FALSE
