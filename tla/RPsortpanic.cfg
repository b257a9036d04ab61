CONSTANTS
  MaxPods = 2
  InitReplicas = 2
  Specs <- LiveSpecs
  WorkloadKind = "ReplicaSet"
  Troubles <- GrayTroubles
SPECIFICATION Spec
PROPERTIES EventuallyConverged
CHECK_DEADLOCK FALSE
