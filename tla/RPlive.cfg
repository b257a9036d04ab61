CONSTANTS
  MaxPods = 2
  InitReplicas = 2
  Specs <- LiveSpecs
  WorkloadKind = "StatefulSet"
  Troubles <- LiveTroubles
SPECIFICATION Spec
PROPERTIES EventuallyConverged
CHECK_DEADLOCK FALSE
