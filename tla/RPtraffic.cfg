CONSTANTS
  MaxPods = 2
  InitReplicas = 2
  Specs <- LiveSpecs
  WorkloadKind = "StatefulSet"
  Troubles <- GrayTroubles
SPECIFICATION Spec
INVARIANTS TrafficFollowsState
CHECK_DEADLOCK FALSE
