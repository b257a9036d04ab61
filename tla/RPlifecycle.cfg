CONSTANTS
  MaxPods = 1
  InitReplicas = 0
  Specs <- LifecycleSpecs
  WorkloadKind = "ReplicaSet"
  Troubles <- LifecycleTroubles
SPECIFICATION Spec
INVARIANTS SelectorCacheOwned FinalizerInv ReportsLatestSpec
PROPERTIES ScaleNotOverwritten
CHECK_DEADLOCK FALSE
