CONSTANTS
  Pod = {1, 2, 3, 4}
  Rank <- MCRank
  MaxReplicas = 3
SPECIFICATION Spec
INVARIANTS GreedyFill EachPodPlacedOnce WorkloadDeletesTheRightPods SettlesSoon
CHECK_DEADLOCK FALSE
