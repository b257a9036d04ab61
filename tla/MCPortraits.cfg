CONSTANTS
  Nil = Nil
  PortraitTypes = {"P"}
  Specs <- MCSpecs
  Datas <- MCDatas
  Period = 3
  Horizon = 4
  Troubles <- MCTroubles
SPECIFICATION Spec
INVARIANTS FollowsTheClock RemovedPortraitsGo NoStrayTriggers
PROPERTIES EventuallyInStep
CHECK_DEADLOCK FALSE
