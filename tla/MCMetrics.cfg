CONSTANTS
  Nil = Nil
  Ranges <- MCRanges
  MaxPoints = 2
  Providers = {"prometheus", "metrics-api"}
  SeriesSets <- MCSeriesSets
  Matches <- MCMatches
  ObjectNamers <- MCObjectNamers
  ExternalNamers <- MCExternalNamers
  SelectedBy <- MCSelectedBy
  OwnedBy <- MCOwnedBy
  Usage <- MCUsage
  Ready <- MCReady
  Requests <- MCRequests
  MetricsTroubles <- MCMetricsTroubles
  MetricLists <- MCMetricLists
  TargetSelector = "web"
  Mappings <- MCMappings
  Scales = {2}
  Proposals = {0, 2}
SPECIFICATION Spec
INVARIANTS EachStepOnce WithinLimit NobodyBlocks RangeAnswerWhole AnswersTheQuery NoneIgnored
PROPERTIES ListedAsItWas EventuallyListed EveryQueryAnswered
CHECK_DEADLOCK FALSE
