CONSTANTS
  Nil = Nil
  MaxAge = 2
  Specs <- TwiceSpecs
  Portraits <- MidwayPortraits
  ByHand = {}
  Troubles <- TwiceTroubles
SPECIFICATION HighSpec
PROPERTIES ObservedBeforeGivenUp
CHECK_DEADLOCK FALSE
