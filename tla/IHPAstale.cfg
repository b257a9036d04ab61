CONSTANTS
  Nil = Nil
  MaxAge = 2
  Specs <- TwiceSpecs
  Portraits <- GrayPortraits
  ByHand = {}
  Troubles <- TwiceTroubles
SPECIFICATION RestSpec
PROPERTIES ObservedBeforeGivenUp
CHECK_DEADLOCK FALSE
