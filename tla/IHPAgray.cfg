CONSTANTS
  Nil = Nil
  MaxAge = 2
  Specs <- GraySpecs
  Portraits <- GrayPortraits
  ByHand = {}
  Troubles <- GrayTroubles
SPECIFICATION RestSpec
PROPERTIES GrayPace ObservedBeforeGivenUp SettlesUndisturbed
CHECK_DEADLOCK FALSE
