CONSTANTS
  Nil = Nil
  MaxAge = 2
  Specs <- GraySpecs
  Portraits <- GrayPortraits
  ByHand = {}
  Troubles <- FailTroubles
SPECIFICATION RestSpec
PROPERTIES GrayPace
CHECK_DEADLOCK FALSE
