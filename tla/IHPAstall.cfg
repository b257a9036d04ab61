CONSTANTS
  Nil = Nil
  MaxAge = 2
  Specs <- StallSpecs
  Portraits <- GrayPortraits
  ByHand = {}
  Troubles <- CalmTroubles
SPECIFICATION RestSpec
PROPERTIES EventuallySettled
CHECK_DEADLOCK FALSE
