CONSTANTS
  Nil = Nil
  MaxAge = 2
  Specs <- GraySpecs
  Portraits <- GrayPortraits
  ByHand = {}
  Troubles <- RestartTroubles
SPECIFICATION RestSpec
PROPERTIES EventuallySettled
CHECK_DEADLOCK FALSE
