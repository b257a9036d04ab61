CONSTANTS
  Nil = Nil
  MaxAge = 2
  Specs <- ZeroSpecs
  Portraits <- ZeroPortraits
  ByHand = {}
  Troubles <- CalmTroubles
SPECIFICATION RestSpec
PROPERTIES GrayPace
CHECK_DEADLOCK FALSE
