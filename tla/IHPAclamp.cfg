CONSTANTS
  Nil = Nil
  MaxAge = 2
  Specs <- ClampSpecs
  Portraits <- ClampPortraits
  ByHand = {}
  Troubles <- CalmTroubles
SPECIFICATION RestSpec
PROPERTIES ObservedBeforeGivenUp
CHECK_DEADLOCK FALSE
