CONSTANTS
  Nil = Nil
  MaxAge = 1
  Specs <- PreviewSpecs
  Portraits <- GrayPortraits
  ByHand = {}
  Troubles <- PreviewTroubles
SPECIFICATION Spec
PROPERTIES EventuallySettled
CHECK_DEADLOCK FALSE
