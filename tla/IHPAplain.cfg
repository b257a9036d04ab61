CONSTANTS
  Nil = Nil
  MaxAge = 0
  Specs <- PlainSpecs
  Portraits <- PlainPortraits
  ByHand = {2}
  Troubles <- PlainTroubles
SPECIFICATION Spec
INVARIANTS ReportsLatestSpec
PROPERTIES EventuallySettledAtOnce
CHECK_DEADLOCK FALSE
