CONSTANTS
  Nil = Nil
  MaxAge = 2
  Specs <- BoundsSpecs
  Portraits <- BoundsPortraits
  ByHand = {}
  Troubles <- BoundsTroubles
SPECIFICATION Spec
INVARIANTS WithinBounds
CHECK_DEADLOCK FALSE
