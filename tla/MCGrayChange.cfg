CONSTANTS
  Nil = Nil
  MaxAge = 2
  MaxReplicas = 5
  Percents = {7, 30, 50, 100}
SPECIFICATION Spec
INVARIANTS TypeOK
PROPERTIES NeverTurnsBack StepByStep KeptUntilObserved ComesToAnEnd
