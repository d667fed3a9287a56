\* Up to three JVMs in two places.
SPECIFICATION Spec
CONSTANTS
  j1 = j1  j2 = j2  v1 = v1  v2 = v2
  JVMs = {j1, j2}
  Version <- MCVersion
  Count = 2
  Size <- MCSize
  Nil = Nil
  MaxLoads = 3
INVARIANTS TypeOK MissingHasCause WholeUnlessTorn OwnVersion
PROPERTY Settles
CHECK_DEADLOCK FALSE
