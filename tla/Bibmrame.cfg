\* Two conversions within two milliseconds.
SPECIFICATION Spec
CONSTANTS
  t1 = t1  t2 = t2
  Callers = {t1, t2}
  Parts <- MCParts
  Output = 2
  Messages = 2
  PipeSize = 1
  Nil = Nil
  MaxClock = 1
INVARIANTS TypeOK OwnOutputUnlessSameName LeftBehind
PROPERTY CallReturns
CHECK_DEADLOCK FALSE
