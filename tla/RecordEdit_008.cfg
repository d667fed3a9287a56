\* Whether refreshing the 008 keeps its elements in place.
SPECIFICATION Spec
CONSTANTS
  Records = {r1, r2}
  With008 = {r1}
  Tags = {t039, t245}
  T039 = t039
  Contents = {c1, c2}
  Wrong = Wrong
  Nil = Nil
  Positions = {0, 2}
  MaxArguments = 2
  MaxFields = 2
  MaxLength = 2
  MaxHead = 7
INVARIANT RestStaysInPlace
