\* Maps in which a key may be null; putAll of such maps and of the map itself,
\* through two resizes.
SPECIFICATION Spec
CONSTANTS
  k1 = k1  k2 = NullKey  v1 = v1  v2 = v2
  NullKey = NullKey
  Keys = {k1, NullKey}
  Values = {v1, v2}
  None = None
  Throws = Throws
  DEFAULT_LENGTH = 4
  Indices = {0, 1, 5}
  Sources <- MCSources
  MaxLength = 4
  MaxUnion = 7
INVARIANT PutAllInOrder
PROPERTIES PutAllReturns PrefixSurvives LossIsReported
