\* All calls on maps of up to 4 entries, no null key.
SPECIFICATION Spec
CONSTANTS
  k1 = k1  k2 = k2  v1 = v1  v2 = v2
  Keys = {k1, k2}
  Values = {v1, v2}
  NullKey = NullKey
  None = None
  Throws = Throws
  DEFAULT_LENGTH = 4
  Indices <- MCIndices
  Sources <- MCSources
  MaxLength = 4
  MaxUnion = 4
INVARIANTS TypeOK RoomForInsert NoStaleSlots Packed
PROPERTY ImplementsMultimap
