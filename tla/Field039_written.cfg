\* Whether what build039 builds can be written.
SPECIFICATION Spec
CONSTANTS
  Users = {u1, u2}
  None = None
  MaxEdits = 8
INVARIANT BuiltFieldCanBeWritten
CHECK_DEADLOCK FALSE
