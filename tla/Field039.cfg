\* Up to eight edits by two users.
SPECIFICATION Spec
CONSTANTS
  Users = {u1, u2}
  None = None
  MaxEdits = 8
INVARIANTS TypeOK CreatorKept NewestFirst PairsMatch CompleteThroughThreeUpdates
PROPERTY BrokenStaysBroken
CHECK_DEADLOCK FALSE
