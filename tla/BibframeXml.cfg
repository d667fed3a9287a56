\* Documents with a Work of up to two elements.
SPECIFICATION Spec
CONSTANTS
  Null = Null
  Documents <- MCDocuments
INVARIANTS TypeOK AllOrNothing  
