\* Whether objects and XML convert both ways, for documents with one title in the
\* Instance.
SPECIFICATION Spec
CONSTANTS
  Null = Null
  Documents <- TitledDocuments
INVARIANT BothWays
