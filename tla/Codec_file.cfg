\* Files of up to two records of two fields, by any of the three writers.
SPECIFICATION Spec
CONSTANTS
  Bodies <- AllBodies
  Utf8 <- Utf8Width
  Gbk <- GbkWidth
  Replaced = "?"
  Lossy = {"hangul"}
  ControlTags = {1}
  DataTags = {245}
  MaxPad = 1
  MaxLen = 4
  MaxStart = 4
  MaxTotal = 31
  MaxFields = 2
  MaxFile = 2
INVARIANTS TypeOK ReadBack ThrowsOnlyIfUnsound RewriteIsStable
