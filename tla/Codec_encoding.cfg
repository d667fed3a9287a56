\* The claim of the README, for files without blanks at the end.
SPECIFICATION Spec
CONSTANTS
  Bodies <- TwoBodies
  Utf8 <- TwoUtf8
  Gbk <- TwoGbk
  Replaced = "?"
  Lossy = {}
  ControlTags = {1}
  DataTags = {245}
  MaxPad = 0
  MaxLen = 4
  MaxStart = 4
  MaxTotal = 31
  MaxFields = 2
  MaxFile = 2
INVARIANT EncodingRecognised
