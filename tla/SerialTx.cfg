SPECIFICATION TxSpec
CONSTANTS
  TxCap = 5
  TxLens <- LensFit
  Overlap = FALSE
INVARIANTS Faithful DriverOn
PROPERTY Released
