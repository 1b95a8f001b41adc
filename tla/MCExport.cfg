\* Does a successful export mean that the document is written?
CONSTANTS
  MaxPieces = 3
  Buffer = 2
SPECIFICATION Spec
INVARIANT SuccessMeansWritten
CHECK_DEADLOCK FALSE
