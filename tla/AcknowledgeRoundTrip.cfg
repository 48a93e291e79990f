\* Does the decoder read all the encoder wrote?
SPECIFICATION Spec
CONSTANTS
  MaxNumber = 4
  MaxLength = 3
  MaxRecords = 0
  MaxRange = 3
  Word = 16
  CountWord = 65536
INVARIANT AllDecoded
CHECK_DEADLOCK FALSE
