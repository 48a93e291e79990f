\* Messages of this encoder, and messages of any peer, read by this decoder.
SPECIFICATION Spec
CONSTANTS
  MaxNumber = 6
  MaxLength = 5
  MaxRecords = 2
  MaxRange = 3
  Word = 16
  CountWord = 8
INVARIANTS RecordsExact NothingInvented DecodeBounded
CHECK_DEADLOCK FALSE
