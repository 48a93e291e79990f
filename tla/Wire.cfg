\* Packets of every kind, whole and cut off anywhere.
SPECIFICATION Spec
CONSTANTS
  Message <- Messages
  ReadOrder <- Orders
INVARIANTS PutsKept LengthExact ReadsAsSent CutNoticed
CHECK_DEADLOCK FALSE
