SPECIFICATION FileSpec
CONSTANTS
  Size = 3
  AddrWord = {2, 3}
  Buffer = 3
  MaxRecords = 7
INVARIANTS
  ReplacedUpTo
  RowsRight
PROPERTIES
  TransformEnds
CHECK_DEADLOCK FALSE
