SPECIFICATION Spec
CONSTANTS
  MaxOps = 4
  MaxDepth = 2
  MaxTies = 2
  Limit = 1
INVARIANTS
  OnlyStraysMispair
  EveryPairFound
  RowsAreAMatching
PROPERTIES
  LineInfoNeedsRecord
  PairingTerminates
CHECK_DEADLOCK FALSE
