SPECIFICATION LoopSpec
CONSTANTS
  p = p
  q = q
  Place = {p, q}
  MaxIndex = 2
  MaxRows = 5
  MaxGroups = 2
  MinLoop = 1
INVARIANTS
  MergesMaximalLoops
  CountsFusableLoops
CHECK_DEADLOCK FALSE
