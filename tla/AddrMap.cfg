SPECIFICATION Spec
CONSTANTS
  o1 = o1
  o2 = o2
  Object = {o1, o2}
  HeapAddress = {101, 102}
  Tag = {2, 3}
  NewFiles = 2
  GcFiles = 2
  Nowhere = Nowhere
  GC_MASK = 1000
  Epoch = 1000
  MaxMoves = 2
  MaxEvents = 1
  MaxRuns = 3
SYMMETRY Symmetry
INVARIANTS
  ResolvedRight
  KilledLosesOnly
  NewIdsAgree
CHECK_DEADLOCK FALSE
