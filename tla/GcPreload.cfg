SPECIFICATION Spec
CONSTANTS
  w1 = w1
  w2 = w2
  p1 = p1
  Worker = {w1, w2}
  Program = {p1}
  StreamRoom = 1
  Epoch = 100
  MaxGcs = 3
  MaxMoves = 2
SYMMETRY Symmetry
INVARIANTS
  TypeOK
  EveryMoveRecorded
  EventsEncloseMoves
  StraysOverlap
  EventLossBounded
CHECK_DEADLOCK FALSE
