SPECIFICATION Spec
CONSTANTS
  t1 = t1
  t2 = t2
  t3 = t3
  Thread = {t1, t2, t3}
  Tid = {1, 2}
  NoTid = 0
  NoThread = NoThread
  Kind = {"NEW", "Use"}
  Limit = 2
  MaxAdds = 4
SYMMETRY ThreadSymmetry
INVARIANTS
  TypeOK
  FilesArePrefixes
  ExitedIsComplete
  LossBounded
PROPERTIES
  FilesOnlyGrow
  ImplementsTraceLog
CHECK_DEADLOCK FALSE
