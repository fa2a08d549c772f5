SPECIFICATION Spec
CONSTANTS
  a = a
  b = b
  c = c
  Str = {a, b, c}
  IdSpace = 2
  Half = 1
  Limit = 1
  MaxAdds = 3
  MaxThreads = 2
SYMMETRY StrSymmetry
INVARIANTS
  NumbersSurvive
  IdsResolve
  TablesComplete
CHECK_DEADLOCK FALSE
