SPECIFICATION Spec
CONSTANTS
  t1 = t1
  t2 = t2
  o1 = o1
  o2 = o2
  Thread = {t1, t2}
  NoThread = NoThread
  Object = {o1, o2}
  Null = Null
  Refs = {o1, o2, Null}
  Calls = {"Container"}
  AddrSpace = 13
  MaxArgs = 1
  MaxCalls = 1
SYMMETRY Symmetry
INVARIANTS
  NullIsZero
CHECK_DEADLOCK FALSE
