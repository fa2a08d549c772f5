SPECIFICATION Spec
CONSTANTS
  t1 = t1
  t2 = t2
  o1 = o1
  o2 = o2
  Thread = {t1, t2}
  NoThread = NoThread
  Object = {o1, o2}
  Null = Null
  Refs = {o1, o2}
  Calls = {"Construct", "PutField", "AAStore", "Use", "Container"}
  AddrSpace = 13
  MaxArgs = 1
  MaxCalls = 1
SYMMETRY Symmetry
INVARIANTS
  EnvBeforeUse
  RecordsNameTheirObjects
  NoStaleNegative
  AllocatedBeforeUse
PROPERTIES
  TagsAreStable
CHECK_DEADLOCK FALSE
