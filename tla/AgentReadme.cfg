SPECIFICATION Spec
CONSTANTS
  a = a
  b = b
  c = c
  main = main
  t1 = t1
  Thread = {main, t1}
  Main = main
  Class = {a, b, c}
  NoClass = NoClass
  NameOf <- NameOfClass
  Skipped = {b}
  Plain = {a}
  Options = {"null"}
  HasCandidates = FALSE
  ServerMayDie = FALSE
  MaxFailed = 1
INVARIANTS
  StartsWithoutOptions
CHECK_DEADLOCK FALSE
