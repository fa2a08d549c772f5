SPECIFICATION FairSpec
CONSTANTS
  a = a
  b = b
  c = c
  main = main
  t1 = t1
  Thread = {main, t1}
  Main = main
  Class = {a, b, c}
  NoClass = NoClass
  NameOf <- NameOfClass
  Skipped = {b}
  Plain = {a}
  Options = {"base", "value", "other", "null"}
  HasCandidates = FALSE
  ServerMayDie = TRUE
  MaxFailed = 1
INVARIANTS
  InstrumentedUnlessRaced
  AskedOncePerName
  AbortsForCause
PROPERTIES
  HooksReturn
CHECK_DEADLOCK FALSE
