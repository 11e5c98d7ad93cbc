CONSTANTS
  r1 = r1
  r2 = r2
  a = a
  b = b
  Run = {r1}
  Files = 2
  Texts = {a, b}
  None = None
  Absent = Absent
  Partial = Partial
  Nobody = Nobody
  Orphans = FALSE
  MaxWrites = 3
  MaxFaults = 2
  Control = TRUE
  Built <- OneBuilt
SPECIFICATION FairSpec
INVARIANTS
  CaptureIsFinal
  CompletedByItself
PROPERTIES
  RunEnds
CHECK_DEADLOCK FALSE
