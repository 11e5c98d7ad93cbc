CONSTANTS
  r1 = r1
  r2 = r2
  a = a
  b = b
  Run = {r1, r2}
  Files = 2
  Texts = {a, b}
  None = None
  Absent = Absent
  Partial = Partial
  Orphans = TRUE
  MaxWrites = 1
  MaxFaults = 1
  Built <- OneBuilt
  States <- OneState
SPECIFICATION Spec
SYMMETRY Symmetry
INVARIANTS
  PreparedIsStart
PROPERTIES
  CaptureWasThere
  RecordsStay
