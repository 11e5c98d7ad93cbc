CONSTANTS
  r1 = r1
  r2 = r2
  a = a
  b = b
  Run = {r1, r2}
  Files = 1
  Texts = {a, b}
  None = None
  Absent = Absent
  Partial = Partial
  Nobody = Nobody
  Orphans = FALSE
  MaxWrites = 1
  MaxFaults = 1
  Control = FALSE
  Built <- OneBuilt
SPECIFICATION Spec
SYMMETRY Symmetry
INVARIANTS
  TypeOK
  EvidenceKept
  OneRunsFiles
PROPERTIES
  Retention
CHECK_DEADLOCK FALSE
