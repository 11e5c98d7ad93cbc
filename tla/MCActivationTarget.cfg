CONSTANTS
  None = None
  Empty = Empty
  Blank = Blank
  t1 = t1
  t2 = t2
  h1 = h1
  h2 = h2
  agents = agents
  override = override
  claude = claude
  ruleA = ruleA
  ruleB = ruleB
  Texts = {t1, t2}
  Helper = {h1, h2}
  Host = "target"
  Primary = agents
  Others <- NoOthers
  Conditional = {}
  Commands <- BothActions
  Saves <- RaceSaves
  Modes = {"0600", "0644"}
  Private = "0600"
  Faults = {"oserror", "sigterm", "sigkill"}
  MaxEdits = 2
  MaxFaults = 1
SPECIFICATION Spec
SYMMETRY Symmetry
INVARIANTS
  TypeOK
  OwnerKept
  PlanStaysCurrent
PROPERTIES
  StagedRemoved
  ModeKept
  AtomicPublish
