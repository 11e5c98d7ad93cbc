CONSTANTS
  None = None
  Empty = Empty
  Blank = Blank
  t1 = t1
  t2 = t2
  h1 = h1
  h2 = h2
  agents = agents
  override = override
  claude = claude
  ruleA = ruleA
  ruleB = ruleB
  Texts = {t1, t2}
  Helper = {h1}
  Host = "codex"
  Primary = agents
  Others <- CodexOthers
  Conditional = {}
  Commands <- Install1
  Saves <- PlainSaves
  Modes = {"0600"}
  Private = "0600"
  Faults = {"oserror", "sigterm", "sigkill"}
  MaxEdits = 2
  MaxFaults = 2
SPECIFICATION FairSpec
PROPERTIES
  EventuallyInstalled
