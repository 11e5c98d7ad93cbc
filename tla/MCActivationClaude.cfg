CONSTANTS
  None = None
  Empty = Empty
  Blank = Blank
  t1 = t1
  t2 = t2
  h1 = h1
  h2 = h2
  agents = agents
  override = override
  claude = claude
  ruleA = ruleA
  ruleB = ruleB
  Texts = {t1, t2}
  Helper = {h1, h2}
  Host = "claude-code"
  Primary = claude
  Others <- ClaudeOthers
  Conditional = {ruleB}
  Commands <- AllCommands
  Saves <- RuleSaves
  Modes = {"0600"}
  Private = "0600"
  Faults = {"sigkill"}
  MaxEdits = 0
  MaxFaults = 1
SPECIFICATION OneActionSpec
SYMMETRY Symmetry
INVARIANTS
  RunsSettle
PROPERTIES
  InstallKeepsConfigured
