CONSTANTS
  Name = {"cap", "dst", "res"}
  Ledger = "claims.json"
  None = None
  Broken = Broken
  Uncaught = Uncaught
  Check = {"search", "parcel"}
  Directories <- MCDirectories
SPECIFICATION Spec
INVARIANTS RowsAreShown
PROPERTIES NothingHidden DecidedStands NeverAborts
