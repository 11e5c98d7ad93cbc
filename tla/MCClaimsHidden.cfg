CONSTANTS
  Name = {"cap", "dst", "res"}
  Ledger = "claims.json"
  None = None
  Broken = Broken
  Uncaught = Uncaught
  Check = {"search", "parcel"}
  Directories <- MCBroken
SPECIFICATION Spec
PROPERTIES FailureNeverDecays
