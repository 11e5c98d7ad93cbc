CONSTANTS
  Plans <- MCPlans
  MaxVersion = 4
  None = None
SPECIFICATION Spec
INVARIANTS TypeOK ReleasedWasValidated VersionsIncrease SiteIsOfARelease
CHECK_DEADLOCK FALSE
