CONSTANTS
  Process = {"hosts", "gate", "other"}
  CheckPy = {"gate", "other"}
  Parent <- MCParent
  Slots = 1
  None = None
  Runner = "hosts"
  Gate = "gate"
  File = {a, b}
  Content = {0, 1}
  First <- MCFirst
  MaxEdits = 2
  Option <- MCOption
SPECIFICATION Spec
INVARIANTS TypeOK WorkIsGranted NoWaitBehindParent ExitAgrees
PROPERTIES PassIsEarned ReceiptIsTrue RunEnds
CHECK_DEADLOCK FALSE
