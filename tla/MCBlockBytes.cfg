CONSTANTS
  None = None
  Empty = Empty
  Blank = Blank
  t1 = t1
  Texts = {t1}
  Refused = Refused
  MaxLen = 5
SPECIFICATION Spec
INVARIANTS
  RoundTrip
  Commutes
  OtherBytesKept
