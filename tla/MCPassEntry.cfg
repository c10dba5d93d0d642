CONSTANTS
  a = a
  b = b
  Char = {a}
  NoResult = NoResult
  MaxKeys = 3
  MaxClicks = 2
SPECIFICATION FairSpec
CHECK_DEADLOCK FALSE
INVARIANTS TypeOK CancelHonoured ConfirmedEqual StarsShown FocusAgrees CloseUnderWay
PROPERTIES DialogSpec CancelEnds
