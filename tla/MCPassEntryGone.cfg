CONSTANTS
  a = a
  b = b
  Char = {a}
  NoResult = NoResult
  MaxKeys = 0
  MaxClicks = 1
SPECIFICATION Spec
CHECK_DEADLOCK FALSE
INVARIANT KeyboardsBack
