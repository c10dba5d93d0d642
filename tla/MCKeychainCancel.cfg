CONSTANTS
  p1 = p1
  p2 = p2
  k1 = k1
  k2 = k2
  None = None
  Proc = {p1}
  Key = {k1}
  Encrypted = {k1}
  Blank = {}
  UnlockTime = {0, 1}
  Blockchain = {"array", "bitshares"}
  TicksPerSec = 2
  SecMod = "linux"
  ClockSteps = {}
  MaxTime = 4
  MaxCommands = 3
SPECIFICATION Spec
CHECK_DEADLOCK FALSE
INVARIANT SignatureConfirmed
