CONSTANTS
  p1 = p1
  p2 = p2
  k1 = k1
  k2 = k2
  None = None
  Proc = {p1}
  Key = {k1, k2}
  Encrypted = {k1, k2}
  Blank = {k1}
  UnlockTime = {0, 1}
  Blockchain = {"array", "bitshares"}
  TicksPerSec = 1
  SecMod = "dummy"
  ClockSteps = {}
  MaxTime = 2
  MaxCommands = 3
SPECIFICATION FairSpec
CHECK_DEADLOCK FALSE
INVARIANT SignedByPassword
PROPERTIES AuthoritySpec CommandAnswered
