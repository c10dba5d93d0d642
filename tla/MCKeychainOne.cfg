CONSTANTS
  p1 = p1
  p2 = p2
  k1 = k1
  k2 = k2
  None = None
  Proc = {p1}
  Key = {k1, k2}
  Encrypted = {k1}
  Blank = {}
  UnlockTime <- AnyUnlockTime
  Blockchain = {"array", "bitshares"}
  TicksPerSec = 1
  SecMod = "mac"
  ClockSteps = {1}
  MaxTime = 2
  MaxCommands = 3
SPECIFICATION Spec
CHECK_DEADLOCK FALSE
INVARIANTS CachedByPassword SignedByPassword LogMatchesAnswer CancelRefuses
PROPERTY AuthoritySpec
