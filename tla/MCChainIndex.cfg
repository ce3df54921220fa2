SPECIFICATION Spec
CONSTANTS
  Solutions = {s1}
  Sound = {s1}
  Gaps <- SteadyGaps
  InitialDifficulty = 2
  MaxDifficulty = 63
  RetargetInterval <- NoRetarget
  TargetBlockTime = 4
  SnapshotInterval = 2
  SnapshotRetention = 2
  MaxBlocks = 8
  MaxHeight = 4
  LIMBS = 2
  LimbSize = 64
INVARIANT
  IndexIsTipBranch
