SPECIFICATION Spec
CONSTANTS
  Solutions = {s1}
  Sound = {s1}
  Gaps <- SwingingGaps
  InitialDifficulty = 3
  MaxDifficulty = 40
  RetargetInterval = 2
  TargetBlockTime = 4
  SnapshotInterval = 2
  SnapshotRetention = 2
  MaxBlocks = 7
  MaxHeight = 4
  LIMBS = 2
  LimbSize = 64
INVARIANTS
  StateIsReplay
  StoreIsSound
  RevealsAreFresh
  TipIsHeaviest
  IndexEndsAtTip
  RetargetFollowsPace
  WorkIsEffort
PROPERTIES
  ImplementsForkChoice
  ReopenRestores
