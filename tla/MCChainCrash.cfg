SPECIFICATION CrashSpec
CONSTANTS
  Solutions = {s1}
  Sound = {}
  Gaps <- SteadyGaps
  InitialDifficulty = 2
  MaxDifficulty = 63
  RetargetInterval <- NoRetarget
  TargetBlockTime = 4
  SnapshotInterval = 2
  SnapshotRetention = 2
  MaxBlocks = 6
  MaxHeight = 4
INVARIANTS
  RecoveredStateIsReplay
  TornStoreIsSound
  OnlyTornBlocksOutweigh
PROPERTIES
  TipNeverRetreats
