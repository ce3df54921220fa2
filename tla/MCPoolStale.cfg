SPECIFICATION Spec
CONSTANTS
  m1 = m1
  m2 = m2
  Miner = {m1, m2}
  Windows <- UnevenWindow
  FeePercent = 10
  MinPayout = 3
  PayoutFee = 1
  MAX_PAYOUTS_PER_ROUND = 1
  SAVE_EVERY = 2
  RewardAt <- SteadyReward
  FeesAt <- NoFees
  Settled = {1, 2}
  NoFile = NoFile
  NoCopy = NoCopy
  MaxHeight = 3
  MaxCrashes = 0
  MaxLostReplies = 0
INVARIANT
  FileKeepsUp
