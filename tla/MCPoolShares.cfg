SPECIFICATION Spec
CONSTANTS
  m1 = m1
  s1 = s1
  s2 = s2
  s3 = s3
  Miner = {m1}
  Share = {s1, s2, s3}
  FinderOf <- FirstFindsAll
  Winning = {s1, s3}
  MAX_STRIKES = 1
  PplnsWindow = 2
  CACHE_SIZE = 2
  NoReply = NoReply
  FoundByLimit = 1
  FoundByCut = 1
  Late = Late
  MaxTips = 1
  MaxFaults = 1
INVARIANTS
  StrikesAreExplained
  SharesCountOnce
PROPERTY
  BlockIsRevealed
