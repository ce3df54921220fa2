SPECIFICATION Spec
CONSTANTS
  m1 = m1
  s1 = s1
  s2 = s2
  s3 = s3
  Miner = {m1}
  Share = {s1, s2, s3}
  FinderOf <- FirstFindsAll
  Winning = {s1, s3}
  MAX_STRIKES = 3
  PplnsWindow = 2
  CACHE_SIZE = 4
  NoReply = NoReply
  FoundByLimit = 3
  FoundByCut = 1
  Late = Late
  MaxTips = 1
  MaxFaults = 0
INVARIANT
  StrikesMeanWrongRows
