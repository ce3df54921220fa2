SPECIFICATION Spec
CONSTANTS
  alice = alice
  bob = bob
  Address = {alice, bob}
  Premine <- MCPremine
  SupplyCap <- MCSupplyCap
  InitialReward <- MCInitialReward
  HalvingInterval <- MCHalvingInterval
  EPOCHS = 8
  MaxBlockTxs = 2
  Roots <- MCRoots
  SoundRoots <- MCSoundRoots
  Amounts = {0, 2}
  Fees = {1}
  MaxNonce = 1
  MaxHeight = 5
  N_LOG2 = 2
  P = 5
  CHALLENGE_ROWS = 2
  Xof <- MCXof
  BASE = 2
  DECIMALS = 2
  WIDTH = 4
  Refused = Refused
INVARIANTS
  TypeOK
  Conserved
  ExecutedOnce
  OnlyTipIsPending
  RewardsPaidInFull
  WrongRowsDecide
  OnlyCommittedRowsOpen
  WireKeepsAmounts
PROPERTIES
  ImplementsSupply
