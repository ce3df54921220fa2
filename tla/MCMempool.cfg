SPECIFICATION Spec
CONSTANTS
  alice = alice
  bob = bob
  Address = {alice, bob}
  Funds <- MCFunds
  Miners = {bob}
  hash <- MCHash
  Amounts = {1}
  Fees = {1, 2, 3}
  MaxNonce = 2
  MAX_POOL_SIZE = 3
  NonceGap = 1
  Passes = 2
  MaxBlockTxs = 3
  MaxPeerTxs = 1
  MaxSuffix = 1
  MaxHeight = 2
INVARIANTS
  TypeOK
  OwnBatchApplies
  BatchHasItsRoot
  BatchIsExhaustive
  IncludedLeaves
PROPERTY OnlyUsedNoncesLeave
