SPECIFICATION PartsSpec
CONSTANTS
  Wallet <- Wallets
  NullAddress = "null"
  Tx <- Txs
  TxBody <- TxBodies
  AmountLimit = 8
  SigForkBlock = 4
  TxLists <- Lists
  Ledgers <- Starts
  BlockId = 5
  BlockMiningFee = 2
  Key = {"k"}
  Caller = {1, 2}
  N = 2
  Seconds = 3
  Second = 2
  StoredBlock <- SizedBlocks
  Origin = "g"
  Size <- Sizes
  MaxBlocks = 3
  MaxCrashes = 2
  MaxNow = 8
  MaxUndone = 1
  Addr = {"r", "x"}
  Forwarder = {"x"}
  Handler = {1, 2}
  MaxTime = 3
  Regular = {"r"}
  Offset <- Offsets
  Blacklist = {"y"}
  Whitelist = {}
  Freshness = 3
  PingPeriod = 2
  MaxPeers = 1
  Int32Limit = 4
  ClocksTime = 3
  Fee = 4
  Participants = {1, 2, 3}
  MaxRow = 6
  MaxMined = 40
  HashValue <- Hashed
  Currents = {16, 17, 20, 253, 254}
  Expecteds = {1, 6, 9, 90}
  Backwards = 3
  LastElapsed = 400
  Hashes = {3, 5, 7}
  MaxTxs = 5
  Block <- Blocks
  BlockBody <- Bodies
  NullHash = "none"
  Host = {"p"}
  PerFetch = 2
  CheckPoints <- Points
  PeerChains <- Chains
  MaxChanges = 3
INVARIANTS
  RoundCovered
  DifficultyFits
  RootFixesTransactions
  ZerosAgree
  DeltasExplain
  Restored
  BlocksWhole
  RateBounded
  RacesBounded
  KeepsPingers
  NetworkTimeMirrored
  HashesLinked
PROPERTY
  NeverShrinks
\* The computations end after one step, and the parts stop at their bounds.
CHECK_DEADLOCK FALSE
