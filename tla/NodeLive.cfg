SPECIFICATION LiveSpec
CONSTANTS
  Wallet <- Wallets
  NullAddress = "null"
  Tx <- Txs
  TxBody <- TxBodies
  Block <- FewBlocks
  BlockBody <- FewBlockBodies
  Genesis = "g"
  NullHash = "none"
  AmountLimit = 1000
  SigForkBlock = 100
  Lookback = 10
  BlockTime = 10
  MedianSpan = 10
  FutureLimit = 7
  MaxTransactions = 3
  ChainOffset = 2
  EraEnds <- Eras
  EraFees <- Fees
  Adder = {"s", "u"}
  Starter = "s"
  Writer = {"m"}
  Syncer = "sync"
  None = "no"
  Now = 0
  Offered = {"t1"}
  MaxRequests = 2
  MaxSubmits = 1
  MaxSyncs = 1
CHECK_DEADLOCK FALSE
PROPERTIES
  RequestsEnd
