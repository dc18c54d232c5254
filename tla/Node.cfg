SPECIFICATION Spec
CONSTANTS
  Wallet <- Wallets
  NullAddress = "null"
  Tx <- Txs
  TxBody <- TxBodies
  Block <- Blocks
  BlockBody <- BlockBodies
  Genesis = "g"
  NullHash = "none"
  AmountLimit = 1000
  SigForkBlock = 100
  Lookback = 10
  BlockTime = 10
  MedianSpan = 10
  FutureLimit = 7
  MaxTransactions = 3
  ChainOffset = 2
  EraEnds <- Eras
  EraFees <- Fees
  Adder = {"s", "u"}
  Starter = "s"
  Writer = {"m"}
  Syncer = "sync"
  None = "no"
  Now = 0
  Offered = {"t1", "t2", "t3", "f"}
  MaxRequests = 3
  MaxSubmits = 2
  MaxSyncs = 1
CHECK_DEADLOCK FALSE
INVARIANTS
  StuckOnlyKnown
  
PROPERTY
  ImplementsBlockChain
