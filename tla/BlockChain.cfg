SPECIFICATION Spec
CONSTANTS
  Wallet <- Wallets
  NullAddress = "null"
  TxBody <- TxBodies
  BlockBody <- BlockBodies
  Genesis = "g"
  NullHash = "none"
  AmountLimit = 1000
  SigForkBlock = 4
  Lookback = 2
  BlockTime = 10
  MedianSpan = 2
  FutureLimit = 7
  MaxTransactions = 4
  ChainOffset = 2
  EraEnds <- Eras
  EraFees <- Fees
  NetworkTimes <- Times
  Tx <- Txs
  Block <- Blocks
  MaxCrashes = 1
INVARIANTS
  ChainLinked
  WorkOfChain
  StateOfChain
  VerdictsAgree
PROPERTY
  ImplementsLinkedChain
