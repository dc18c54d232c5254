CONSTANTS
  Wallet <- Wallets
  NullAddress = "null"
  Tx <- Txs
  TxBody <- TxBodies
  Block <- Blocks
  BlockBody <- BlockBodies
  Genesis = "g"
  NullHash = "none"
  AmountLimit = 1000
  SigForkBlock = 4
  Lookback = 1
  BlockTime = 10
  MedianSpan = 2
  FutureLimit = 7
  MaxTransactions = 4
  ChainOffset = 2
  EraEnds <- Eras
  EraFees <- Fees
  Now = 40
  Host = {"p"}
  Peers <- OnePeer
  PerFetch = 3
  PerBlockFetch = 2
  CheckPoints <- Points
  SpecialBlocks <- Points
  PeerChains <- FewChains
  MaxChanges = 1
  MaxSubmits = 1
  MaxRestarts = 1
SPECIFICATION LiveSpec
PROPERTIES
  NodeFollows
