CONSTANTS
  Fee = 4
  Nil = Nil
  RoundBlocks = 1
  PayoutDelay = 1
  ShareValues = {1}
  MaxNotify = 1
  Addresses = {"a"}
  Balances = {6}
  Faults = {"payout", "mining", "vm", "db", "nodes"}
  MaxHeight = 4
  MaxShares = 1
  MaxFaults = 2
SPECIFICATION FairSpec
INVARIANTS
  TypeOK
  RoundAmounts
  RoundsSettled
  BroadcastSaved
  OnlyLastRoundOpen
  PaidOnce
PROPERTIES
  SharesFrozen
  LedgerSpec
  RoundsGetPaid
\* The chain stops at its bound.
CHECK_DEADLOCK FALSE
