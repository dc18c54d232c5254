SPECIFICATION ComputationsSpec
CONSTANTS
  Fee = 4
  Participants = {1, 2}
  MaxRow = 20
  MaxMined = 8
  HashValue = {}
INVARIANT
  LossBelowOneLeaf
CHECK_DEADLOCK FALSE
