CONSTANTS
  Nil = Nil
  c1 = c1
  c2 = c2
  n1 = n1
  Conns = {c1, c2}
  Nonces = {n1}
  Solving = {}
  Faults = {"mining", "timeout"}
  MaxHeight = 2
  MaxBatches = 1
  MaxCredits = 2
  MaxFaults = 1
SPECIFICATION Spec
SYMMETRY Symmetry
INVARIANT CreditedOnce
INVARIANT MiningKnowsBlock
INVARIANT NoStaleWork
CHECK_DEADLOCK FALSE
