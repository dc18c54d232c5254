CONSTANTS
  Nil = Nil
  c1 = c1
  c2 = c2
  n1 = n1
  Conns = {c1, c2}
  Nonces = {n1}
  Solving = {n1}
  Faults = {}
  MaxHeight = 1
  MaxBatches = 0
  MaxCredits = 2
  MaxFaults = 0
SPECIFICATION Spec
SYMMETRY Symmetry
INVARIANT SentVerified
CHECK_DEADLOCK FALSE
