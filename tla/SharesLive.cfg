CONSTANTS
  Nil = Nil
  c1 = c1
  c2 = c2
  n1 = n1
  Conns = {c1, c2}
  Nonces = {n1}
  Solving = {n1}
  Faults = {"mining", "backend", "timeout"}
  MaxHeight = 1
  MaxBatches = 1
  MaxCredits = 1
  MaxFaults = 1
SPECIFICATION FairSpec
INVARIANT AcceptedIsCredited
PROPERTY SubmissionsEnd
CHECK_DEADLOCK FALSE
