SPECIFICATION RateSpec
CONSTANTS
  Key = {"k"}
  Caller = {1}
  N = 30
  Seconds = 5
  Second = 2
  MaxNow = 9
INVARIANT
  MaxOverPeriod
CHECK_DEADLOCK FALSE
