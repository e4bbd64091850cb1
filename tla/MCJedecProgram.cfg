SPECIFICATION Spec
CONSTANTS
  PageSize = 4
  low = low  high = high
  Bits = {low, high}
  MAX_REFLASH_TRIES = 2
  Sources <- ToWrite
  Before <- Held
INVARIANTS
  ZeroMeansWritten
  Outcome
  FailureIsReal
CHECK_DEADLOCK FALSE
