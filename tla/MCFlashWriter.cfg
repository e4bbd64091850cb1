SPECIFICATION Spec
CONSTANTS
  PageCount = 3
  PageSize = 2
  bit = bit
  Bits = {bit}
  Writers <- flashchips
  OldImages <- ChipBefore
  Images <- ToWrite
  Exclusions <- PageRanges
INVARIANTS
  CompletePages
  NoStaleBits
  FailureProgramsNothing
  OnePageAtRisk
  ProtectedAgain
PROPERTIES
  UntouchedOutsideSpan
  Terminates
CHECK_DEADLOCK FALSE
