SPECIFICATION Spec
CONSTANTS
  Present <- Machines
  InitialValues <- Values
  StuckBits <- Resistant
  Pokes <- Flips
  MaxPokes = 1
INVARIANTS
  ResultIsTrue
  ForeignBitsKept
  ConfigurationLeft
CHECK_DEADLOCK FALSE
