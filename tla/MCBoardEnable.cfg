SPECIFICATION BoardSpec
CONSTANTS
  Machines <- SampleMachines
  Names <- SampleNames
  NoName = NoName
  Contents <- SampleContents
  MaxOthers = 1
INVARIANTS
  BracketClosed
  OnlyWantedBits
  ZeroMeansRaised
CHECK_DEADLOCK FALSE
