SPECIFICATION TableSpec
CONSTANTS
  MaxWord = 31
  LBIO = 5
  LB_TAG_MAINBOARD = 3
  LowEnd = 8
  HighStart = 12
  MemSize = 20
  Base = 4
  Memories <- Sample
  NoName = NoName
  Option = Option
INVARIANTS
  FirstGoodTable
  NamedByTheTable
CHECK_DEADLOCK FALSE
