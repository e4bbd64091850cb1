SPECIFICATION DelaySpec
CONSTANTS
  COUNT0 = 3
  QUARTER = 8
  ULONG = 1024
  Rates = {1, 2, 5, 13, 100}
  Interruptions = {0, 1, 3, 9, 200, 1100}
  SetBacks = {0, 2, 30}
  Times = {1, 5, 40}
INVARIANTS
  DelayAsAsked
PROPERTIES
  CalibrationEnds
