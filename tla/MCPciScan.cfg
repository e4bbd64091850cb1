SPECIFICATION Spec
CONSTANTS
  Buses = {0, 1, 2}
  NDevs = 2
  NFuncs = 2
  ethernet = ethernet  isa = isa  ours = ours  other = other
  Ids = {ethernet, isa}
  Cards = {ours, other}
  AnyCard = AnyCard
  Absent = Absent
  None = None
  Machines <- Sample
INVARIANTS
  ListIsReachable
  SearchIsRight
PROPERTIES
  ScanEnds
CHECK_DEADLOCK FALSE
