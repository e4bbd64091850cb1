SPECIFICATION Spec
CONSTANTS
  Devices <- SampleDevices
  MaxPos = 8
  Conf2Devices = 2
  Methods = {"conf1", "conf2"}
  Requests <- SampleRequests
  Ones = Ones
  Data = Data
  Closed = Closed
  MaxOthers = 1
  MaxLost = 1
INVARIANTS
  DamageBounded
  ClosedBetweenRequests
PROPERTIES
  ImplementsConfigSpace
CHECK_DEADLOCK FALSE
