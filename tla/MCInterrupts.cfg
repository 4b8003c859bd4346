CONSTANTS
  kSourceCount = 2
  kPriorityMask = 2
  Base = 4
  Ticks = 1
SPECIFICATION InterruptSpec
INVARIANTS ScanSelects NoLostLevel NoTransient
PROPERTIES GatewaySpec InterruptGenuine ReadConsistent WaitEnds
