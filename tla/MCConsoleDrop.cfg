SPECIFICATION EventLoopSpec
CONSTANTS
  kFifoCapacity = 1
  kSourceCount = 1
  kPriorityMask = 1
  MaxRx = 0
  MaxTx = 3
  MaxBytes = 2
INVARIANT NoSilentDrop
