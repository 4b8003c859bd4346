CONSTANTS
  SingleExponentBits = 2
  SingleFractionBits = 2
  DoubleExponentBits = 3
  DoubleFractionBits = 3
  DivideGuardBits = 8
  SecondOperand = {0, 1, 7, 8, 24, 25, 40, 55, 56, 65, 96, 97, 99, 100, 103, 104, 107, 108, 109, 112, 119, 123, 124, 126}
  FusedAddend = {0, 1, 6, 18}
  WordBits = 4
  kWideLimbs = 3
  LimbBits = 2
  kVectorLengthBits = 16
  kMaximumElementLengthBits = 16
  kBitsPerByte = 2
  kRegisterCount = 4
  VtypeRequests <- VectorTypes
  Lengths = {0, 1, 4}
  VectorInstructions <- VectorProgram
  InitialRegisters <- VectorFile
  InitialMemory <- VectorMemory
  PageBytes = 8
  Word = {0, 1, 2, 3}
  Mapped = {0, 1, 2}
  Value = {0, 1}
  TokenSpace = 3
SPECIFICATION HartSpec
INVARIANTS FloatExact CleanMeansSaved IntegerExact InstructionExact VectorRestart LengthFits ScExact
PROPERTY AmoAtomic
CHECK_DEADLOCK FALSE
