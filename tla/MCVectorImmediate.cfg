CONSTANTS
  kVectorLengthBits = 16
  kMaximumElementLengthBits = 16
  kBitsPerByte = 2
  kRegisterCount = 4
  VtypeRequests = {0, 8, 16, 24}
  Lengths = {0, 1, 4}
  VectorInstructions <- AddImmediates
  InitialRegisters <- CountingFile
  InitialMemory <- ZeroMemory
  PageBytes = 8
SPECIFICATION VecSpec
INVARIANT ImmediateExtended
CHECK_DEADLOCK FALSE
