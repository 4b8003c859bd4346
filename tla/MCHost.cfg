CONSTANTS
  AddressMax = 31
  Device <- Devices
  Layout <- Layouts
  Image <- Images
  CommandLine <- CommandLines
  TestRam <- ElfRam
  Elf <- Elfs
  Arguments <- Argvs
  Numeral <- Numerals
  kDefaultLimit = 8
  Character <- Characters
  kFifoCapacity = 2
  kSourceCount = 1
  kPriorityMask = 1
  MaxRx = 4
  MaxTx = 3
  MaxBytes = 2
SPECIFICATION HostSpec
INVARIANTS OutputConserved InputConserved InterruptFresh
  BootPlaced TerminalRestored ExitHonest ConformanceHonest
PROPERTIES ConsoleServed StopHonoured
