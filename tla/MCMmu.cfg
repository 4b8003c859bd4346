CONSTANTS
  Index = {0, 1}
  UpperHalf = {1}
  VirtualPage <- MCVirtualPage
  Asid = {0, 1}
  Table <- MCTable
  ReadOnly <- MCReadOnly
  PteWrite <- MCPteWrite
  InitialPtes <- MCInitialPtes
  Satp <- MCSatp
  Access <- MCAccess
  TlbSize = 2
  MaxWrite = 1
SPECIFICATION MmuSpec
INVARIANTS TlbCoherent TranslationSound FaultGenuine
PROPERTIES PteExact AccessEnds
