SPECIFICATION TrapSpec
CONSTANTS
  Interrupt = {1, 7}
  Exception = {2, 11}
  AddressSpace = 4
  Desired <- MCDesired
INVARIANTS
  ContextKept
PROPERTIES
  RoundTrip
  PrivilegeGate
  NoReentry
