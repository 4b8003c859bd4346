CONSTANTS
  Feature = {"VERSION_1", "UNOFFERED"}
  OfferedFeature = {"VERSION_1"}
  QueueCount = 1
  QueueSizeMax = 2
  Size = {0, 2, 4}
  Address = {null, ram0}
  AlignedAddress = {ram0}
  NoAddress = null
  MaxNotification = 1
  MaxReset = 1
  AddressSpace = 16
  IndexMax = 3
  kDescriptorSize = 2
  TableAddress = 0
  TableSize = 3
  DirectDescriptor <- DirectEntries
  OtherAddress = {6, 8}
  OtherDescriptor <- IndirectEntries
  Expectation <- Expectations
SPECIFICATION TransportSpec
INVARIANTS QueuesValid DescriptorsSound
PROPERTY LayoutFrozen
