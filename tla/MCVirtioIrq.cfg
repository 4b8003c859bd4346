CONSTANTS
  Feature = {"VERSION_1"}
  OfferedFeature = {"VERSION_1"}
  QueueCount = 1
  QueueSizeMax = 2
  Size = {0, 2}
  Address = {null, ram}
  AlignedAddress = {ram}
  NoAddress = null
  RamAddress = {ram}
  MaxNotification = 1
  MaxReset = 0
  IndexSpace = 4
  RingSize = 2
  Capacity = 2
  Request <- FewRequests
  Batch = 1
  Careless = FALSE
  MaxRequest = 1
SPECIFICATION BlockSpec
PROPERTY InterruptDelivered
