CONSTANTS
  Feature = {"VERSION_1"}
  OfferedFeature = {"VERSION_1"}
  QueueCount = 1
  QueueSizeMax = 2
  Size = {0, 2}
  Address = {null, ram, hole}
  AlignedAddress = {ram, hole}
  NoAddress = null
  RamAddress = {ram}
  MaxNotification = 1
  MaxReset = 1
  IndexSpace = 4
  RingSize = 2
  Capacity = 2
  Request <- AllRequests
  Batch = 1
  Careless = TRUE
  MaxRequest = 3
SPECIFICATION BlockSpec
CHECK_DEADLOCK FALSE
PROPERTIES RequestsHonest ReadSeesWrites
