SPECIFICATION Spec
CONSTANTS
  p1 = p1
  p2 = p2
  Presses = {p1, p2}
  EventQueueSize = 1
  NoQueue = NoQueue
  NoPress = NoPress
  gLight1 = gLight1
  bridged_custom_device = bridged_custom_device
  Devices = {gLight1, bridged_custom_device}
  SlotCount = 2
  IdCount = 5
  FirstDynamic = 3
  NoDevice = NoDevice
  NoEndpoint = NoEndpoint
  Nets <- MCNets
  ObjectFiles <- MCObjectFiles
  Nothing = Nothing
CHECK_DEADLOCK FALSE
INVARIANTS
  EndpointStorageLives
