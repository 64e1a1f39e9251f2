CONSTANTS
  n1 = n1
  n2 = n2
  n3 = n3
  n4 = n4
  Nodes = {n1, n2}
  Direction <- OneAgainst
  Rssi = {1}
  MinRSSI = 1
  AdvertisedFull <- NeverFull
  Commands <- AnyCommand
  MaxOrders = 2
  UnicastEnabled = TRUE
SPECIFICATION Spec
CHECK_DEADLOCK FALSE
SYMMETRY SameWaySymmetry
INVARIANTS
  RoleMatchesDevice
  AttachmentFollows
  LiveMastersRegistered
  OneManagerPerCell
PROPERTIES
  RoleFollowsOrder
