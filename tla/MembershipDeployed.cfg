CONSTANTS
  n1 = n1
  n2 = n2
  n3 = n3
  n4 = n4
  Nodes = {n1, n2, n3, n4}
  Direction <- OneAgainst
  Rssi = {1}
  MinRSSI = 1
  AdvertisedFull <- AnyFull
  Commands <- NoCommands
  MaxOrders = 0
  UnicastEnabled = TRUE
SPECIFICATION Spec
CHECK_DEADLOCK FALSE
SYMMETRY SameWaySymmetry
INVARIANTS
  TypeOK
  RegistryExact
  MemberSharesConvoy
  FailureNeedsDeparture
  HandoverChangesMaster
  ConvoyOneDirection
  ConvoysRegistered
PROPERTIES
  NewConvoyIsEmpty
  ImplementsConvoys
