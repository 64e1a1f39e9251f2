CONSTANTS
  n1 = n1
  n2 = n2
  n3 = n3
  n4 = n4
  Nodes = {n1, n2}
  Direction <- OneAgainst
  Rssi = {1}
  MinRSSI = 1
  AdvertisedFull <- NeverFull
  Commands <- NoCommands
  MaxOrders = 0
  UnicastEnabled = TRUE
SPECIFICATION Spec
CHECK_DEADLOCK FALSE
INVARIANTS
  HandoverTargetPresent
