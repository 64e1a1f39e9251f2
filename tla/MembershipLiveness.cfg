CONSTANTS
  n1 = n1
  n2 = n2
  n3 = n3
  n4 = n4
  Nodes = {n1, n2, n3}
  Direction <- OneAgainst
  Rssi = {0, 1}
  MinRSSI = 1
  AdvertisedFull <- NeverFull
  Commands <- NoCommands
  MaxOrders = 0
  UnicastEnabled = TRUE
SPECIFICATION FairSpec
CHECK_DEADLOCK FALSE
PROPERTIES
  EveryStationSettles
  HandoverCompletes
