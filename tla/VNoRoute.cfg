CONSTANTS
  r1 = r1
  r2 = r2
  v1 = v1
  v2 = v2
  Nodes = {r1, v1}
  Rsus = {r1}
  Direction <- OneWay
  Rssi = {0, 1}
  MinRSSI = 1
  AdvertisedFull <- NeverFull
  Commands <- NoCommands
  MaxOrders = 0
  UnicastEnabled = TRUE
  MaxPackets = 1
  MaxHops = 3
SPECIFICATION RoutingSpec
CHECK_DEADLOCK FALSE
INVARIANT SentToAllPublishers
