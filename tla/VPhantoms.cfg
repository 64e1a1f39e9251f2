CONSTANTS
  r1 = r1
  r2 = r2
  Rsus = {r1}
  Vehicles = {1}
  MaxAge = 2
  SubscriberMaxAge = 2
  CheckInterval = 1
  MinLocalization = 1
  Localizing = {}
  SubscribeTimes = {3}
  StartTime = 2
  StopTime = 8
  EndTime = 8
  MaxPackets = 2
  MaxReplaced = 0
SPECIFICATION Spec
CHECK_DEADLOCK FALSE
INVARIANTS
  PublicationsTrack
