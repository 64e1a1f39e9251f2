CONSTANTS
  r1 = r1
  r2 = r2
  Rsus = {r1}
  Vehicles = {1, 2}
  MaxAge = 2
  SubscriberMaxAge = 2
  CheckInterval = 1
  MinLocalization = 0
  Localizing = {1}
  SubscribeTimes = {2}
  StartTime = 2
  StopTime = 4
  EndTime = 4
  MaxPackets = 1
  MaxReplaced = 0
SPECIFICATION Spec
CHECK_DEADLOCK FALSE
INVARIANTS
  TypeOK
  CountWithinIds
  PartnerAddressed
