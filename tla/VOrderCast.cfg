CONSTANTS
  m1 = m1
  m2 = m2
  Members = {m1, m2}
  MaxAge = 3
  CheckInterval = 2
  StartTime = 5
  StopTime = 8
  UpdateRate = 2
  MaxDelay = 3
  MaxReports = 3
  MaxTime = 11
SPECIFICATION Spec
CHECK_DEADLOCK FALSE
INVARIANT OrdersForwarded
