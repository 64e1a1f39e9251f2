CONSTANTS
  d1 = d1
  d2 = d2
  d3 = d3
  d4 = d4
  d5 = d5
  d6 = d6
  NoDevice = NoDevice
  Devices = {d1, d2, d3, d4, d5, d6}
  EnbMin = 1
  EnbMax = 2
  UeMin = 4
  NrUeMin = 7
  UeMax = 10
SPECIFICATION Spec
CHECK_DEADLOCK FALSE
SYMMETRY DeviceSymmetry
INVARIANTS
  IdsTypeOK
  AddressLeadsToDevice
  NextHopIsMaster
