CONSTANTS
  a = a
  b = b
  c = c
  Profiles = {a, b}
  Iface <- MCIface
  NoCfg = NoCfg
  MaxActive = 2
  MaxPending = 1
  InitMayFail = FALSE
  DbMayFail = FALSE
SPECIFICATION Spec
CHECK_DEADLOCK FALSE
PROPERTIES LoadServed JoinReturns
