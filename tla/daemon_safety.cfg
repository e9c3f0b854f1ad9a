CONSTANTS
  a = a
  b = b
  c = c
  Profiles = {a, b, c}
  Iface <- MCIface
  NoCfg = NoCfg
  MaxActive = 2
  MaxPending = 1
  InitMayFail = TRUE
  DbMayFail = TRUE
SYMMETRY SharedSymmetry
SPECIFICATION Spec
CHECK_DEADLOCK FALSE
INVARIANTS InstalledIsActive ThreadOwned RuntimeIsInstalled
PROPERTIES InUseSlotStable
