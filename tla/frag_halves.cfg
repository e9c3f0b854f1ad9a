CONSTANTS
  p1 = p1
  p2 = p2
  Peers = {p1, p2}
  Layers = {"l3"}
  IdSpace = 2
  TableSize = 1
  Timeout = 1
  Width = 16
  MaxPackets = 3
  MaxClock = 2
  MaxCopies = 1
SPECIFICATION Spec
CHECK_DEADLOCK FALSE
SYMMETRY PeerSymmetry
INVARIANTS HalvesMatch NoneDropped
PROPERTIES HalvesKept
