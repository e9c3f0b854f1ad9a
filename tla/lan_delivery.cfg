CONSTANTS
  hostA = hostA
  hostB = hostB
  hostC = hostC
  macA = macA
  macB = macB
  macC = macC
  Ips = {hostA, hostB, hostC}
  Macs = {macA, macB, macC}
  MacOf <- MCMacOf
  Hash <- MCHash
  Size = 2
  Torn = torn
  NoMac = noMac
  Empty = empty
  Dests = {hostA}
  PolicyHosts <- MCPolicyHosts
  RingSize = 2
  TxRing = 2
  Half = 2
  KickAt = 2
  MaxRestarts = 1
SPECIFICATION Spec
INVARIANTS TypeOK SlotIntact FrameOnce
PROPERTIES IsArpMap Delivered
