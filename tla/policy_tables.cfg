CONSTANTS
  a = a
  b = b
  c = c
  x = x
  y = y
  k1 = k1
  k2 = k2
  k3 = k3
  NoKey = NoKey
  Keys = {k1, k2, k3}
  Profiles = {a, b, c}
  Lans = {x, y}
  Flows <- MCFlows
  Data <- MCData
  LansOf <- MCLansOf
  MaxWire = 8
  MaxPolicies = 6
  Grace = 2
SPECIFICATION Spec
INVARIANTS TypeOK WireIdsUnique PeersUnderstood StaleNotMistaken
PROPERTIES HotLoadKeepsSelection
