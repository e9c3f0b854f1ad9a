CONSTANTS
  none = none
  three = three
  two = two
  w = w
  w2 = w2
  x = x
  y = y
  hx = hx
  hy = hy
  Lans = {x, y}
  Profiles = {none, three, two}
  Hosts = {hx, hy}
  NoMac = NoMac
  MaxStrays = 1
  LansOf <- MCLansOf
  Layers <- MCLayers
  HomeOf <- MCHomeOf
  Wans <- MCWans
  Bridges = {TRUE, FALSE}
SPECIFICATION Spec
CHECK_DEADLOCK FALSE
INVARIANTS TypeOK DeliveredUntilReload RightCable DecidedOnce QueuesFreed
PROPERTIES Settles
