CONSTANTS
  t1 = t1
  t2 = t2
  off = off
  k1 = k1
  k2 = k2
  none = none
  Threads = {t1, t2}
  Cryptos = {off, k1, k2}
  CryptoOff = off
  Shapes = {1, 2}
  Topos = {x, y}
  x = x
  y = y
  NoPin = none
  BufferedStores = FALSE
  MaxReloads = 2
SPECIFICATION Spec
SYMMETRY ThreadSymmetry
INVARIANTS ReloadExclusive SectionConsistent PinsCurrent
