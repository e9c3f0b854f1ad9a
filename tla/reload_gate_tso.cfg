CONSTANTS
  t1 = t1
  t2 = t2
  off = off
  k1 = k1
  none = none
  Threads = {t1, t2}
  Cryptos = {off, k1}
  CryptoOff = off
  Shapes = {1}
  Topos = {x}
  x = x
  NoPin = none
  BufferedStores = TRUE
  MaxReloads = 2
SPECIFICATION Spec
PROPERTIES ReloadReturns BatchProcessed
