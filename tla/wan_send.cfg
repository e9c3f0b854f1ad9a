CONSTANTS
  s1 = s1
  s2 = s2
  w1 = w1
  w2 = w2
  Senders = {s1, s2}
  Wans = {w1, w2}
  RingSize = 2
  KickAt = 2
  MaxBurst = 2
  Busy = {w2}
SPECIFICATION WanSpec
CHECK_DEADLOCK FALSE
INVARIANTS NothingForgotten
PROPERTIES GoesOut
