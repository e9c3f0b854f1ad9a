CONSTANTS
  l1 = l1
  w = w
  Lans = {l1}
  Worker = w
  Size = 2
  RingSize = 2
  MaxBatch = 2
  NoFrame = none
  none = none
SPECIFICATION Spec
CHECK_DEADLOCK FALSE
INVARIANTS FramesSafe
PROPERTIES FramesReturn ThreadsEnd IsJobQueue
