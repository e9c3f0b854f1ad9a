CONSTANTS
  conn1 = conn1
  rx1 = rx1
  none = none
  noPin = noPin
  Conns = {conn1}
  Rxs = {rx1}
  Profiles <- MCProfiles
  ProfileOf <- MCProfileOf
  WanIfs = {"w1", "w2", "w3"}
  Policies = {1, 2, 3}
  NoPolicy = none
  Tables <- MCTables
  NoPin = noPin
  Timeout = 2
  Skew = 1
  SeqWrap = 7
SPECIFICATION Spec
INVARIANTS FollowsPeer WeightsHonoured
PROPERTIES Forgotten
