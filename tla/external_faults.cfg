SPECIFICATION FairSpec
CONSTANTS
  Process = {p1}
  Slot = {s1}
  Key = {k1, k2}
  Text = {t1}
  TTL = 2
  MaxIdentical = 1
  MaxHistory = 1
  Replies = {k1}
  Slow = TRUE
  Faults = {"reserve", "read", "finish", "save"}
  t1 = t1
  p1 = p1
  s1 = s1
  k1 = k1
  k2 = k2
INVARIANTS DoneMeansDelivered LocksHaveOwners
PROPERTIES ReservationEnds
