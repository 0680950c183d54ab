SPECIFICATION FairSpec
CONSTANTS
  Process = {p1}
  Slot = {s1, s2}
  Comment = {x1, x2}
  TTL = 1
  Budget = 1
  Slow = TRUE
  MaxRestarts = 1
  p1 = p1
  s1 = s1
  s2 = s2
  x1 = x1
  x2 = x2
INVARIANT OneCyclePerProcess
PROPERTIES LeaseRecovered EveryCommentDecided
