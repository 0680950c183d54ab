SPECIFICATION Spec
CONSTANTS
  Process = {p1, p2}
  Slot = {s1, s2}
  Key = {k1}
  Text = {t1}
  TTL = 2
  MaxIdentical = 2
  MaxHistory = 2
  Replies = {k1}
  Slow = FALSE
  Faults = {}
  t1 = t1
  p1 = p1
  p2 = p2
  s1 = s1
  s2 = s2
  k1 = k1
SYMMETRY Symmetry
INVARIANT OneExecutor
PROPERTIES RepeatWaits DoneIsFinal KeepsPromise
