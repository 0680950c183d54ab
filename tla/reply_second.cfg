SPECIFICATION Spec
CONSTANTS
  Target = {c1}
  Text = {x1}
  Slot = {s1, s2}
  Capacity = 1
  MaxDrafts = 1
  MaxRows = 1
  SaveResults = {"landed"}
  MaxSnapshots = 1
  MaxRestarts = 0
INVARIANT OneReplyPerCustomer
CHECK_DEADLOCK FALSE
