SPECIFICATION FairSpec
CONSTANTS
  Item = {i1}
  Slot = {s1}
  Timer = timer
  Timed = {FALSE}
  MaxVersion = 1
  SaveResults = {"landed"}
  MaxSnapshots = 1
  MaxRestarts = 1
PROPERTY PendingIsRetried
CHECK_DEADLOCK FALSE
