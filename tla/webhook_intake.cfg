SPECIFICATION FairSpec
CONSTANTS
    Signed = {e1, e2}
    Direct = {c1}
    Slot = {s1, s2}
    Capacity = 2
    Impatient = FALSE
    MaxQueue = 2
    MaxRestarts = 1
INVARIANTS AckedStored ListedIsStored
PROPERTIES EveryEventAcknowledged
