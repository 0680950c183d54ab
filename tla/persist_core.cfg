SPECIFICATION FairSpec
CONSTANTS
  Timeouts = FALSE
  Direct = FALSE
  Eager = TRUE
  MaxVersion = 3
  MaxQueue = 2
  MaxRestarts = 1
INVARIANTS TypeOK AckedHolds NoBlankOverwrite
PROPERTY RequestedIsCaptured
