SPECIFICATION Spec
CONSTANTS
  Timeouts = TRUE
  Direct = TRUE
  Eager = FALSE
  MaxVersion = 4
  MaxQueue = 2
  MaxRestarts = 1
INVARIANTS HealthyMeansSaved CleanExitSaved ChangeCovered
