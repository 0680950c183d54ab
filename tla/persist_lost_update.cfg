SPECIFICATION Spec
CONSTANTS
  Timeouts = FALSE
  Direct = FALSE
  Eager = TRUE
  MaxVersion = 4
  MaxQueue = 2
  MaxRestarts = 1
INVARIANT HealthyMeansSaved
