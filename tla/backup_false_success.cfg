SPECIFICATION Spec
CONSTANTS
  Source = {a, b}
  Content = {x}
  Keep = 2
  Protected = {1}
  MaxRuns = 4
  MaxRestarts = 1
INVARIANT SuccessMeansIntact
CHECK_DEADLOCK FALSE
