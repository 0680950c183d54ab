SPECIFICATION FairSpec
CONSTANTS
  Parts = {"queue", "backup", "mirror", "schedule", "alerts", "ai", "token"}
  Item = {i1}
  Slot = {s1}
  OneSlot = {s1}
  Timer = timer
  Timed = {FALSE}
  MaxVersion = 1
  Target = {c1, c2}
  OneTarget = {c}
  Text = {x1, x2}
  OneText = {w}
  Job = {j1}
  Source = {a}
  Content = {x, y}
  Keep = 2
  Protected = {1}
  MaxRuns = 2
  BackupRestarts = 1
  Path = {1, 2}
  MaxMirror = 5
  MaxFaults = 2
  MaxChanges = 2
  Interval = 4
  RetryAfter = 1
  MaxDefer = 8
  Horizon = 10
  Event = {}
  Platform = {p1}
  Caller = {tick, manual}
  MaxPending = 2
  MaxSent = 2
  LoginRequest = {r1, r2}
  CacheKey = {k1, k2}
  TaskKey = {k1, k2}
  Account = {a1}
  Operation = {}
  Life = 2
  Lead = 1
  MaxWait = 1
INVARIANTS BudgetHeld IntactUnlessMisread StaleOnlyAfterFailure
PROPERTIES QueueIsSent DatedIsRetried LeaseComesBack CatchesUp
  BreakerComesBack ComesBack
CHECK_DEADLOCK FALSE
