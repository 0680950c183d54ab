SPECIFICATION Spec
CONSTANTS
  Parts = {"queue", "late", "pair", "edits", "unsaved", "crowd", "nested", "messages",
           "backup", "alerts", "access", "agent", "token"}
  Item = {i1}
  Slot = {s1, s2}
  OneSlot = {s}
  Timer = timer
  Timed = {TRUE}
  MaxVersion = 1
  Target = {c1, c2}
  OneTarget = {c}
  Text = {x1, x2}
  OneText = {w}
  Job = {j1}
  Source = {a}
  Content = {x}
  Keep = 2
  Protected = {1}
  MaxRuns = 4
  BackupRestarts = 0
  Path = {1, 2}
  MaxMirror = 5
  MaxFaults = 2
  MaxChanges = 2
  Interval = 4
  RetryAfter = 1
  MaxDefer = 8
  Horizon = 10
  Event = {e1}
  Platform = {p1}
  Caller = {tick, manual}
  MaxPending = 2
  MaxSent = 2
  LoginRequest = {r1, r2}
  CacheKey = {k1, k2}
  TaskKey = {k1, k2}
  Account = {a1, a2}
  Operation = {op}
  Life = 1
  Lead = 1
  MaxWait = 0
INVARIANTS TypeOK WithdrawalStands RepeatNeedsLoss
  SentIsTrue AskedIsKept RetryFindsFree
  SuccessStaysRecoverable AnswersHold
  MarkedWasMailedOrLate LinkIsWhole
PROPERTY LeavesMarked
SYMMETRY Symmetry
CHECK_DEADLOCK FALSE
