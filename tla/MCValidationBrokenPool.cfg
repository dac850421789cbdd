CONSTANTS
  p1 = p1
  p2 = p2
  a = a
  b = b
  Procs <- OneProc
  Pairs = {a, b}
  Plan <- OneBatch
  MaxVersion = 0
  BatchSize = 2
  Gone = Gone
  Unread = Unread
  Crash = Crash
  Garbage = Garbage
  NoRow = NoRow
  Workers = 2
  EditsDuringRuns = FALSE
  MaxRuns = 1
  MaxFaults = 1
SPECIFICATION Spec
INVARIANT WorkersNeverKillRun
CHECK_DEADLOCK FALSE
