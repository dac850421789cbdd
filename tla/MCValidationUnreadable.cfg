CONSTANTS
  p1 = p1
  p2 = p2
  a = a
  b = b
  Procs <- OneProc
  Pairs = {a}
  Plan <- OnePair
  MaxVersion = 1
  BatchSize = 2
  Gone = Gone
  Unread = Unread
  Crash = Crash
  Garbage = Garbage
  NoRow = NoRow
  Workers = 1
  EditsDuringRuns = FALSE
  MaxRuns = 2
  MaxFaults = 0
SPECIFICATION Spec
PROPERTY UnreadableIsMiss
CHECK_DEADLOCK FALSE
