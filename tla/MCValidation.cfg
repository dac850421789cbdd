CONSTANTS
  p1 = p1
  p2 = p2
  a = a
  b = b
  Procs <- MCProcs
  Pairs = {a, b}
  Plan <- SharedPlan
  MaxVersion = 1
  BatchSize = 2
  Gone = Gone
  Unread = Unread
  Crash = Crash
  Garbage = Garbage
  NoRow = NoRow
  Workers = 2
  EditsDuringRuns = FALSE
  MaxRuns = 1
  MaxFaults = 1
SPECIFICATION FairSpec
INVARIANTS TypeOK EachPairOnce ResultsAreFresh RowsDescribeFiles UncommittedBounded
PROPERTIES OnlyDeathLoses Terminates
CHECK_DEADLOCK FALSE
