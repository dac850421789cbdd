CONSTANTS
  w1 = w1
  w2 = w2
  shared = shared
  only1 = only1
  Writers <- MCWriters
  Names <- MCNames
  Files <- MCFiles
  CopyWorkers = 2
  Absent = Absent
SPECIFICATION FairSpec
INVARIANTS TypeOK RaisedLeavesNothing
PROPERTIES CompletedSurvives Terminates
CHECK_DEADLOCK FALSE
