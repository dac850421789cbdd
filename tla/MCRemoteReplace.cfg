CONSTANTS
  Names = {o, b, n, f}
  Old = {o, b}
  New = {b, n}
  Foreign = {f, n}
  CopyWorkers = 2
  Absent = Absent
  OldObj = OldObj
  NewObj = NewObj
  Torn = Torn
  ForeignObj = ForeignObj
SPECIFICATION FairSpec
INVARIANTS TypeOK Recoverable BackupWhole AllOrNothing
PROPERTIES ImplementsContract Terminates
CHECK_DEADLOCK FALSE
