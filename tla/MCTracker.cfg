CONSTANTS
  Program <- MCProgram
  Entry = 1
  MaxIssued = 5
  UnitSlots = 2
SPECIFICATION FairSpec
CHECK_DEADLOCK FALSE
INVARIANTS TypeOK ReportsProgram
PROPERTIES CompletedReported
