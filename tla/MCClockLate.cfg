CONSTANTS
  r1 = r1
  r2 = r2
  r3 = r3
  Requests <- MCRequests
  MustHappen <- MCMustHappen
  Periods <- MCPeriods
  ResetDelays <- MCResetDelays
  MaxCount = 4
  MaxStarts = 2
  AllowTies = TRUE
  AllowRace = FALSE
SPECIFICATION FairSpec
CHECK_DEADLOCK FALSE
PROPERTIES AnsweredOnTime
