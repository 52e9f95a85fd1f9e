CONSTANTS
  c1 = c1
  c2 = c2
  NoClient = none
  Clients <- OneClient
  PinValues <- OnePin
  ResetValues <- MCResetValues
  TickDelay = 2
  ResetClocks = 2
  MaxCommands = 2
  ReplyBuffer = 2
SPECIFICATION FairSpec
CHECK_DEADLOCK FALSE
PROPERTY SilenceLetsClockRun
