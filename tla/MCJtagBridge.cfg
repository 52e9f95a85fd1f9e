CONSTANTS
  c1 = c1
  c2 = c2
  NoClient = none
  Clients <- TwoClients
  PinValues <- MCPinValues
  ResetValues <- MCResetValues
  TickDelay = 2
  ResetClocks = 1
  MaxCommands = 2
  ReplyBuffer = 1
SPECIFICATION FairSpec
INVARIANTS TypeOK ReplyIsCurrent PinsFollowCommands
PROPERTIES ImplementsBitbangService CommandsExecuted
CHECK_DEADLOCK FALSE
