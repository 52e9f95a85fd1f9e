CONSTANTS
  MaxBytes = 3
  FifoDepth = 2
  DutDepth = 2
  Corrupts = TRUE
  Usage <- AnyTraffic
SPECIFICATION FairSpec
CHECK_DEADLOCK FALSE
INVARIANTS TypeOK VerdictsTrue AllJudgedWhenIdle JudgedOnce
PROPERTIES EveryByteJudged
