CONSTANTS
  Addrs <- MCAddrs
  Data <- MCData
  Tags <- MCTags
  Polls <- Sometimes
  MaxTransfers = 2
  ResponseDepth = 2
SPECIFICATION FairSpec
CHECK_DEADLOCK FALSE
INVARIANT PolledIsCurrent
