CONSTANTS
  Addrs <- MCAddrs
  Data <- MCData
  Tags <- MCTags
  Polls <- Sometimes
  MaxTransfers = 2
  ResponseDepth = 1
SPECIFICATION FairSpec
CHECK_DEADLOCK FALSE
INVARIANTS TypeOK TransfersObserved PolledInStep
PROPERTIES TransferCompletes
