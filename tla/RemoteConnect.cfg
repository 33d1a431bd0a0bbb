CONSTANTS
  Remotes = {r1, r2}
  MaxRetries = 2
SPECIFICATION FairSpec
INVARIANTS ClosesBottomUp ContextNeedsChannels
PROPERTIES RemoteAnswered EngineCloses
CHECK_DEADLOCK FALSE
