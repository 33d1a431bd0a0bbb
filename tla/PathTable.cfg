CONSTANTS
  OwnCmds = {}
  InCmds = {k1}
  Converted = {k1}
  MaxDests = 3
  MaxPartial = 1
  SchemaFaults = TRUE
SPECIFICATION FairSpec
INVARIANTS TypeOK GroupIntact CompletedOnce GroupResult HandlersCalled UpstreamFinalOnce
PROPERTY KeepsPromise
CHECK_DEADLOCK FALSE
