SPECIFICATION FairSpec
CONSTANTS
  Engines = {e1, e2}
  AutoStart = {e1}
  Conns = {c1}
  Proxies = {p1}
  MaxMsgs = 2
  CloseFrom <- WhenRunning
  EarlyRelease = FALSE
INVARIANT EndsLast
PROPERTIES CloseCompletes KeptStopAnswered
CHECK_DEADLOCK FALSE
