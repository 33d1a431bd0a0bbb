SPECIFICATION FairSpec
CONSTANTS
  Engines = {e1}
  AutoStart = {e1}
  Conns = {c1}
  Proxies = {p1}
  MaxMsgs = 1
  CloseFrom <- AtAnyTime
  EarlyRelease = TRUE
PROPERTY CloseHolds
CHECK_DEADLOCK FALSE
