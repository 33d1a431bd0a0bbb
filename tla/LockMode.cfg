CONSTANTS
  t1 = t1  t2 = t2  t3 = t3  p1 = p1  p2 = p2
  Threads = {t1, t2, t3}
  Proxies = {p1, p2, p3}
  ProxyOf <- MCProxyOf
  ExtHeld = {p3}
  Ext = ext
  None = none
  MaxCalls = 4
SPECIFICATION FairSpec
INVARIANTS WorldExclusive LockModeAssertions ProxyOutlivesUse
PROPERTY LockModeProgress
CHECK_DEADLOCK FALSE
