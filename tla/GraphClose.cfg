CONSTANTS
  Threads = {t1, t2}
  Names = {x1, x2}
  MaxCloseRequests = 2
SPECIFICATION FairSpec
INVARIANTS ClosesInOrder FindInfoExclusive
PROPERTIES StartIsAnswered StartedGraphCloses
CHECK_DEADLOCK FALSE
