CONSTANTS
  Posters = {p1, p2}
  Loop = loop
  LoopTasks = {a, b, c, d}
  NoOne = none
SPECIFICATION LoopFairSpec
INVARIANTS NoLostWakeup StopAssertions
PROPERTIES StopCompletes IsTaskQueue
CHECK_DEADLOCK FALSE
