CONSTANTS
  Apps = {1, 2, 3, 4, 5, 6}
  Links <- RingAndMore
  Roots = {1, 2, 3, 4, 5, 6}
SPECIFICATION FairSpec
INVARIANTS OneChannel StartedEverywhere
PROPERTIES OnlySecondCommandFails Settles
CHECK_DEADLOCK FALSE
