SPECIFICATION MigrationFairSpec
CONSTANTS
  Scripts <- UpToThree
  OwnLoop = TRUE
INVARIANTS FrozenWhileMoving InOrder OneThread OneHolder
PROPERTY AllHandled
CHECK_DEADLOCK FALSE
