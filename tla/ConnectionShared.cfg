SPECIFICATION MigrationSpec
CONSTANTS
  Scripts <- MovesFirst
  OwnLoop = FALSE
INVARIANT NoAssertionFails
CHECK_DEADLOCK FALSE
