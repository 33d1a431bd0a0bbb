CONSTANTS
  OwnCmds = {c1}
  InCmds = {}
  Converted = {}
  MaxDests = 1
  MaxPartial = 1
  SchemaFaults = FALSE
SPECIFICATION Spec
INVARIANT SingleResult
CHECK_DEADLOCK FALSE
