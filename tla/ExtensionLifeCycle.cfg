CONSTANTS
  Cmds = {c1}
  StartTriggers = {s1}
  StopTriggers = {t1}
  Proxies = {p1, p2}
  ManualStages = {"start", "stop"}
SPECIFICATION FairSpec
INVARIANTS CallbackOrder NoUseAfterDelete CmdsAccounted
PROPERTY CloseCompletes
CHECK_DEADLOCK FALSE
