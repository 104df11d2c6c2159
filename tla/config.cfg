SPECIFICATION Spec
CONSTANTS
  Bodies = {a, b, c}
  NoBody = nobody
  Unparsable = {c}
  Choosable = {a}
  HotReload = TRUE
  Faults = {"apply", "save"}
  MaxQueue = 2
  MaxChanges = 1
  MaxChoices = 1
  MaxFaults = 2
  MaxCrashes = 1
  MaxEvents = 3
INVARIANTS
  LastApplyIsCurrent
  ChannelHoldsLatest
  RestartRestoresApplied
PROPERTY
  Converges
CHECK_DEADLOCK FALSE
