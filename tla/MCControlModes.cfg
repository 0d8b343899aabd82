CONSTANTS
  Live = TRUE
  Cycles = {c1, c2}
  BatchSize = 2
  MaxSlices = 2
  DirectModes = {"NORMAL", "HALT"}
  MaxLots = 1
  MaxCmds = 2
  MaxUnread = 1
  MaxFaults = 1
SPECIFICATION FairSpec
INVARIANTS HaltWithinOneOrder ReplacedWithinOneOrder
PROPERTIES ReduceOnlyPlanReduces CommandsConsumed
CHECK_DEADLOCK FALSE
