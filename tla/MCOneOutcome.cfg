CONSTANTS
  Slices = 1
  Venues = {"int"}
  MaxCopies = 1
  MaxOrders = 1
  MaxFaults = 0
SPECIFICATION Spec
INVARIANT OneOutcome
CHECK_DEADLOCK FALSE
