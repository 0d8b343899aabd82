CONSTANTS
  Slices = 1
  Venues = {"int", "text"}
  MaxCopies = 2
  MaxOrders = 2
  MaxFaults = 1
SPECIFICATION FairSpec
INVARIANTS SubmitReportedFirst OpenOrdersWatched
PROPERTIES ReplaceOnlyAfterFailure TrackedOrdersEnd
CHECK_DEADLOCK FALSE
