SPECIFICATION FairSpec
CONSTANTS
  o1 = o1
  Orders = {o1}
  MaxReports = 2
  MaxFaults = 2
INVARIANTS
  EventsForwarded
  OpenOrdersFollowed
  FailureShows
PROPERTY
  EndedOrdersLeave
