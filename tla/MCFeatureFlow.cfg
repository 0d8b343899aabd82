SPECIFICATION FlowSpec
CONSTANTS
  Hour = 3
  StartMinute = 2
  EndMinute = 10
  Streak = 1
  MaxHitches = 2
  Debounce = 1
  Ttl = 4
INVARIANTS
  SnapshotsInOrder
  CurrentBlockGuides
CHECK_DEADLOCK FALSE
