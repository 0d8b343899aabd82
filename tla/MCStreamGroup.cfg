CONSTANTS
  Msgs = {m1, m2}
  Malformed = {m2}
  MaxRetries = 1
  BatchSize = 2
  MaxFaults = 3
SPECIFICATION FairSpec
INVARIANTS NoLoss DeadLetterAfterRetries RepeatsOnlyByFaults
PROPERTIES Drains Delivery
CHECK_DEADLOCK FALSE
