SPECIFICATION Spec
CONSTANTS
    Burst = 1
    Expiry = 2
    MaxClock = 2
    MaxCalls = 3
    MaxLate = 1
    FeedStale = 1
    ContractsStale = 2
    MaxFaults = 1
    Slices = {3}
    TrueSpec <- Specs
    GuessedSpec <- Guesses
    Whole = 4
    MaxOrders = 2
    NoSlice = NoSlice
    NoReading = NoReading
    NoSnapshot = NoSnapshot
    Unhealthy = Unhealthy
INVARIANTS
    GrantsWithinRate
    CachedMidsFresh
    
    
    LargerOnlyByGuess
    SnapshotTrue
CHECK_DEADLOCK FALSE
