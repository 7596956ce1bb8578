SPECIFICATION MCSpec
CONSTANTS
    Events = {1, 2}
    Shared = {2}
    Syncers = {1, 2}
    Scheduler = 1
    Lookback = 0
    Lookahead = 2
    MaxClock = 2
    MaxEdits = 1
    MaxKicks = 1
    MaxFaults = 1
    MaxSettings = 2
    Templates = {1}
    Jobs = {1, 2, 3}
    Workers = {11}
    Horizon = 1
    BatchSize = 1
    MaxJobAttempts = 2
    MaxChanges = 2
    MaxCrashes = 1
    MaxAdmin = 1
INVARIANTS PendingIsOwed ReadyIsFresh
PROPERTIES BriefsSettle
CHECK_DEADLOCK FALSE
