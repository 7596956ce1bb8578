SPECIFICATION MCSpec
CONSTANTS
    Launches = {1, 2}
    Pids = {1, 2}
    MaxKills = 1
    MaxCrashes = 1
    MaxStrangers = 1
    MaxFaults = 1
    MaxTotal = 2
    MaxAttempts = 3
INVARIANTS OneOwner StartFailsForCause
PROPERTIES EveryLaunchEnds
CHECK_DEADLOCK FALSE
