SPECIFICATION MCSpec
CONSTANTS
    Notes = {1}
    Clips = {"a"}
    Clients = {1, 2}
    Retention = {"keep", "discard"}
    MaxUploads = 2
    MaxFaults = 1
    MaxCrashes = 1
    MaxTroubles = 1
    Runners = {1, 2}
    RetentionCount = 2
    MaxTime = 4
    MaxBrokenDumps = 2
    Interfaces = {"en0", "en1"}
    Addresses = {"home", "public"}
    Private = {"home"}
    MaxRequests = 2
    MaxMoves = 2
    Sources = {"embed", "chat"}
    Percents = {50, 100}
    DetectAttempts = 2
INVARIANTS AudioIsKept NewestBackupStays
PROPERTIES RecordingsSettle KeepsPromise ReadyHolds
CHECK_DEADLOCK FALSE
