SPECIFICATION MCSpec
CONSTANTS
    h1 = h1
    h2 = h2
    j1 = j1
    j2 = j2
    j3 = j3
    Jobs <- MCJobs
    Workers = {w1, w2}
    Handlers <- MCHandlers
    Kinds = {"resummarize", "review", "template"}
    Templates = {t1}
    MaxJobAttempts = 2
    MaxFaults = 1
    MaxAdmin = 1
    MaxTrash = 1
INVARIANTS AnnouncedOnce PendingIsOwed
PROPERTIES RoundsEnd
CHECK_DEADLOCK FALSE
