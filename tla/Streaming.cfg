SPECIFICATION MCSpec
CONSTANTS
    MaxFrames = 7
    Capacity = 2
    Segments = {s1, s2}
    Gap = gap
    MaxEvents = 2
    MaxGaps = 1
    Templates = {1, 2}
    MaxLive = 1
    Jobs = {1, 2, 3, 4, 5}
    Workers = {11}
    MaxJobAttempts = 2
    MaxRev = 2
    MaxStreams = 2
    MaxEdits = 1
    MaxFaults = 1
    MaxCrashes = 1
    MaxCancels = 1
    MaxTrash = 1
    Connections = {21, 22}
    MaxSubscribers = 1
    MaxLapses = 1
INVARIANTS Accounted NothingLostSilently ShownFinalsAreStored VisibleIsCurrent
PROPERTIES WriterEnds DemandIsServed ViewerConverges
CHECK_DEADLOCK FALSE
