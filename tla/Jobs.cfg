SPECIFICATION MCSpec
CONSTANTS
    j1 = j1
    j2 = j2
    n1 = n1
    n2 = n2
    Jobs <- MCJobSet
    Workers = {w1, w2}
    Notes <- MCNotes
    NoteOf <- MCNoteOf
    MaxJobAttempts = 2
    MaxAbandons = 2
    MaxPriority = 2
    LeaseCoversWork = TRUE
    Deliveries = {1, 2}
    Processes = {p1, p2}
    MaxAttempts = 2
    BatchLimit = 2
    MaxStops = 1
    MaxLost = 1
    MaxRetries = 1
    Clients = {31, 32}
    MaxSessions = 1
    VADFrame = 2
    MaxWindow = 2
    PartialInterval = 2
    SilenceDuration = 2
    SilenceHysteresis = 2
    MaxPendingCommits = 2
    Chunks = {3, 12}
    MaxSamples = 12
    MaxLoadFailures = 1
INVARIANTS OneRunnerPerJob TerminalVerdictsAgree OneDispatcher SpeechIsCovered
PROPERTIES SettledIsFinal EveryJobSettles DeliverySettles SlotsComeBack
CHECK_DEADLOCK FALSE
