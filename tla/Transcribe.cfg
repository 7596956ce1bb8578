SPECIFICATION MCSpec
CONSTANTS
    Jobs = {j1, j2}
    Workers = {w1, w2}
    Keys = {k1}
    MaxFaults = 2
    MaxStreams = 1
    MaxReviews = 2
SYMMETRY Symmetry
INVARIANTS CurrentIsFannedOut NotStuck
PROPERTIES OwnTranscriptStands DiscardIsOwned
CHECK_DEADLOCK FALSE
