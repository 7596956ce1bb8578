SPECIFICATION Spec
CONSTANTS
    Jobs = {j1, j2}
    Workers = {w1, w2}
    Keys = {k1, k2}
    MaxFaults = 0
    MaxStreams = 0
    MaxReviews = 2
INVARIANTS DiscardedMeansGone
CHECK_DEADLOCK FALSE
