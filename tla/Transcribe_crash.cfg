SPECIFICATION Spec
CONSTANTS
    Jobs = {j1}
    Workers = {w1, w2}
    Keys = {k1}
    MaxFaults = 1
    MaxStreams = 0
    MaxReviews = 2
INVARIANTS DoneMeansFannedOut
CHECK_DEADLOCK FALSE
