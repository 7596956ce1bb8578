SPECIFICATION FairSpec
CONSTANTS
    Jobs = {j1}
    Workers = {w1, w2}
    Handlers = {}
    Kinds = {}
    Templates = {t1}
    MaxJobAttempts = 1
    MaxFaults = 0
    MaxAdmin = 1
    MaxTrash = 0
PROPERTIES SummarizingEnds
CHECK_DEADLOCK FALSE
