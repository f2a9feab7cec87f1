SPECIFICATION FairSpec
CONSTANTS
    q1 = q1
    q2 = q2
    Queries = {q1, q2}
    NumUpstreams = 1
    EarlyQueries = FALSE
    MaxTunnels = 2
    MaxFaults = 1
INVARIANT ServfailExcused
PROPERTY EveryQueryAnswered
CHECK_DEADLOCK FALSE
