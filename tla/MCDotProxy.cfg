SPECIFICATION Spec
CONSTANTS
    q1 = q1
    q2 = q2
    Queries = {q1, q2}
    NumUpstreams = 2
    EarlyQueries = TRUE
    MaxTunnels = 2
    MaxFaults = 1
SYMMETRY Symmetry
INVARIANT AnswersOwnQuery
INVARIANT NoConnectionLeaked
CHECK_DEADLOCK FALSE
