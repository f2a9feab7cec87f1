SPECIFICATION Spec
CONSTANTS
    Intervals = {2, 5}
    FailureWindows = {0, 1, 2, 7}
    Timeout = 3
    Latency = 2
INVARIANT AlarmJustified
INVARIANT DetectedInTime
PROPERTY StopsWhenCancelled
