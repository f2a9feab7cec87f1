SPECIFICATION FairSpec
CONSTANTS
    BindInterval = 5
    PortBindDuration = 7
    InitialLimit = 3
    RetryInterval = 2
    Timeout = 1
    SafetyHours = 9
    SignatureLife = 16
    LeaseLife = 10
    MaxPorts = 2
INVARIANT TypeOK
INVARIANT GivesUpInTime
INVARIANT AnnouncedIsLeased
INVARIANT SignatureValid
PROPERTY StopsWhenCancelled
PROPERTY NoEndlessRetry
