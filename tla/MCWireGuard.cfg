SPECIFICATION Spec
CONSTANTS
    Backends = {"kernel", "userspace", "auto"}
    MaxFaults = 2
    MaxCrashes = 2
    MaxStarts = 3
    MaxDying = 3
INVARIANT UpReliable
INVARIANT NoRoutingLoop
INVARIANT DownRestores
