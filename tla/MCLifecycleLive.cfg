SPECIFICATION FairSpec
CONSTANTS
    DNSModes = {"pia", "system", "do53", "dot"}
    GetRealIP = TRUE
    PFEnabled = TRUE
    PSEnabled = TRUE
    CommandFaults = FALSE
    TornWrites = FALSE
    MaxFaults = 1
    MaxOutages = 2
    MaxCrashes = 1
    MaxStarts = 2
INVARIANT GuardedDNS
INVARIANT OriginalKept
PROPERTY ShutdownTerminates
PROPERTY TunnelReplaced
PROPERTY CleanShutdown
