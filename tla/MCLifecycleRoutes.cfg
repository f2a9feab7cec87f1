SPECIFICATION Spec
CONSTANTS
    DNSModes = {"pia"}
    GetRealIP = FALSE
    PFEnabled = FALSE
    PSEnabled = FALSE
    CommandFaults = TRUE
    TornWrites = FALSE
    MaxFaults = 1
    MaxOutages = 0
    MaxCrashes = 0
    MaxStarts = 1
INVARIANT GuardedDNS
