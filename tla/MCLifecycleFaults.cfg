SPECIFICATION Spec
CONSTANTS
    DNSModes = {"pia", "system", "do53", "dot"}
    GetRealIP = TRUE
    PFEnabled = TRUE
    PSEnabled = TRUE
    CommandFaults = TRUE
    TornWrites = TRUE
    MaxFaults = 2
    MaxOutages = 2
    MaxCrashes = 1
    MaxStarts = 2
INVARIANT EndpointsHonest
INVARIANT ResolvHidden
INVARIANT FirstErrorDecides
INVARIANT ForwardTornDown
INVARIANT ExemptionsNeedNoTunnel
PROPERTY KeepsKillswitch
