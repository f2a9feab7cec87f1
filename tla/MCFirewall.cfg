SPECIFICATION Spec
CONSTANTS
    Endpoint = {e1, e2}
    Port = {p1, p2}
    Address <- MCAddress
    Lan4 <- MCLan4
    Lan6 <- MCLan6
    LocalNets = TRUE
    IPv6Enabled = TRUE
    PIADNS <- MCPIADNS
    PIAMode = TRUE
    PFEnabled = TRUE
    MaxBatch = 2
    MaxFailures = 2
    MaxCrashes = 1
    MaxStarts = 2
SYMMETRY Symmetry
INVARIANT TypeOK
INVARIANT DefaultDeny
INVARIANT TunnelDNSGuarded
INVARIANT ExemptionsExact
INVARIANT ForwardedPortExact
INVARIANT CleanExitRemovesAll
PROPERTY ImplementsKillswitch
