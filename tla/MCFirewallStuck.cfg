SPECIFICATION FairSpec
CONSTANTS
    Endpoint = {e1, e2}
    Port = {p1, p2}
    Address <- MCAddress
    Lan4 <- MCLan4
    Lan6 <- MCLan6
    LocalNets = TRUE
    IPv6Enabled = TRUE
    PIADNS <- MCPIADNS
    PIAMode = FALSE
    PFEnabled = FALSE
    MaxBatch = 2
    MaxFailures = 0
    MaxCrashes = 1
    MaxStarts = 2
PROPERTY ExemptionGranted
