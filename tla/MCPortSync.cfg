SPECIFICATION FairSpec
CONSTANTS
    Clients = {"none", "qbittorrent", "transmission", "deluge"}
    HasScript = TRUE
    MaxPorts = 3
    MaxFailures = 2
    MaxConnections = 2
PROPERTY NeverBackwards
PROPERTY LatestApplied
