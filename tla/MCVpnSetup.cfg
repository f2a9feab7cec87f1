SPECIFICATION Spec
CONSTANTS
    Modes = {"location", "all", "dip", "manual"}
    Regions = {"uk"}
    PFRequired = TRUE
    DIPRegion = "uk"
    AuthAnswers <- MCAuthAnswers
    ListAnswers <- MCListAnswers
    Lists <- MCLists
    MaxCachedIPs = 2
    MaxTokenAge = 2
    TokenLife = 3
    MaxTokens = 3
    MaxTime = 3
    MaxFaults = 1
    MaxCrashes = 1
    MaxStarts = 2
INVARIANT TokenHonest
INVARIANT PresentedUsable
INVARIANT CacheCurrent
PROPERTY AttemptExcused
