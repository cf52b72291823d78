SPECIFICATION Spec
CONSTANTS
    None = None
    Workers = {1, 2}
    Wallets <- MCWallets
    Registered = {"w1"}
    Settings <- MCSettings
    Family <- MCFamily
    Programs = {"token", "app"}
    KnownPrograms = {"token"}
    Contracts = {"c1"}
    Domains = {"dex", "lure"}
    TrustedDomains = {"dex"}
    Covers <- MCCovers
    Lookalike <- MCLookalike
    Rank <- MCRank
    Requests <- MCRequests
    SiteAnswers <- MCSiteAnswers
    TelemetryEvents <- MCNoTelemetry
    MaxFeed = 2
    MaxItems = 1
    FeedTtl = 0
    HitTtl = 1
    MaxTime = 1
    MaxRuns = 2
    MaxOps = 1
    Serves <- MCServes
CHECK_DEADLOCK FALSE
INVARIANTS OnlyFlaggedLearned
