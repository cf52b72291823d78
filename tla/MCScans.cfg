SPECIFICATION FairSpec
CONSTANTS
    None = None
    Workers = {1, 2}
    Wallets = {"u"}
    Contracts = {"evm", "sol"}
    Programs = {"sol"}
    Facts <- MCFacts
    Readings <- MCReadings
    FirstReports <- MCReports
    MaxReports = 1
    Serves <- MCServes
    MaxRequests = 2
    MaxFaults = 1
    Apart = TRUE
    Crawlers = {1, 2}
    Urls = {"a", "b", "x"}
    Host <- MCHost
    Https <- MCHttps
    Limits = {1, 2}
    Pages <- MCPages
    Hrefs <- MCHrefs
    Joins <- MCJoins
    Redirects <- MCRedirects
    SiteTtl = 0
    MaxTime = 1
    MaxCrawls = 2
CHECK_DEADLOCK FALSE
INVARIANTS ReportedIsShown HistoryTellsTheScan ScoreIsCurrent PaidIsStored ScoreBounds CrawlStays
PROPERTIES CrawlsEnd
