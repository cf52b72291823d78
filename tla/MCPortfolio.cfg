\* Two wallets that a user connects, disconnects and looks at; then up to two requests about
\* tokens at once, with failures.
SPECIFICATION PortfolioSpec
CONSTANTS
    Wallet = {w1, w2}
    UserId = {u1}
    e1 = e1
    w1 = w1
    w2 = w2
    Email = {e1}
    Req = {r1}
    None = None
    Ops = {"connect", "disconnect", "overview", "resolve"}
    WelcomeXp = 2
    EntryXp <- MCEntryXp
    Costs = {1}
    CanFail = FALSE
    Visitors = {v1, v2}
    SolanaWallets = {w2}
    HomeChain <- MCHome
    TokenChains = {1}
    Supported = {1}
    Replies <- MCReplies
    MaxPages = 2
    SolanaReplies <- MCSolana
    Natives <- MCNatives
    Wrapped <- MCWrapped
    MaxVisits = 2
    MaxMishaps = 1
SYMMETRY MCSymmetryData
CHECK_DEADLOCK FALSE
INVARIANTS HoldingsStay TotalCountsOnce
