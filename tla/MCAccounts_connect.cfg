\* Two concurrent connects or claims on two wallets, which may be linked; disconnects and
\* dashboards of one of them; failures.
SPECIFICATION Spec
CONSTANTS
    Wallet = {w1, w2}
    UserId = {u1, u2}
    e1 = e1
    Email = {e1}
    Req = {r1, r2}
    None = None
    Ops = {"connect", "claim", "disconnect", "overview"}
    WelcomeXp = 2
    EntryXp <- MCEntryXp
    Costs = {1}
    CanFail = TRUE
CONSTRAINT MCFirstWallet
SYMMETRY MCSymmetry
INVARIANTS EmailClaimedOnce
PROPERTIES ConnectRepairs
