\* Two concurrent requests on one wallet: grants, claims, charges, failures.
SPECIFICATION FairSpec
CONSTANTS
    Wallet = {w1}
    UserId = {u1, u2}
    e1 = e1
    Email = {e1}
    Req = {r1, r2}
    None = None
    Ops = {"connect", "claim", "charge"}
    WelcomeXp = 2
    EntryXp <- MCEntryXp
    Costs = {1}
    CanFail = TRUE
INVARIANTS LedgerMatchesSpent
PROPERTIES RequestsFinish IdentityFixedByClaim ImplementsXpAccount
