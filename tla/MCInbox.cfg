SPECIFICATION Spec
CONSTANTS
    None = None
    Wallets = {"u", "v", "n"}
    Spellings = {"N"}
    Registered = {"u", "v"}
    Workers = {w1, w2}
    FirstItems <- MCFirst
    Arrivals <- MCArrivals
    Limits = {1}
    AllLimit = 2
    MaxItems = 4
    MaxRequests = 2
    MaxFaults = 1
CHECK_DEADLOCK FALSE
SYMMETRY MCSymmetry
INVARIANTS AllIsRead CountIsHonest NewestAreShown ReadByItsOwner
