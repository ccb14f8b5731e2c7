SPECIFICATION FairSpec
CONSTANTS
    e1 = e1
    e2 = e2
    e3 = e3
    Proc = {p1, p2}
    Ephem = {e1, e2, e3}
    ThreadSafe = {e3}
    QuietConfig = TRUE
    QuietNames = TRUE
    None = None
INVARIANT UnlocksOwn
INVARIANT IdleUnlocked
PROPERTY SerialAccess
PROPERTY CallReturns
