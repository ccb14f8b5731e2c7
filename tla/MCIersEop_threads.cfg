SPECIFICATION FairSpec
CONSTANTS
    rapidUrl = rapidUrl
    c04Url = c04Url
    c01Url = c01Url
    mirrorC04 = mirrorC04
    mirrorC01 = mirrorC01
    deadUrl = deadUrl
    NoUrl = NoUrl
    NoProc = NoProc
    NoRow = NoRow
    DefaultUrl <- MCDefaultUrl
    JdStart <- MCJdStart
    Served <- MCServed
    LineLen = 2
    SparseLines = 3
    RapidEnd = 11
    Proc = {p1, p2}
    Jd <- MCJdOne
    CustomUrl <- MCC04Any
    Year <- MCYear
    QuietConfig = TRUE
    MaxVersion = 1
INVARIANT LockDiscipline
INVARIANT CacheFromConfiguredUrl
PROPERTY LockReleased
