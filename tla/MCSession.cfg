SPECIFICATION SessionSpec
CONSTANTS
    Times = {1, 2}
    Dates <- MCDates
    Accuracies = {"full", "reduced"}
    Full = "full"
    NoTime = NoTime
    Providers = {"nu2000k"}
    IAU2000A = "iau2000a"
    Offsets = {0, 1}
    AppSystems = {"GCRS", "ICRS", "J2000", "MOD", "TOD", "CIRS", "TIRS"}
    Day = 24
    Second = 4
    Milli = 2
    Nano = 2
    Dta = 3
    GpsToTai = 2
    J2000Day = 0
    UnixJ2000 = 5
    Days <- MCDays
    LastDays <- MCLastDays
    Fractions <- MCFractions
    UnixTimes <- MCUnixTimes
    Nanos = {0, 1}
    Leaps = {0, 2}
    Dut1s <- MCDut1s
    Shifts <- MCShifts
    TdbOffsets = {1}
    DiurnalOffsets = {0, 1}
    LocTypes = {"gcrs", "equinox"}
    ValidLocTypes = {"gcrs", "equinox"}
    Sun = "Sun"
    Earth = "Earth"
    SSB = "SSB"
    Planets = {"Sun", "Earth", "SSB", "Mars"}
    EphemObjects = {"comet"}
    Orbiting = {"asteroid"}
    Center <- MCCenter
    Origins = {"SSB", "Sun"}
    Outages <- MCOutages
    NearEarth = {"geocenter"}
    Probes = {"probe"}
    Grav <- MCGrav
    Stars = {"star"}
    Frames = {f, g}
    Sixty = 3
    Circle = 4
    HoursInDay = 3
    Mult = 2
    Digit = 2
    Written <- MCWritten
    TurnTicks = 48
    SolarDay = 53
    Sources = {"star", "low", "Sun", "Moon", "Mars"}
    Distant = {"star", "low"}
    Ra <- MCRa
    HalfArc <- MCHalfArc
    NoArc <- MCNoArc
    Lunation = 100
    Phases = {0, 37}
    Elongation <- MCElongation
    Tolerance = 1
    MaxIter = 8
    Starts <- MCStarts
    FullTurn = 48
    TrackDelta = 1
    Steps = {2}
    Path <- MCPath
    FrameTimes <- MCFrameTimes
    TrackTimes <- MCTrackTimes
SYMMETRY MCFrames
INVARIANTS
    CelestialImage
    EarthImage
    ReadsAsSet
    DiffIsElapsed
    UnixIsNearest
    StampIsNearest
    CioOfItsDate
    AnswerAsAsked
    PlaceOfItsDate
    FramesWhole
    SeenFromObserver
    TextsReadBack
    CrossingIsNext
    NeverBefore
    PhaseIsNext
    TrackFollows
    MarksAreTrue
