SPECIFICATION Spec
CONSTANTS
    Years = 1
    Hour <- MCHour
    Zones <- MCZones
    NoJd = NoJd
INVARIANT DateFromDay
CHECK_DEADLOCK FALSE
