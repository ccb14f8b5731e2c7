SPECIFICATION Spec
CONSTANTS
    Years = 1600
    Hour <- MCHour
    Zones <- MCZones
    NoJd = NoJd
INVARIANT GregorianDates
INVARIANT RomanDates
INVARIANT DayFromDate
INVARIANT MissingDates
INVARIANT WeekdaysFollow
INVARIANT DayOfYearOfMostDays
INVARIANT DateTextsReadBack
CHECK_DEADLOCK FALSE
