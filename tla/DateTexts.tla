------------------------------ MODULE DateTexts ------------------------------
(***************************************************************************)
(* Dates as texts: the time stamps of timescale.c, and what parse.c makes  *)
(* of a date, a time and a time zone, for the days of the walk along the   *)
(* calendars.  A text is a record of the numbers in it; apart says that    *)
(* something stands between the time and the zone, a space or the unit of  *)
(* the seconds.  Times are in whole hours.  Left out: separators, the      *)
(* order of year, month and day, names of months.                          *)
(***************************************************************************)
EXTENDS CivilCalendar

CONSTANT Zones      \* the zones of local times, in hours east of Greenwich

ASSUME ZonesAssumption == Zones \subseteq -23 .. 23

DateText(y, m, d, hour, zone, apart) ==
    [year |-> y, month |-> m, day |-> d, hour |-> hour, zone |-> zone, apart |-> apart]

ZoneWestward(t) == IF t.apart THEN 0 ELSE -t.zone       \* fault: the sign is that of the other convention

\* parse_zone(): a zone that does not follow the digits is none.
Zone(t) == IF t.apart THEN 0 ELSE t.zone

\* novas_parse_date_format(): the zone is taken off the hours of the date, which
\* are then fewer than none or more than a day has.
ParseDate(cal, t) ==
    IF Zone(t) \in -23 .. 23
    THEN JdFromDate(cal, t.year, t.month, t.day, t.hour - Zone(t))
    ELSE NoJd

StampOfDay(cal, hours) ==       \* fault: the date is that of the Julian day
    LET date == JdToDate(cal, 24 * (hours \div 24))
    IN  DateText(date.year, date.month, date.day, (hours + 12) % 24, 0, FALSE)

\* timestamp(): the date is that of the noon of the day.
StampText(cal, hours) ==
    LET date == JdToDate(cal, 24 * ((hours + 12) \div 24))
    IN  DateText(date.year, date.month, date.day, (hours + 12) % 24, 0, FALSE)

-----------------------------------------------------------------------------
\* The days at which a month begins and ends, those at the reform included.
EdgeDates == {1, 4, 15, LastDate} \cap MonthDates

\* A local time and its zone are read as one instant, also where the day, the
\* month or the year is another in Greenwich.  On 15 October 1582 this needs to
\* be after midnight in Greenwich.
ZonedDates ==
    \A d \in EdgeDates, h \in Hour, z \in Zones :
        ~(IsReform /\ d = 15 /\ h < z) =>
            ParseDate(type, DateText(year, month, d, h, z, FALSE)) = At(d, h) - z

\* So it is on any day, and wherever a zone may stand.
EveryZonedDate ==
    \A d \in EdgeDates, h \in Hour, z \in Zones, apart \in BOOLEAN :
        ParseDate(type, DateText(year, month, d, h, z, apart)) = At(d, h) - z

\* A time stamp has the date of the calendar, and is read as the time that it is
\* of, at every hour: the ISO ones, and the astronomical ones before the reform
\* except for the dates of spring that novas_jd_to_date() misses.
StampsReadBack ==
    Rule = Gregorian \/ month \notin 2 .. 4 =>
        \A d \in EdgeDates, h \in Hour :
            LET stamp == StampText(type, At(d, h))
            IN  /\ <<stamp.year, stamp.month, stamp.day, stamp.hour>> = <<year, month, d, h>>
                /\ ParseDate(type, stamp) = At(d, h)

\* The texts of dates, local ones and time stamps, say what they are written for.
DateTextsReadBack == ZonedDates /\ StampsReadBack

=============================================================================
