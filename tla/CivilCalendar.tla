---------------------------- MODULE CivilCalendar ----------------------------
(***************************************************************************)
(* What the three calendars are, without any arithmetic on days: each has  *)
(* months of known lengths that follow one another, and the astronomical   *)
(* one is the Roman one up to 4 October 1582 and the Gregorian one from    *)
(* the day after, which is 15 October.  The module walks along a calendar, *)
(* a month at a time, from months whose first day is known, and compares   *)
(* what Calendar computes for the days of the month.                       *)
(***************************************************************************)
EXTENDS Calendar

CONSTANTS
    Years,          \* bound on the length of a walk
    Hour            \* hours of the day to look at

ASSUME WalkAssumption ==
    /\ Years \in Nat
    /\ Hour \subseteq 0 .. 23
    /\ NoJd \notin Int

VARIABLES
    type,           \* the calendar
    year, month,
    first,          \* the Julian day that begins on the noon of the 1st
    weekday,        \* the weekday of the 1st, from 1 for Monday
    yday,           \* the days of the year before the 1st
    left            \* the months left to walk

vars == <<type, year, month, first, weekday, yday, left>>

IsLeap(t, y) == y % 4 = 0 /\ (t = Gregorian => y % 100 # 0 \/ y % 400 = 0)

MonthLength(t, y, m) ==
    IF m \in {4, 6, 9, 11} THEN 30
    ELSE IF m # 2 THEN 31
    ELSE IF IsLeap(t, y) THEN 29 ELSE 28

\* The calendar that months are those of.
Rule == IF type # Astronomical THEN type
        ELSE IF year > 1582 \/ (year = 1582 /\ month > 10) THEN Gregorian ELSE Roman

IsReform == type = Astronomical /\ year = 1582 /\ month = 10

\* The days there are in the month, and which of them, counting from 0, each is.
LastDate   == MonthLength(Rule, year, month)
MonthDates == IF IsReform THEN 1 .. 4 \cup 15 .. 31 ELSE 1 .. LastDate
Length == IF IsReform THEN 21 ELSE LastDate
Nth(d) == IF IsReform /\ d >= 15 THEN d - 11 ELSE d - 1

\* Julian day 0 began on Monday 1 January of the year -4712 of the Roman
\* calendar, in November of -4713 of the Gregorian one; 1 January of the year 1
\* was a Saturday in the Roman calendar, and so was 1 January 2000 in the other.
Start(t, y, m, f, w, n) == [type |-> t, year |-> y, month |-> m, first |-> f, weekday |-> w, yday |-> n]

Anchor == {Start(Roman, -4712, 1, 0, 1, 0),
           Start(Roman, 1, 1, 1721424, 6, 0),
           Start(Astronomical, 1, 1, 1721424, 6, 0),
           Start(Gregorian, -4713, 12, 7, 1, 334),
           Start(Gregorian, 2000, 1, 2451545, 6, 0)}

Init ==
    \E a \in Anchor :
        /\ type = a.type
        /\ year = a.year
        /\ month = a.month
        /\ first = a.first
        /\ weekday = a.weekday
        /\ yday = a.yday
        /\ left = 12 * Years

NextMonth ==
    /\ left > 0
    /\ left' = left - 1
    /\ month' = (month % 12) + 1
    /\ year' = IF month = 12 THEN year + 1 ELSE year
    /\ yday' = IF month = 12 THEN 0 ELSE yday + LastDate
    /\ first' = first + Length
    /\ weekday' = ((weekday + Length - 1) % 7) + 1
    /\ UNCHANGED type

Spec == Init /\ [][NextMonth]_vars

\* The time of an hour of a day of the month.
At(d, h) == 24 * (first + Nth(d)) + h - 12

\* novas_jd_to_date() gives the date and the hour.
DateFromDay ==
    \A d \in MonthDates, h \in Hour :
        JdToDate(type, At(d, h)) = [year |-> year, month |-> month, day |-> d, hour |-> h]

\* So it does in the Gregorian calendar, and after the reform.
GregorianDates == Rule = Gregorian => DateFromDay

\* In the Roman calendar, the first days of the reform's month included, so it
\* does in the months other than those of spring, for the years walked.
RomanDates == Rule = Roman /\ month \notin 2 .. 4 => DateFromDay

\* novas_jd_from_date() gives the day that has the date.
DayFromDate ==
    \A d \in MonthDates, h \in Hour : JdFromDate(type, year, month, d, h) = At(d, h)

\* Dates that the calendar does not have are no error where the month has such
\* a day in a leap year, or in the Roman calendar before the reform: 29 February
\* is 1 March, and 5 to 14 October 1582 are what the Roman calendar says.
MissingDates ==
    /\ month = 2 /\ LastDate = 28 => JdFromDate(type, year, 2, 29, 0) = At(28, 24)
    /\ IsReform => \A d \in 5 .. 14 : JdFromDate(type, year, month, d, 0) = 24 * (first + d - 1) - 12

\* novas_day_of_week() goes round without a break, across the reform and JD 0.
WeekdaysFollow ==
    \A d \in MonthDates, h \in Hour : DayOfWeek(At(d, h)) = ((weekday + Nth(d) - 1) % 7) + 1

\* novas_day_of_year() counts the days of the months of the year.
DayOfYearCounts ==
    \A d \in MonthDates, h \in Hour : DayOfYear(type, At(d, h)) = yday + d

\* So it does for the dates that novas_jd_to_date() gets right, April apart.
DayOfYearOfMostDays ==
    month # 4 /\ (Rule = Gregorian \/ month \notin 2 .. 3) => DayOfYearCounts

=============================================================================
