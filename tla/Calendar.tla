------------------------------ MODULE Calendar ------------------------------
(***************************************************************************)
(* src/src/c99/calendar.c: conversions between Julian days and the dates   *)
(* of three calendars.  Times are in hours from Julian day 0, so that a    *)
(* Julian date tjd is 24 * tjd here and the arithmetic is that of the      *)
(* integers; an operand NAN is NoJd.                                     *)
(***************************************************************************)
EXTENDS Integers

CONSTANT NoJd     \* NAN

Roman        == -1
Astronomical == 0
Gregorian    == 1
Type         == {Roman, Astronomical, Gregorian}

\* NOVAS_JD_START_GREGORIAN, the midnight before 15 October 1582.
StartGregorian == 2299160 * 24 + 12

\* Fault: a division that rounds down.
FloorQuot(a, b) == a \div b

\* The division of C, which truncates.
Quot(a, b) == IF a >= 0 THEN a \div b ELSE -((-a) \div b)
Rem(a, b)  == a - b * Quot(a, b)

\* Fault: the days of a common year.
CommonMonthDays == <<31, 28, 31, 30, 31, 30, 31, 31, 30, 31, 30, 31>>

\* md[], the days of the months of a leap year, and mstart[].
MonthDays  == <<31, 29, 31, 30, 31, 30, 31, 31, 30, 31, 30, 31>>
MonthStart == <<0, 31, 59, 9, 120, 151, 181, 212, 243, 273, 304, 334>>

\* Fault: the reform is forgotten.
NoReform(type, hours) == IF type = Astronomical THEN Gregorian ELSE type

\* Fault: the comparison is the wrong way round.
ReformReversed(type, hours) ==
    IF type # Astronomical THEN type
    ELSE IF hours >= StartGregorian THEN Roman ELSE Gregorian

\* Which of the two calendars the astronomical one is, at a time.
AsOf(type, hours) ==
    IF type # Astronomical THEN type
    ELSE IF hours >= StartGregorian THEN Gregorian ELSE Roman

\* novas_jd_from_date()
JdFromDate(type, y, m, d, hour) ==
    LET m14  == Quot(m - 14, 12)
        day  == d - 32123 + Quot(1461 * (y + 4800 + m14), 4) + Quot(367 * (m - 2 - m14 * 12), 12)
        rest == hour - 12
        days == IF AsOf(type, 24 * day + rest) = Gregorian
                THEN day - (Quot(3 * Quot(y + 4900 + m14, 100), 4) - 48)
                ELSE day + 10
    IN  IF m \in 1 .. 12 /\ d >= 1 /\ d <= MonthDays[m]
        THEN 24 * days + rest
        ELSE NoJd

\* novas_jd_to_date()
JdToDate(type, hours) ==
    LET jd == (hours + 12) \div 24
        k0 == jd + 68569
        n  == Quot(4 * k0, 146097)
        gregorian == AsOf(type, hours) = Gregorian
        k1 == k0 - Quot((IF gregorian THEN 146097 ELSE 146100) * n + 3, 4)
        m  == Quot(4000 * (k1 + 1), 1461001)
        k2 == k1 + 31 - Quot(1461 * m, 4) + (IF gregorian THEN 0 ELSE 38)
        mo == Quot(80 * k2, 2447)
        k3 == Quot(mo, 11)
    IN  [year  |-> 100 * (n - 49) + m + k3,
         month |-> mo + 2 - 12 * k3,
         day   |-> k2 - Quot(2447 * mo, 80),
         hour  |-> (hours + 12) % 24]

\* Fault: the remainder of C is taken for a modulus.
WeekBefore2000(hours) == 1 + Rem((hours - 24 * 2451545 - 36) \div 24, 7)

\* novas_day_of_week()
DayOfWeek(hours) ==
    LET rem == Rem((hours - 24 * 2451545 - 36) \div 24, 7)
    IN  1 + (IF rem < 0 THEN rem + 7 ELSE rem)

\* Fault: every fourth year is a leap year.
DayOfRomanYear(type, hours) ==
    LET date == JdToDate(type, hours)
    IN  MonthStart[date.month] + date.day + (IF date.month > 2 /\ Rem(date.year, 4) = 0 THEN 1 ELSE 0)

\* novas_day_of_year()
DayOfYear(type, hours) ==
    LET date == JdToDate(type, hours)
        y    == date.year
        leap == /\ date.month > 2
                /\ Rem(y, 4) = 0
                /\ \/ Rem(y, 100) # 0
                   \/ Rem(y, 400) = 0
                   \/ type = Roman
                   \/ type = Astronomical /\ hours < StartGregorian
    IN  MonthStart[date.month] + date.day + (IF leap THEN 1 ELSE 0)

=============================================================================
