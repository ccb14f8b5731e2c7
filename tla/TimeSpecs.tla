------------------------------ MODULE TimeSpecs ------------------------------
(***************************************************************************)
(* timescale.c: an instant is kept as a whole and a fractional day of TT,  *)
(* with what it takes to tell it in other time scales.  It is set in one   *)
(* scale, shifted, and read in others, as a Julian date, as a UNIX time or *)
(* as a time stamp.                                                        *)
(*                                                                         *)
(* Times are counted in ticks, a fraction fjd of a day is so many ticks.   *)
(* Left out: TCB and TCG, which go at rates of their own, the fetch of     *)
(* EOP values, and how a time stamp spells a day and its milliseconds.     *)
(***************************************************************************)
EXTENDS Integers

CONSTANTS
    Day, Second, Milli, Nano,   \* ticks in a day, a second, a millisecond, a nanosecond
    Dta, GpsToTai,              \* DTA, GPS2TAI
    J2000Day, UnixJ2000,        \* IJD_J2000, UNIX_UTC_J2000
    Days, Fractions,            \* arguments for the whole and the fractional part
    UnixTimes, Nanos,           \* UNIX times to set, their nanoseconds
    Leaps, Dut1s, Shifts,       \* leap seconds, UT1 - UTC, times to shift by
    TdbOffsets, DiurnalOffsets, \* TDB - TT, the diurnal part of UT1 - UTC
    LastDays                    \* bound: days that instants are shifted within

ASSUME TimeAssumption ==
    /\ {Day, Second, Milli, Nano} \subseteq Nat \ {0}
    /\ Day % (2 * Milli) = 0 /\ Day % Second = 0 /\ Second % Nano = 0
    /\ {Dta, GpsToTai, J2000Day, UnixJ2000} \subseteq Int
    /\ Days \cup Fractions \cup UnixTimes \cup Leaps \cup Dut1s \cup Shifts \subseteq Int
    /\ TdbOffsets \cup DiurnalOffsets \cup LastDays \cup Nanos \subseteq Int

VARIABLES
    time,           \* a novas_timespec: ijd, fjd, tt2tdb, ut1_to_tt, dut1
    before,         \* another, that time was shifted from
    told,           \* history: the scale, the instant and the rest that time was set to
    elapsed         \* history: the time from before to time

timeVars == <<time, before, told, elapsed>>

Scales == {"TT", "TDB", "TAI", "GPS", "UTC", "UT1"}

\* tt_offset().
Offset(ts, scale) ==
    [TT |-> 0, TDB |-> ts.tt2tdb, TAI |-> -Dta, GPS |-> -(Dta + GpsToTai),
     UTC |-> -(ts.ut1_to_tt + ts.dut1), UT1 |-> -ts.ut1_to_tt][scale]

\* The whole days of the fraction go to the day number.
Split(ijd, fjd) == [ijd |-> ijd + fjd \div Day, fjd |-> fjd % Day]

Ut1ToTt(leap, dut1) == leap * Second - dut1 + Dta

DiurnalInUtc(scale, ijd, fjd, leap, dut1, tdb, diurnal) ==     \* fault: UT1 is left where it was
    LET first == [tt2tdb |-> tdb, ut1_to_tt |-> Ut1ToTt(leap, dut1), dut1 |-> dut1]
        tt    == Split(ijd, fjd - Offset(first, scale))
    IN  [ijd |-> tt.ijd, fjd |-> tt.fjd, tt2tdb |-> tdb,
         ut1_to_tt |-> first.ut1_to_tt, dut1 |-> dut1 + diurnal]

\* novas_set_split_time(), with what it gets from tt2tdb_hp() and as the diurnal
\* variation.
SetSplitTime(scale, ijd, fjd, leap, dut1, tdb, diurnal) ==
    LET first == [tt2tdb |-> tdb, ut1_to_tt |-> Ut1ToTt(leap, dut1), dut1 |-> dut1]
        tt    == Split(ijd, fjd - Offset(first, scale))
    IN  [ijd |-> tt.ijd, fjd |-> tt.fjd, tt2tdb |-> tdb,
         ut1_to_tt |-> first.ut1_to_tt - diurnal, dut1 |-> dut1 + diurnal]

\* novas_offset_time().
OffsetTime(ts, shift) ==
    LET tt == Split(ts.ijd, ts.fjd + shift) IN [ts EXCEPT !.ijd = tt.ijd, !.fjd = tt.fjd]

\* novas_get_split_time().  A fraction of a whole day stays as it is.
GetSplitTime(ts, scale) ==
    LET f == ts.fjd + Offset(ts, scale)
    IN  IF f < 0 THEN [ijd |-> ts.ijd - 1, fjd |-> f + Day]
        ELSE IF f > Day THEN [ijd |-> ts.ijd + 1, fjd |-> f - Day]
        ELSE [ijd |-> ts.ijd, fjd |-> f]

\* novas_diff_time_scale(); for TT it is novas_diff_time().
DiffByTtDays(t1, t2, scale) ==      \* fault: the days are those of TT
    (t1.ijd - t2.ijd) * Day + (GetSplitTime(t1, scale).fjd - GetSplitTime(t2, scale).fjd)

DiffTimeScale(t1, t2, scale) ==
    LET a == GetSplitTime(t1, scale)
        b == GetSplitTime(t2, scale)
    IN  (a.ijd - b.ijd) * Day + (a.fjd - b.fjd)

\* novas_set_unix_time(): the division of C, towards zero, and its remainder.
SetUnixTime(unix, nanos, leap, dut1, tdb, diurnal) ==
    LET idays == Day \div Second
        since == unix - UnixJ2000
        days  == IF since < 0 THEN -((-since) \div idays) ELSE since \div idays
        rest  == since - days * idays
        jd    == J2000Day + days
    IN  IF rest < 0
        THEN SetSplitTime("UTC", jd - 1, (rest + idays) * Second + nanos * Nano, leap, dut1, tdb, diurnal)
        ELSE SetSplitTime("UTC", jd, rest * Second + nanos * Nano, leap, dut1, tdb, diurnal)

NoCarry(ts) ==      \* fault: the second is not carried
    LET utc == GetSplitTime(ts, "UTC")
    IN  [seconds |-> UnixJ2000 + (utc.ijd - J2000Day) * (Day \div Second) + utc.fjd \div Second,
         nanos |-> (2 * (utc.fjd % Second) + Nano) \div (2 * Nano)]

\* novas_get_unix_time(): nanoseconds are rounded, and may then be a second.
UnixTime(ts) ==
    LET utc   == GetSplitTime(ts, "UTC")
        isod  == utc.fjd \div Second
        nanos == (2 * (utc.fjd % Second) + Nano) \div (2 * Nano)
        unix  == UnixJ2000 + (utc.ijd - J2000Day) * (Day \div Second) + isod
    IN  IF nanos = Second \div Nano THEN [seconds |-> unix + 1, nanos |-> 0]
        ELSE [seconds |-> unix, nanos |-> nanos]

StampInDay(ts, scale) ==        \* fault: rounding ends at the end of the day
    LET s  == GetSplitTime(ts, scale)
        dd == (2 * s.fjd + Day) \div (2 * Day)
    IN  [day |-> s.ijd + dd, ms |-> (2 * (s.fjd - dd * Day) + Day + Milli) \div (2 * Milli)]

\* timestamp(): the day that is at noon in the date, and milliseconds from midnight.
Stamp(ts, scale) ==
    LET s  == GetSplitTime(ts, scale)
        dd == (2 * s.fjd + Day) \div (2 * Day)
        ms == (2 * (s.fjd - dd * Day) + Day + Milli) \div (2 * Milli)
    IN  IF ms >= Day \div Milli THEN [day |-> s.ijd + dd + 1, ms |-> ms - Day \div Milli]
        ELSE [day |-> s.ijd + dd, ms |-> ms]

\* novas_time_leap(): rounded, halves away from zero.
TimeLeap(ts) ==
    LET x == ts.ut1_to_tt + ts.dut1 - Dta
    IN  IF x < 0 THEN -((2 * (-x) + Second) \div (2 * Second)) ELSE (2 * x + Second) \div (2 * Second)

-----------------------------------------------------------------------------
Instant(split) == split.ijd * Day + split.fjd

Became(ts, scale, at, leap, diurnal) ==
    /\ time' = ts
    /\ before' = ts
    /\ elapsed' = 0
    /\ told' = [scale |-> scale, at |-> at, leap |-> leap, diurnal |-> diurnal]

Set ==
    \E scale \in Scales, ijd \in Days, fjd \in Fractions, leap \in Leaps, dut1 \in Dut1s,
       tdb \in TdbOffsets, diurnal \in DiurnalOffsets :
          Became(SetSplitTime(scale, ijd, fjd, leap, dut1, tdb, diurnal),
                 scale, ijd * Day + fjd, leap, diurnal)

SetUnix ==
    \E unix \in UnixTimes, nanos \in Nanos, leap \in Leaps, dut1 \in Dut1s,
       tdb \in TdbOffsets, diurnal \in DiurnalOffsets :
          Became(SetUnixTime(unix, nanos, leap, dut1, tdb, diurnal), "UTC",
                 J2000Day * Day + (unix - UnixJ2000) * Second + nanos * Nano, leap, diurnal)

\* The shifted time may overwrite the original.
Shift ==
    \E shift \in Shifts :
        LET shifted == OffsetTime(time, shift) IN
        /\ shifted.ijd \in LastDays
        /\ time' = shifted
        /\ told' = [told EXCEPT !.at = @ + shift]
        /\ \/ before' = time /\ elapsed' = shift
           \/ before' = before /\ elapsed' = elapsed + shift

TimeInit ==
    LET ts == SetSplitTime("TT", J2000Day, 0, 0, 0, 0, 0)
    IN  /\ time = ts
        /\ before = ts
        /\ elapsed = 0
        /\ told = [scale |-> "TT", at |-> J2000Day * Day, leap |-> 0, diurnal |-> 0]

TimeNext == Set \/ SetUnix \/ Shift

TimeSpec == TimeInit /\ [][TimeNext]_timeVars

-----------------------------------------------------------------------------
\* The fraction of the day is one, after any shifts, also to before the epoch of
\* Julian days and by times that are negative: what novas_get_split_time(), which
\* makes up for one day at most, and the time stamps rely on.
TimeTypeOK ==
    \A ts \in {time, before} :
        /\ ts.ijd \in Int
        /\ ts.fjd \in 0 .. Day - 1
        /\ {ts.tt2tdb, ts.ut1_to_tt, ts.dut1} \subseteq Int

\* A time reads in the scale that it was set in as it was set, and shifted since,
\* whatever part of it was in the fraction, and with the leap seconds it was set
\* with.  UT1 is left out where it has a diurnal part.
ReadsAsSet ==
    /\ told.scale # "UT1" \/ told.diurnal = 0 => Instant(GetSplitTime(time, told.scale)) = told.at
    /\ TimeLeap(time) = told.leap

\* The difference of two times is what lies between them, in whatever scale both
\* are told.
DiffIsElapsed == \A scale \in Scales : DiffTimeScale(time, before, scale) = elapsed

\* The UNIX time is that of the nearest nanosecond, which is less than a second.
UnixIsNearest ==
    LET unix == UnixTime(time)
        at   == J2000Day * Day + (unix.seconds - UnixJ2000) * Second + unix.nanos * Nano
        utc  == Instant(GetSplitTime(time, "UTC"))
    IN  /\ unix.nanos \in 0 .. Second \div Nano - 1
        /\ 2 * (utc - at) \in -Nano .. Nano

\* A time stamp is that of the nearest millisecond, in a day that has it.
StampIsNearest ==
    \A scale \in Scales :
        LET stamp == Stamp(time, scale)
            at    == stamp.day * Day - Day \div 2 + stamp.ms * Milli
        IN  /\ stamp.ms \in 0 .. Day \div Milli - 1
            /\ 2 * (Instant(GetSplitTime(time, scale)) - at) \in -Milli .. Milli

=============================================================================
