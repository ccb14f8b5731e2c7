----------------------------- MODULE TimesProofs -----------------------------
(***************************************************************************)
(* What TimeSpecs promises holds for days, seconds and nanoseconds of any  *)
(* length, for all leap seconds, and for shifts by any time to any day;    *)
(* and what CivilCalendar and DateTexts promise, for walks of any length.  *)
(* For the latter, the formula of novas_jd_from_date() is brought to one   *)
(* without truncating divisions, and its value for the first of a month is *)
(* shown to grow by the length of the month: so it is the day that the     *)
(* walk has counted.                                                       *)
(***************************************************************************)
EXTENDS TimeSpecs, DateTexts, TLAPS

-----------------------------------------------------------------------------
\* Arithmetic that the provers do not know.

LEMMA Distributive == \A a, b, c \in Int : (a + b) * c = a * c + b * c /\ (a - b) * c = a * c - b * c
  BY SMT

LEMMA AtLeast == \A a \in Int, c \in Nat \ {0} : (a >= 1 => a * c >= c) /\ (a <= -1 => a * c <= -c)
  BY SMT

\* Quotient and remainder, which are the only ones.
LEMMA Division ==
    ASSUME NEW a \in Int, NEW d \in Nat \ {0}
    PROVE  /\ a \div d \in Int
           /\ a % d \in 0 .. d - 1
           /\ a = (a \div d) * d + (a % d)
  BY SMT

LEMMA Quotient ==
    ASSUME NEW q \in Int, NEW d \in Nat \ {0}, NEW r \in 0 .. d - 1
    PROVE  (q * d + r) \div d = q
  <1> DEFINE a == q * d + r
             p == a \div d
             s == a % d
  <1>1. a \in Int /\ p \in Int /\ s \in 0 .. d - 1 /\ a = p * d + s
    BY Division, SMT
  <1> HIDE DEF p, s, a
  <1>2. (q - p) * d = s - r
    BY <1>1, Distributive, SMT DEF a
  <1>3. ~(q - p >= 1) /\ ~(q - p <= -1)
    BY <1>1, <1>2, AtLeast, SMT
  <1> QED
    BY <1>1, <1>3, SMT DEF p, a

Exact(a, d) == a % d = 0

LEMMA ExactDivision ==
    ASSUME NEW a \in Int, NEW d \in Nat \ {0}, Exact(a, d)
    PROVE  (a \div d) * d = a
  BY Division, SMT DEF Exact

-----------------------------------------------------------------------------
\* What the operations compute, as instants.

Timespec == [ijd : Int, fjd : 0 .. Day - 1, tt2tdb : Int, ut1_to_tt : Int, dut1 : Int]

LEMMA Units ==
    /\ {Day, Second, Milli, Nano} \subseteq Nat \ {0}
    /\ {Dta, GpsToTai, J2000Day, UnixJ2000} \subseteq Int
    /\ (Day \div Second) * Second = Day /\ Day \div Second \in Nat \ {0}
    /\ (Second \div Nano) * Nano = Second
    /\ (Day \div Milli) * Milli = Day /\ 2 * (Day \div 2) = Day
  <1>1. {Day, Second, Milli, Nano} \subseteq Nat \ {0} /\ {Dta, GpsToTai, J2000Day, UnixJ2000} \subseteq Int
    BY TimeAssumption
  <1> USE <1>1
  <1>0. Exact(Day, Second) /\ Exact(Second, Nano) /\ Exact(Day, 2 * Milli)
    BY TimeAssumption, SMT DEF Exact
  <1>2. (Day \div Second) * Second = Day
    BY <1>0, ExactDivision
  <1>3. Day \div Second \in Nat \ {0}
    BY <1>1, <1>2, SMT
  <1>4. (Second \div Nano) * Nano = Second
    <2>1. Second \in Int /\ Nano \in Nat \ {0}
      BY SMT
    <2> QED
      BY <2>1, <1>0, ExactDivision
  <1>5. PICK k \in Int : Day = k * (2 * Milli)
    <2>1. 2 * Milli \in Nat \ {0} /\ Day \in Int
      BY SMT
    <2>2. Day \div (2 * Milli) \in Int /\ (Day \div (2 * Milli)) * (2 * Milli) = Day
      BY <2>1, <1>0, ExactDivision, Division
    <2> QED
      BY <2>2
  <1>6. (Day \div Milli) * Milli = Day
    BY <1>1, <1>5, Quotient, SMT
  <1>7. 2 * (Day \div 2) = Day
    BY <1>1, <1>5, SMT
  <1> QED
    BY <1>1, <1>2, <1>3, <1>4, <1>6, <1>7

LEMMA SplitKeeps ==
    ASSUME NEW ijd \in Int, NEW fjd \in Int
    PROVE  /\ Split(ijd, fjd).ijd \in Int
           /\ Split(ijd, fjd).fjd \in 0 .. Day - 1
           /\ Instant(Split(ijd, fjd)) = ijd * Day + fjd
  <1>1. Day \in Nat \ {0}
    BY Units
  <1> DEFINE q == fjd \div Day
  <1>2. q \in Int /\ fjd % Day \in 0 .. Day - 1 /\ fjd = q * Day + (fjd % Day)
    BY <1>1, Division
  <1>3. (ijd + q) * Day = ijd * Day + q * Day
    BY <1>1, <1>2, Distributive
  <1> QED
    BY <1>1, <1>2, <1>3, SMT DEF Split, Instant

LEMMA OffsetOf ==
    ASSUME NEW ts
    PROVE  /\ Offset(ts, "TT") = 0
           /\ Offset(ts, "TDB") = ts.tt2tdb
           /\ Offset(ts, "TAI") = -Dta
           /\ Offset(ts, "GPS") = -(Dta + GpsToTai)
           /\ Offset(ts, "UTC") = -(ts.ut1_to_tt + ts.dut1)
           /\ Offset(ts, "UT1") = -ts.ut1_to_tt
  BY DEF Offset

LEMMA OffsetInt ==
    ASSUME NEW ts, ts.tt2tdb \in Int, ts.ut1_to_tt \in Int, ts.dut1 \in Int, NEW scale \in Scales
    PROVE  Offset(ts, scale) \in Int
  <1>1. Dta \in Int /\ GpsToTai \in Int
    BY Units
  <1> QED
    BY <1>1, OffsetOf, SMT DEF Scales

LEMMA GetKeeps ==
    ASSUME NEW ts \in Timespec, NEW scale \in Scales
    PROVE  /\ GetSplitTime(ts, scale).ijd \in Int
           /\ GetSplitTime(ts, scale).fjd \in Int
           /\ Instant(GetSplitTime(ts, scale)) = Instant(ts) + Offset(ts, scale)
  <1>1. Day \in Nat \ {0}
    BY Units
  <1>2. ts.ijd \in Int /\ ts.fjd \in Int /\ Offset(ts, scale) \in Int
    BY <1>1, OffsetInt, SMT DEF Timespec
  <1>3. (ts.ijd + 1) * Day = ts.ijd * Day + Day /\ (ts.ijd - 1) * Day = ts.ijd * Day - Day
    BY <1>1, <1>2, SMT
  <1> QED
    BY <1>1, <1>2, <1>3, SMT DEF GetSplitTime, Instant

LEMMA TimeLeapRight ==
    ASSUME NEW ts, NEW leap \in Int,
           ts.ut1_to_tt + ts.dut1 - Dta = leap * Second
    PROVE  TimeLeap(ts) = leap
  <1>1. Second \in Nat \ {0}
    BY Units
  <1>2. \A n \in Int : (2 * (n * Second) + Second) \div (2 * Second) = n
    <2> TAKE n \in Int
    <2>1. 2 * (n * Second) + Second = n * (2 * Second) + Second /\ Second \in 0 .. 2 * Second - 1
      BY <1>1, SMT
    <2>2. 2 * Second \in Nat \ {0}
      BY <1>1, SMT
    <2> QED
      BY <2>1, <2>2, Quotient
  <1>3. -(leap * Second) = (-leap) * Second /\ -(-leap) = leap /\ -leap \in Int
    BY <1>1, SMT
  <1> QED
    BY <1>2, <1>3 DEF TimeLeap

LEMMA SetKeeps ==
    ASSUME NEW scale \in Scales, NEW ijd \in Int, NEW fjd \in Int, NEW leap \in Int,
           NEW dut1 \in Int, NEW tdb \in Int, NEW diurnal \in Int
    PROVE  LET ts == SetSplitTime(scale, ijd, fjd, leap, dut1, tdb, diurnal) IN
           /\ ts \in Timespec
           /\ Instant(ts) + Offset(ts, scale) = ijd * Day + fjd + (IF scale = "UT1" THEN diurnal ELSE 0)
           /\ ts.ut1_to_tt + ts.dut1 - Dta = leap * Second
  <1> DEFINE start == [tt2tdb |-> tdb, ut1_to_tt |-> Ut1ToTt(leap, dut1), dut1 |-> dut1]
             o     == Offset(start, scale)
             tt    == Split(ijd, fjd - o)
             ts    == SetSplitTime(scale, ijd, fjd, leap, dut1, tdb, diurnal)
  <1>1. Second \in Nat \ {0} /\ Dta \in Int /\ GpsToTai \in Int /\ Day \in Nat \ {0}
    BY Units, SMT
  <1>2. Ut1ToTt(leap, dut1) \in Int /\ Ut1ToTt(leap, dut1) + dut1 - Dta = leap * Second
    BY <1>1, SMT DEF Ut1ToTt
  <1>3. start.tt2tdb \in Int /\ start.ut1_to_tt \in Int /\ start.dut1 \in Int
    BY <1>2
  <1>4. o \in Int
    BY <1>3, OffsetInt
  <1>5. ts = [ijd |-> tt.ijd, fjd |-> tt.fjd, tt2tdb |-> tdb,
              ut1_to_tt |-> Ut1ToTt(leap, dut1) - diurnal, dut1 |-> dut1 + diurnal]
    BY DEF SetSplitTime
  <1>6. tt.ijd \in Int /\ tt.fjd \in 0 .. Day - 1 /\ Instant(tt) = ijd * Day + (fjd - o)
    <2>1. fjd - o \in Int
      BY <1>4, SMT
    <2> QED
      BY <2>1, SplitKeeps
  <1>7. Offset(ts, scale) = o + (IF scale = "UT1" THEN diurnal ELSE 0)
    BY <1>1, <1>2, <1>5, OffsetOf, SMT DEF Scales
  <1>8. Instant(ts) = Instant(tt)
    BY <1>5 DEF Instant
  <1> HIDE DEF tt, ts, o, start
  <1>9. ts \in Timespec
    BY <1>1, <1>2, <1>5, <1>6, SMT DEF Timespec
  <1>10. ijd * Day \in Int
    BY <1>1, SMT
  <1>11. Instant(ts) + Offset(ts, scale) = ijd * Day + fjd + (IF scale = "UT1" THEN diurnal ELSE 0)
    BY <1>4, <1>6, <1>7, <1>8, <1>10, SMT
  <1>12. ts.ut1_to_tt + ts.dut1 - Dta = leap * Second
    BY <1>1, <1>2, <1>5, SMT
  <1> QED
    BY <1>9, <1>11, <1>12 DEF ts

\* A UNIX time is set as some day and fraction of UTC of the same instant.
AsUtc(unix, nanos, leap, dut1, tdb, diurnal) ==
    \E ijd \in Int, fjd \in Int :
        /\ SetUnixTime(unix, nanos, leap, dut1, tdb, diurnal)
             = SetSplitTime("UTC", ijd, fjd, leap, dut1, tdb, diurnal)
        /\ ijd * Day + fjd = J2000Day * Day + (unix - UnixJ2000) * Second + nanos * Nano

\* The quotient of C, towards zero, with the remainder made positive.
LEMMA UnixKeeps ==
    ASSUME NEW unix \in Int, NEW nanos \in Int, NEW leap \in Int,
           NEW dut1 \in Int, NEW tdb \in Int, NEW diurnal \in Int
    PROVE  AsUtc(unix, nanos, leap, dut1, tdb, diurnal)
  <1> DEFINE idays == Day \div Second
             since == unix - UnixJ2000
             days  == IF since < 0 THEN -((-since) \div idays) ELSE since \div idays
             rest  == since - days * idays
             jd    == J2000Day + days
             fjd   == rest * Second + nanos * Nano
             less  == (rest + idays) * Second + nanos * Nano
  <1>1. /\ Second \in Nat \ {0} /\ Nano \in Nat \ {0} /\ Day \in Nat \ {0}
        /\ J2000Day \in Int /\ UnixJ2000 \in Int
        /\ idays \in Nat \ {0} /\ idays * Second = Day
    BY Units, SMT
  <1>2. since \in Int /\ -since \in Int
    BY <1>1, SMT
  <1> HIDE DEF idays, since
  <1>3. days \in Int
    BY <1>1, <1>2, Division, SMT
  <1> HIDE DEF days
  <1>4. days * idays \in Int /\ (days * idays) * Second = days * Day
    BY <1>1, <1>3, SMT
  <1>5. rest \in Int /\ rest * Second = since * Second - days * Day
    BY <1>1, <1>2, <1>4, Distributive, SMT
  <1> HIDE DEF rest
  <1>6. (rest + idays) * Second = rest * Second + Day
    BY <1>1, <1>5, Distributive, SMT
  <1>7. jd * Day = J2000Day * Day + days * Day /\ (jd - 1) * Day = jd * Day - Day /\ jd \in Int
    BY <1>1, <1>3, Distributive, SMT
  <1> HIDE DEF jd
  <1>8. /\ since * Second \in Int /\ days * Day \in Int /\ nanos * Nano \in Int
        /\ J2000Day * Day \in Int /\ rest * Second \in Int
    BY <1>1, <1>2, <1>3, <1>5, SMT
  <1>9. fjd \in Int /\ jd * Day + fjd = J2000Day * Day + since * Second + nanos * Nano
    BY <1>5, <1>7, <1>8, SMT
  <1>10. less \in Int /\ (jd - 1) * Day + less = jd * Day + fjd
    BY <1>1, <1>6, <1>7, <1>8, SMT
  <1>11. SetUnixTime(unix, nanos, leap, dut1, tdb, diurnal)
           = IF rest < 0 THEN SetSplitTime("UTC", jd - 1, less, leap, dut1, tdb, diurnal)
             ELSE SetSplitTime("UTC", jd, fjd, leap, dut1, tdb, diurnal)
    BY DEF SetUnixTime, idays, since, days, rest, jd
  <1> HIDE DEF less, fjd
  <1>12. CASE rest < 0
    BY <1>7, <1>9, <1>10, <1>11, <1>12 DEF since, AsUtc
  <1>13. CASE ~(rest < 0)
    BY <1>7, <1>9, <1>11, <1>13 DEF since, AsUtc
  <1> QED
    BY <1>12, <1>13

-----------------------------------------------------------------------------
\* The inductive invariant: time is told.at in the scale of told, and as far from
\* before as elapsed says, which has the same offsets.

Told == [scale : Scales, at : Int, leap : Int, diurnal : Int]

Late == IF told.scale = "UT1" THEN told.diurnal ELSE 0

TimeInv ==
    /\ time \in Timespec
    /\ before \in Timespec
    /\ told \in Told
    /\ elapsed \in Int
    /\ Instant(time) + Offset(time, told.scale) = told.at + Late
    /\ time.ut1_to_tt + time.dut1 - Dta = told.leap * Second
    /\ Instant(time) - Instant(before) = elapsed
    /\ \A scale \in Scales : Offset(time, scale) = Offset(before, scale)

LEMMA InstantInt == ASSUME NEW ts \in Timespec PROVE Instant(ts) \in Int
  <1>1. Day \in Nat \ {0}
    BY Units
  <1> QED
    BY <1>1, SMT DEF Timespec, Instant

\* A time just set.
LEMMA SetInv ==
    ASSUME NEW ts \in Timespec, NEW scale \in Scales, NEW at \in Int, NEW leap \in Int, NEW diurnal \in Int,
           Instant(ts) + Offset(ts, scale) = at + (IF scale = "UT1" THEN diurnal ELSE 0),
           ts.ut1_to_tt + ts.dut1 - Dta = leap * Second,
           Became(ts, scale, at, leap, diurnal)
    PROVE  TimeInv'
  <1>1. time' = ts /\ before' = ts /\ elapsed' = 0
    BY DEF Became
  <1>2. told' = [scale |-> scale, at |-> at, leap |-> leap, diurnal |-> diurnal]
    BY DEF Became
  <1>3. told' \in Told /\ Late' = IF scale = "UT1" THEN diurnal ELSE 0
    BY <1>2 DEF Told, Late
  <1>4. Instant(ts) - Instant(ts) = 0
    BY InstantInt, SMT
  <1> QED
    BY <1>1, <1>2, <1>3, <1>4 DEF TimeInv

LEMMA ArgumentsInt ==
    Days \cup Fractions \cup UnixTimes \cup Nanos \cup Leaps \cup Dut1s \cup Shifts
        \cup TdbOffsets \cup DiurnalOffsets \subseteq Int
  BY TimeAssumption

LEMMA InitInv == TimeInit => TimeInv
  <1> SUFFICES ASSUME TimeInit PROVE TimeInv
    OBVIOUS
  <1> DEFINE ts == SetSplitTime("TT", J2000Day, 0, 0, 0, 0, 0)
  <1>1. J2000Day \in Int /\ J2000Day * Day \in Int
    BY Units, SMT
  <1>2. /\ ts \in Timespec
        /\ Instant(ts) + Offset(ts, "TT") = J2000Day * Day + 0 + 0
        /\ ts.ut1_to_tt + ts.dut1 - Dta = 0 * Second
    BY <1>1, SetKeeps, SMT DEF Scales
  <1>3. time = ts /\ before = ts /\ elapsed = 0
    BY DEF TimeInit
  <1>4. told = [scale |-> "TT", at |-> J2000Day * Day, leap |-> 0, diurnal |-> 0]
    BY DEF TimeInit
  <1>5. told \in Told /\ Late = 0
    BY <1>1, <1>4 DEF Told, Late, Scales
  <1>6. Instant(ts) - Instant(ts) = 0
    BY <1>2, InstantInt, SMT
  <1> HIDE DEF ts
  <1> QED
    BY <1>1, <1>2, <1>3, <1>4, <1>5, <1>6, SMT DEF TimeInv

LEMMA ShiftInv == TimeInv /\ Shift => TimeInv'
  <1> SUFFICES ASSUME TimeInv, NEW shift \in Shifts,
                      LET shifted == OffsetTime(time, shift) IN
                      /\ time' = shifted
                      /\ told' = [told EXCEPT !.at = @ + shift]
                      /\ \/ before' = time /\ elapsed' = shift
                         \/ before' = before /\ elapsed' = elapsed + shift
               PROVE  TimeInv'
    BY DEF Shift
  <1> DEFINE tt == Split(time.ijd, time.fjd + shift)
             at == Instant(time)
  <1>1. shift \in Int /\ Day \in Nat \ {0}
    BY ArgumentsInt, Units
  <1>2. time \in Timespec /\ time.ijd \in Int /\ time.fjd \in Int /\ time.fjd + shift \in Int
    BY <1>1, SMT DEF TimeInv, Timespec
  <1>3. tt.ijd \in Int /\ tt.fjd \in 0 .. Day - 1 /\ Instant(tt) = time.ijd * Day + (time.fjd + shift)
    BY <1>2, SplitKeeps
  <1>4. time' = [time EXCEPT !.ijd = tt.ijd, !.fjd = tt.fjd]
    BY DEF OffsetTime
  <1> HIDE DEF tt
  <1>5. time' \in Timespec /\ time'.ijd = tt.ijd /\ time'.fjd = tt.fjd
    BY <1>2, <1>3, <1>4 DEF Timespec
  <1>6. time'.tt2tdb = time.tt2tdb /\ time'.ut1_to_tt = time.ut1_to_tt /\ time'.dut1 = time.dut1
    BY <1>2, <1>4 DEF Timespec
  <1>7. \A scale \in Scales : Offset(time', scale) = Offset(time, scale)
    BY <1>6, OffsetOf, SMT DEF Scales
  <1>8. at \in Int /\ Instant(time') = at + shift
    <2>1. time.ijd * Day \in Int
      BY <1>1, <1>2, SMT
    <2> QED
      BY <1>1, <1>2, <1>3, <1>5, <2>1, SMT DEF Instant
  <1> HIDE DEF at
  <1>9. told' \in Told /\ told'.at = told.at + shift /\ told'.scale = told.scale /\ told'.leap = told.leap
        /\ Late' = Late /\ told.scale \in Scales /\ told.at \in Int
    BY <1>1 DEF TimeInv, Told, Late
  <1>10. Offset(time, told.scale) \in Int
    BY <1>2, <1>9, OffsetInt DEF Timespec
  <1>11. Late \in Int
    BY DEF TimeInv, Told, Late
  <1>12. Instant(time') + Offset(time', told'.scale) = told'.at + Late'
    <2>1. at + Offset(time, told.scale) = told.at + Late
      BY DEF TimeInv, at
    <2>2. Offset(time', told'.scale) = Offset(time, told.scale)
      BY <1>7, <1>9
    <2> QED
      BY <1>1, <1>8, <1>9, <1>10, <1>11, <2>1, <2>2, SMT
  <1>13. Instant(before) \in Int /\ at - Instant(before) = elapsed
    BY InstantInt DEF TimeInv, at
  <1>14. /\ before' \in Timespec
         /\ elapsed' \in Int
         /\ Instant(time') - Instant(before') = elapsed'
         /\ \A scale \in Scales : Offset(time', scale) = Offset(before', scale)
    <2>1. CASE before' = time /\ elapsed' = shift
      <3>1. Instant(before') = at
        BY <2>1 DEF at
      <3> QED
        BY <1>1, <1>2, <1>7, <1>8, <2>1, <3>1, SMT
    <2>2. CASE before' = before /\ elapsed' = elapsed + shift
      <3>1. before \in Timespec /\ elapsed \in Int
            /\ \A scale \in Scales : Offset(time, scale) = Offset(before, scale)
        BY DEF TimeInv
      <3>2. elapsed' \in Int /\ Instant(time') - Instant(before') = elapsed'
        BY <1>1, <1>8, <1>13, <2>2, <3>1, SMT
      <3> QED
        BY <1>7, <2>2, <3>1, <3>2
    <2> QED
      BY <2>1, <2>2
  <1>15. time'.ut1_to_tt + time'.dut1 - Dta = told'.leap * Second
    BY <1>6, <1>9 DEF TimeInv
  <1> QED
    BY <1>5, <1>9, <1>12, <1>14, <1>15 DEF TimeInv

LEMMA StepInv == TimeInv /\ [TimeNext]_timeVars => TimeInv'
  <1> SUFFICES ASSUME TimeInv, [TimeNext]_timeVars PROVE TimeInv'
    OBVIOUS
  <1>1. CASE Set
    <2> PICK scale \in Scales, ijd \in Days, fjd \in Fractions, leap \in Leaps, dut1 \in Dut1s,
             tdb \in TdbOffsets, diurnal \in DiurnalOffsets :
               Became(SetSplitTime(scale, ijd, fjd, leap, dut1, tdb, diurnal),
                      scale, ijd * Day + fjd, leap, diurnal)
      BY <1>1 DEF Set
    <2>1. ijd \in Int /\ fjd \in Int /\ leap \in Int /\ dut1 \in Int /\ tdb \in Int /\ diurnal \in Int
      BY ArgumentsInt
    <2>2. ijd * Day + fjd \in Int
      BY <2>1, Units, SMT
    <2> QED
      BY <2>1, <2>2, SetKeeps, SetInv
  <1>2. CASE SetUnix
    <2> PICK unix \in UnixTimes, nanos \in Nanos, leap \in Leaps, dut1 \in Dut1s,
             tdb \in TdbOffsets, diurnal \in DiurnalOffsets :
               Became(SetUnixTime(unix, nanos, leap, dut1, tdb, diurnal), "UTC",
                      J2000Day * Day + (unix - UnixJ2000) * Second + nanos * Nano, leap, diurnal)
      BY <1>2 DEF SetUnix
    <2>1. unix \in Int /\ nanos \in Int /\ leap \in Int /\ dut1 \in Int /\ tdb \in Int /\ diurnal \in Int
      BY ArgumentsInt
    <2>2. PICK ijd \in Int, fjd \in Int :
              /\ SetUnixTime(unix, nanos, leap, dut1, tdb, diurnal)
                   = SetSplitTime("UTC", ijd, fjd, leap, dut1, tdb, diurnal)
              /\ ijd * Day + fjd = J2000Day * Day + (unix - UnixJ2000) * Second + nanos * Nano
      <3>1. AsUtc(unix, nanos, leap, dut1, tdb, diurnal)
        BY <2>1, UnixKeeps
      <3> QED
        BY <3>1 DEF AsUtc
    <2>3. Became(SetSplitTime("UTC", ijd, fjd, leap, dut1, tdb, diurnal), "UTC", ijd * Day + fjd, leap, diurnal)
      BY <2>2
    <2>4. ijd * Day + fjd \in Int
      BY Units, SMT
    <2>5. "UTC" \in Scales /\ "UTC" # "UT1"
      BY DEF Scales
    <2> DEFINE ts == SetSplitTime("UTC", ijd, fjd, leap, dut1, tdb, diurnal)
    <2>6. /\ ts \in Timespec
          /\ Instant(ts) + Offset(ts, "UTC") = ijd * Day + fjd + (IF "UTC" = "UT1" THEN diurnal ELSE 0)
          /\ ts.ut1_to_tt + ts.dut1 - Dta = leap * Second
      BY <2>1, <2>5, SetKeeps
    <2> HIDE DEF ts
    <2> QED
      BY <2>1, <2>3, <2>4, <2>5, <2>6, SetInv DEF ts
  <1>3. CASE Shift
    BY <1>3, ShiftInv
  <1>4. CASE UNCHANGED timeVars
    <2>1. time' = time /\ before' = before /\ told' = told /\ elapsed' = elapsed
      BY <1>4 DEF timeVars
    <2> QED
      BY <2>1 DEF TimeInv, Late
  <1> QED
    BY <1>1, <1>2, <1>3, <1>4 DEF TimeNext

\* The invariant that the properties follow from.
THEOREM TimesInvariant == TimeSpec => []TimeInv
  <1> QED
    BY InitInv, StepInv, PTL DEF TimeSpec

\* Days are normalised whatever was set and shifted.
THEOREM TimesTyped == TimeSpec => []TimeTypeOK
  <1>1. TimeInv => TimeTypeOK
    BY SMT DEF TimeInv, TimeTypeOK, Timespec
  <1> QED
    BY <1>1, TimesInvariant, PTL

\* What was set is what is read.
THEOREM TimesReadAsSet == TimeSpec => []ReadsAsSet
  <1>1. TimeInv => ReadsAsSet
    <2> SUFFICES ASSUME TimeInv PROVE ReadsAsSet
      OBVIOUS
    <2>1. told.scale \in Scales /\ told.leap \in Int /\ told.at \in Int
      BY DEF TimeInv, Told
    <2>2. TimeLeap(time) = told.leap
      BY <2>1, TimeLeapRight DEF TimeInv
    <2>3. Instant(GetSplitTime(time, told.scale)) = told.at + Late
      BY <2>1, GetKeeps DEF TimeInv
    <2>4. told.scale # "UT1" \/ told.diurnal = 0 => Late = 0
      BY DEF Late
    <2> QED
      BY <2>1, <2>2, <2>3, <2>4, SMT DEF ReadsAsSet
  <1> QED
    BY <1>1, TimesInvariant, PTL

\* Differences do not depend on the scale.
THEOREM DifferencesRight == TimeSpec => []DiffIsElapsed
  <1>1. TimeInv => DiffIsElapsed
    <2> SUFFICES ASSUME TimeInv, NEW scale \in Scales
                 PROVE  DiffTimeScale(time, before, scale) = elapsed
      BY DEF DiffIsElapsed
    <2> DEFINE a == GetSplitTime(time, scale)
               b == GetSplitTime(before, scale)
    <2>1. time \in Timespec /\ before \in Timespec
      BY DEF TimeInv
    <2>2. a.ijd \in Int /\ a.fjd \in Int /\ b.ijd \in Int /\ b.fjd \in Int
      BY <2>1, GetKeeps
    <2>3. Instant(a) = Instant(time) + Offset(time, scale) /\ Instant(b) = Instant(before) + Offset(before, scale)
      BY <2>1, GetKeeps
    <2>4. DiffTimeScale(time, before, scale) = (a.ijd - b.ijd) * Day + (a.fjd - b.fjd)
      BY DEF DiffTimeScale
    <2> HIDE DEF a, b
    <2>5. Day \in Nat \ {0} /\ (a.ijd - b.ijd) * Day = a.ijd * Day - b.ijd * Day
      BY <2>2, Units, Distributive, SMT
    <2>6. a.ijd * Day \in Int /\ b.ijd * Day \in Int
      BY <2>2, <2>5, SMT
    <2>7. DiffTimeScale(time, before, scale) = Instant(a) - Instant(b)
      BY <2>2, <2>4, <2>5, <2>6, SMT DEF Instant
    <2>8. Offset(time, scale) = Offset(before, scale) /\ Offset(time, scale) \in Int
      BY <2>1, OffsetInt DEF TimeInv, Timespec
    <2>9. Instant(time) \in Int /\ Instant(before) \in Int /\ Instant(time) - Instant(before) = elapsed
      BY <2>1, InstantInt DEF TimeInv
    <2> QED
      BY <2>3, <2>7, <2>8, <2>9, SMT
  <1> QED
    BY <1>1, TimesInvariant, PTL

\* Rounding to the nearest multiple of d.
LEMMA Rounded ==
    ASSUME NEW x \in Int, NEW d \in Nat \ {0}
    PROVE  /\ (x + d) \div (2 * d) \in Int
           /\ x - 2 * (((x + d) \div (2 * d)) * d) \in -d .. d
  <1> DEFINE n == (x + d) \div (2 * d)
             r == (x + d) % (2 * d)
  <1>1. x + d \in Int /\ 2 * d \in Nat \ {0}
    BY SMT
  <1>2. n \in Int /\ r \in 0 .. (2 * d) - 1 /\ x + d = n * (2 * d) + r
    BY <1>1, Division
  <1> HIDE DEF n, r
  <1>3. n * (2 * d) = 2 * (n * d) /\ n * d \in Int
    BY <1>2, SMT
  <1>4. x - 2 * (n * d) \in -d .. d
    BY <1>2, <1>3, SMT
  <1> QED
    BY <1>2, <1>4 DEF n

\* A multiple of d within d / 2 of x is within any multiples of d that x is within.
LEMMA Within ==
    ASSUME NEW n \in Int, NEW m \in Int, NEW d \in Nat \ {0}, NEW x \in Int,
           x - 2 * (n * d) \in -d .. d, x >= 0, x < 2 * (m * d)
    PROVE  n \in 0 .. m
  <1>1. n * d \in Int /\ m * d \in Int
    BY SMT
  <1>2. ~(n <= -1)
    BY <1>1, AtLeast, SMT
  <1>3. (n - m) * d = n * d - m * d
    BY Distributive
  <1>4. ~(n - m >= 1)
    BY <1>1, <1>3, AtLeast, SMT
  <1> QED
    BY <1>2, <1>4, SMT

\* The carry is all that rounding to nanoseconds needs.
THEOREM UnixTimesRight == TimeSpec => []UnixIsNearest
  <1>1. TimeInv => UnixIsNearest
    <2> SUFFICES ASSUME TimeInv PROVE UnixIsNearest
      OBVIOUS
    <2> DEFINE utc   == GetSplitTime(time, "UTC")
               isod  == utc.fjd \div Second
               rest  == utc.fjd % Second
               nanos == (2 * rest + Nano) \div (2 * Nano)
               days  == utc.ijd - J2000Day
               unix  == UnixJ2000 + days * (Day \div Second) + isod
               seconds == UnixTime(time).seconds
               ns      == UnixTime(time).nanos
    <2>1. /\ Second \in Nat \ {0} /\ Nano \in Nat \ {0} /\ Day \in Nat \ {0}
          /\ J2000Day \in Int /\ UnixJ2000 \in Int
          /\ Day \div Second \in Int /\ (Day \div Second) * Second = Day
          /\ Second \div Nano \in Int /\ (Second \div Nano) * Nano = Second
      BY Units, SMT
    <2>2. utc.ijd \in Int /\ utc.fjd \in Int
      BY GetKeeps DEF TimeInv, Scales
    <2>3. UnixTime(time) = IF nanos = Second \div Nano THEN [seconds |-> unix + 1, nanos |-> 0]
                           ELSE [seconds |-> unix, nanos |-> nanos]
      BY DEF UnixTime
    <2> HIDE DEF utc
    <2>4. isod \in Int /\ rest \in 0 .. Second - 1 /\ utc.fjd = isod * Second + rest
      BY <2>1, <2>2, Division
    <2> HIDE DEF isod, rest
    <2>5. nanos \in Int /\ 2 * rest - 2 * (nanos * Nano) \in -Nano .. Nano
      BY <2>1, <2>4, Rounded, SMT
    <2> HIDE DEF nanos
    <2>6. nanos \in 0 .. Second \div Nano
      BY <2>1, <2>4, <2>5, Within, SMT
    <2>7. days \in Int /\ days * Day = utc.ijd * Day - J2000Day * Day
      <3>1. utc.ijd \in Int /\ J2000Day \in Int /\ Day \in Int
        BY <2>1, <2>2, SMT
      <3> QED
        BY <3>1, Distributive
    <2> HIDE DEF days
    <2>8. days * (Day \div Second) \in Int /\ (days * (Day \div Second)) * Second = days * Day
      BY <2>1, <2>7, SMT
    <2>9. unix \in Int /\ (unix - UnixJ2000) * Second = days * Day + isod * Second
      <3>1. unix - UnixJ2000 = days * (Day \div Second) + isod /\ unix \in Int
        BY <2>1, <2>4, <2>8, SMT
      <3>2. \A k \in Int : (k + isod) * Second = k * Second + isod * Second
        BY <2>1, <2>4, SMT
      <3> QED
        BY <2>8, <3>1, <3>2
    <2> HIDE DEF unix
    <2>10. /\ ns \in 0 .. (Second \div Nano) - 1
           /\ seconds \in Int
           /\ (seconds - UnixJ2000) * Second + ns * Nano = (unix - UnixJ2000) * Second + nanos * Nano
      <3>1. CASE nanos = Second \div Nano
        <4>1. ns = 0 /\ seconds = unix + 1
          BY <2>3, <3>1
        <4>2. ((unix + 1) - UnixJ2000) * Second = (unix - UnixJ2000) * Second + Second
          BY <2>1, <2>9, SMT
        <4>3. Second \div Nano >= 1
          BY <2>1, SMT
        <4>4. (unix - UnixJ2000) * Second \in Int
          BY <2>1, <2>9, SMT
        <4> QED
          BY <2>1, <2>9, <3>1, <4>1, <4>2, <4>3, <4>4, SMT
      <3>2. CASE nanos # Second \div Nano
        BY <2>1, <2>3, <2>6, <2>9, <3>2, SMT
      <3> QED
        BY <3>1, <3>2
    <2>11. utc.ijd * Day \in Int /\ J2000Day * Day \in Int /\ isod * Second \in Int /\ nanos * Nano \in Int
           /\ (seconds - UnixJ2000) * Second \in Int /\ ns * Nano \in Int
      BY <2>1, <2>2, <2>4, <2>5, <2>10, SMT
    <2> HIDE DEF seconds, ns
    <2>12. Instant(utc) = utc.ijd * Day + utc.fjd
      BY DEF Instant
    <2>13. 2 * (Instant(utc) - (J2000Day * Day + (seconds - UnixJ2000) * Second + ns * Nano)) \in -Nano .. Nano
      BY <2>1, <2>2, <2>4, <2>5, <2>7, <2>9, <2>10, <2>11, <2>12, SMT
    <2> QED
      BY <2>10, <2>13 DEF UnixIsNearest, seconds, ns, utc
  <1> QED
    BY <1>1, TimesInvariant, PTL

\* Nor does rounding to milliseconds need more, in any scale.
THEOREM StampsRight == TimeSpec => []StampIsNearest
  <1>1. TimeInv => StampIsNearest
    <2> SUFFICES ASSUME TimeInv, NEW scale \in Scales
                 PROVE  /\ Stamp(time, scale).ms \in 0 .. (Day \div Milli) - 1
                        /\ 2 * (Instant(GetSplitTime(time, scale))
                                 - (Stamp(time, scale).day * Day - Day \div 2 + Stamp(time, scale).ms * Milli))
                             \in -Milli .. Milli
      BY DEF StampIsNearest
    <2> DEFINE g  == GetSplitTime(time, scale)
               dd == (2 * g.fjd + Day) \div (2 * Day)
               y  == 2 * (g.fjd - dd * Day) + Day
               n  == (y + Milli) \div (2 * Milli)
               day == Stamp(time, scale).day
               ms  == Stamp(time, scale).ms
    <2>1. /\ Day \in Nat \ {0} /\ Milli \in Nat \ {0} /\ 2 * Day \in Nat \ {0}
          /\ Day \div Milli \in Int /\ (Day \div Milli) * Milli = Day
          /\ Day \div 2 \in Int /\ 2 * (Day \div 2) = Day
      BY Units, SMT
    <2>2. g.ijd \in Int /\ g.fjd \in Int
      BY GetKeeps DEF TimeInv
    <2>3. Stamp(time, scale) = IF n >= Day \div Milli THEN [day |-> g.ijd + dd + 1, ms |-> n - Day \div Milli]
                               ELSE [day |-> g.ijd + dd, ms |-> n]
      BY DEF Stamp
    <2> HIDE DEF g
    <2>4. dd \in Int /\ dd * Day \in Int /\ y \in Int /\ y >= 0 /\ y < 2 * Day
      <3> DEFINE r == (2 * g.fjd + Day) % (2 * Day)
      <3>1. 2 * g.fjd + Day \in Int
        BY <2>1, <2>2, SMT
      <3>2. dd \in Int /\ r \in 0 .. (2 * Day) - 1 /\ 2 * g.fjd + Day = dd * (2 * Day) + r
        BY <2>1, <3>1, Division
      <3> HIDE DEF dd, r
      <3>3. dd * (2 * Day) = 2 * (dd * Day) /\ dd * Day \in Int
        BY <2>1, <3>2, SMT
      <3> QED
        BY <2>1, <2>2, <3>2, <3>3, SMT
    <2> HIDE DEF dd
    <2>5. 2 * (g.fjd - dd * Day) = y - Day
      BY <2>1, <2>2, <2>4, SMT
    <2> HIDE DEF y
    <2>6. n \in Int /\ y - 2 * (n * Milli) \in -Milli .. Milli
      BY <2>1, <2>4, Rounded
    <2> HIDE DEF n
    <2>7. n \in 0 .. Day \div Milli
      BY <2>1, <2>4, <2>6, Within
    <2>8. (g.ijd + dd) * Day = g.ijd * Day + dd * Day /\ (g.ijd + dd + 1) * Day = g.ijd * Day + dd * Day + Day
          /\ g.ijd * Day \in Int /\ n * Milli \in Int
          /\ (n - (Day \div Milli)) * Milli = n * Milli - Day
      <3>1. g.ijd * Day \in Int /\ n * Milli \in Int
        BY <2>1, <2>2, <2>6, SMT
      <3>2. \A a, b \in Int : (a + b) * Day = a * Day + b * Day /\ (a + b + 1) * Day = a * Day + b * Day + Day
        BY <2>1, SMT
      <3>3. \A k \in Int : (n - k) * Milli = n * Milli - k * Milli
        BY <2>1, <2>6, SMT
      <3> QED
        BY <2>1, <2>2, <2>4, <3>1, <3>2, <3>3
    <2>9. /\ ms \in 0 .. (Day \div Milli) - 1
          /\ day * Day + ms * Milli = g.ijd * Day + dd * Day + n * Milli
          /\ day * Day \in Int /\ ms * Milli \in Int
      <3>1. CASE n >= Day \div Milli
        <4>1. day = g.ijd + dd + 1 /\ ms = n - Day \div Milli
          BY <2>3, <3>1
        <4>2. ms = 0 /\ Day \div Milli >= 1
          BY <2>1, <2>7, <3>1, <4>1, SMT
        <4> HIDE DEF ms, day
        <4> QED
          BY <2>1, <2>2, <2>4, <2>7, <2>8, <4>1, <4>2, SMT
      <3>2. CASE ~(n >= Day \div Milli)
        <4>1. day = g.ijd + dd /\ ms = n
          BY <2>3, <3>2
        <4> HIDE DEF ms, day
        <4> QED
          BY <2>1, <2>2, <2>4, <2>7, <2>8, <3>2, <4>1, SMT
      <3> QED
        BY <3>1, <3>2
    <2> HIDE DEF day, ms
    <2>10. Instant(g) = g.ijd * Day + g.fjd
      BY DEF Instant
    <2>11. 2 * (Instant(g) - (day * Day - Day \div 2 + ms * Milli)) \in -Milli .. Milli
      <3>1. 2 * (Instant(g) - (day * Day - Day \div 2 + ms * Milli)) = y - 2 * (n * Milli)
        <4> DEFINE a == g.ijd * Day
                   b == dd * Day
                   c == day * Day
                   d == ms * Milli
                   h == n * Milli
                   j == Day \div 2
                   e == g.fjd
        <4>1. a \in Int /\ b \in Int /\ c \in Int /\ d \in Int /\ h \in Int /\ j \in Int /\ e \in Int
          BY <2>1, <2>2, <2>4, <2>8, <2>9
        <4>2. c + d = a + b + h /\ 2 * j = Day /\ 2 * (e - b) = y - Day /\ Instant(g) = a + e
          BY <2>1, <2>5, <2>9, <2>10
        <4> HIDE DEF a, b, c, d, e, h, j
        <4>3. 2 * (Instant(g) - (c - j + d)) = y - 2 * h
          BY <2>1, <2>4, <4>1, <4>2, SMT
        <4> QED
          BY <4>3 DEF c, d, h, j
      <3> QED
        BY <2>6, <3>1
    <2> QED
      BY <2>9, <2>11 DEF g, day, ms
  <1> QED
    BY <1>1, TimesInvariant, PTL

-----------------------------------------------------------------------------
\* Years begin in March.
MarchShift(m) == IF m <= 2 THEN -1 ELSE 0

\* The number of the day before a calendar is chosen, and in each of the two.
Raw(y, m, d) == d - 32123 + (1461 * (y + 4800 + MarchShift(m))) \div 4
                + (367 * (m - 2 - 12 * MarchShift(m))) \div 12
Centuries(y, m) == (3 * ((y + 4900 + MarchShift(m)) \div 100)) \div 4 - 48
DayNo(t, y, m, d) == IF t = Gregorian THEN Raw(y, m, d) - Centuries(y, m) ELSE Raw(y, m, d) + 10

\* The calendar chosen: the day of the reform is where the raw number passes it.
Reformed(y, m, d) == Raw(y, m, d) >= 2299161
Chosen(t, y, m, d) == IF t # Astronomical THEN t ELSE IF Reformed(y, m, d) THEN Gregorian ELSE Roman

\* The time of an hour of a day.
TimeOf(n, h) == 24 * n + h - 12

\* Times that novas_jd_from_date() takes, of years in which it divides nothing
\* below 0.  A zone may take them to the day before or after, but not across the
\* reform.
Accepted(t, y, m, d, h) ==
    /\ t \in Type
    /\ y \in Int /\ y >= -4799
    /\ m \in 1 .. 12
    /\ d \in 1 .. 31 /\ d <= MonthDays[m]
    /\ h \in -23 .. 46
    /\ t = Astronomical => (Raw(y, m, d) = 2299161 => h >= 0) /\ (Raw(y, m, d) = 2299160 => h < 24)

\* The truncating division of novas_jd_from_date() finds the shift.
LEMMA ShiftIsQuot == \A m \in 1 .. 12 : Quot(m - 14, 12) = MarchShift(m)
<1> SUFFICES ASSUME NEW m \in 1 .. 12 PROVE Quot(m - 14, 12) = MarchShift(m)
  OBVIOUS
<1> QED
  BY SMT DEF Quot, MarchShift

\* novas_jd_from_date() for the years in which its divisions truncate nothing.
LEMMA JdForm ==
    ASSUME NEW t, NEW y, NEW m, NEW d, NEW h, Accepted(t, y, m, d, h)
    PROVE  JdFromDate(t, y, m, d, h) = TimeOf(DayNo(Chosen(t, y, m, d), y, m, d), h)
<1> USE DEF Accepted
<1>1. Quot(m - 14, 12) = MarchShift(m) /\ MarchShift(m) \in {-1, 0}
  BY ShiftIsQuot DEF MarchShift
<1>2. Quot(1461 * (y + 4800 + MarchShift(m)), 4) = (1461 * (y + 4800 + MarchShift(m))) \div 4
  BY <1>1 DEF Quot
<1>3. Quot(367 * (m - 2 - MarchShift(m) * 12), 12) = (367 * (m - 2 - 12 * MarchShift(m))) \div 12
  BY SMT DEF Quot, MarchShift
<1>4. /\ Quot(y + 4900 + MarchShift(m), 100) = (y + 4900 + MarchShift(m)) \div 100
      /\ Quot(3 * Quot(y + 4900 + MarchShift(m), 100), 4) = (3 * ((y + 4900 + MarchShift(m)) \div 100)) \div 4
  BY <1>1 DEF Quot
<1>5. AsOf(t, 24 * Raw(y, m, d) + h - 12) = Chosen(t, y, m, d)
  <2>1. Raw(y, m, d) \in Int
    BY DEF Raw, MarchShift
  <2>2. t = Astronomical => (24 * Raw(y, m, d) + h - 12 >= StartGregorian <=> Raw(y, m, d) >= 2299161)
    BY <2>1 DEF StartGregorian
  <2> QED
    BY <2>2 DEF AsOf, Chosen, Reformed
<1> QED
  BY <1>1, <1>2, <1>3, <1>4, <1>5 DEF TimeOf, JdFromDate, DayNo, Raw, Centuries

\* The month after a month.
NextYear(y, m) == IF m = 12 THEN y + 1 ELSE y
Following(m)   == IF m = 12 THEN 1 ELSE m + 1

\* In each calendar the formula grows by the length of the month.
LEMMA RomanMonth ==
    ASSUME NEW y \in Int, y >= -4799, NEW m \in 1 .. 12
    PROVE  DayNo(Roman, NextYear(y, m), Following(m), 1) = DayNo(Roman, y, m, 1) + MonthLength(Roman, y, m)
<1> USE DEF DayNo, Raw, MarchShift, IsLeap, Roman, Gregorian, MonthLength, NextYear, Following
<1>1. CASE m = 1
  BY <1>1
<1>2. CASE m = 2
  BY <1>2
<1>3. CASE m \in 3 .. 7
  BY <1>3
<1>4. CASE m \in 8 .. 12
  BY <1>4
<1> QED
  BY <1>1, <1>2, <1>3, <1>4

LEMMA GregorianMonth ==
    ASSUME NEW y \in Int, y >= -4799, NEW m \in 1 .. 12
    PROVE  DayNo(Gregorian, NextYear(y, m), Following(m), 1) = DayNo(Gregorian, y, m, 1) + MonthLength(Gregorian, y, m)
<1> USE DEF DayNo, Raw, MarchShift, IsLeap, Centuries, Gregorian, MonthLength, NextYear, Following
<1>1. CASE m = 1
  BY <1>1
<1>2. CASE m = 2
  BY <1>2
<1>3. CASE m \in 3 .. 7
  BY <1>3
<1>4. CASE m \in 8 .. 12
  BY <1>4
<1> QED
  BY <1>1, <1>2, <1>3, <1>4

\* No month but October 1582 is partly of one calendar and partly of the other.
LEMMA ReformMonth ==
    ASSUME NEW y \in Int, y >= -4799, NEW m \in 1 .. 12, NEW d \in 1 .. 31
    PROVE  /\ y > 1582 \/ (y = 1582 /\ m > 10) => Reformed(y, m, d)
           /\ y < 1582 \/ (y = 1582 /\ m < 10) => ~Reformed(y, m, d)
           /\ y = 1582 /\ m = 10 => (Reformed(y, m, d) <=> d >= 15)
<1> USE DEF Reformed, Raw, MarchShift
<1>1. CASE y > 1582
  BY <1>1
<1>2. CASE y = 1582
  BY <1>2
<1>3. CASE y < 1582
  BY <1>3
<1> QED
  BY <1>1, <1>2, <1>3

\* What holds after any number of months.
WalkInv ==
    /\ type \in Type
    /\ year \in Int
    /\ year >= -4713
    /\ month \in 1 .. 12
    /\ first = DayNo(Rule, year, month, 1)
    /\ weekday = (first % 7) + 1

LEMMA FirstIsInt == WalkInv => first \in Int
BY DEF WalkInv, DayNo, Raw, Centuries, MarchShift

LEMMA WalkInit == Init => WalkInv
<1> SUFFICES ASSUME Init PROVE WalkInv
  OBVIOUS
<1> USE DEF Rule, Roman, Gregorian, Astronomical, Type, WalkInv, DayNo, Raw, Centuries, MarchShift
<1>1. CASE type = Roman /\ year = -4712 /\ month = 1 /\ first = 0 /\ weekday = 1
  BY <1>1
<1>2. CASE type = Roman /\ year = 1 /\ month = 1 /\ first = 1721424 /\ weekday = 6
  BY <1>2
<1>3. CASE type = Astronomical /\ year = 1 /\ month = 1 /\ first = 1721424 /\ weekday = 6
  BY <1>3
<1>4. CASE type = Gregorian /\ year = -4713 /\ month = 12 /\ first = 7 /\ weekday = 1
  BY <1>4
<1>5. CASE type = Gregorian /\ year = 2000 /\ month = 1 /\ first = 2451545 /\ weekday = 6
  BY <1>5
<1> QED
  BY <1>1, <1>2, <1>3, <1>4, <1>5 DEF Init, Anchor, Start

LEMMA WalkStep == WalkInv /\ [NextMonth]_vars => WalkInv'
<1> SUFFICES ASSUME WalkInv, [NextMonth]_vars PROVE WalkInv'
  OBVIOUS
<1>1. CASE UNCHANGED vars
  BY <1>1 DEF vars, WalkInv, Rule
<1>2. CASE NextMonth
  <2>1. /\ type' = type
        /\ year' = NextYear(year, month)
        /\ month' = Following(month)
    BY <1>2 DEF NextMonth, NextYear, Following, WalkInv
  <2>2. type' \in Type /\ year' \in Int /\ year' >= -4713 /\ month' \in 1 .. 12
    BY <2>1 DEF WalkInv, NextYear, Following
  <2>3. first \in Int /\ Length \in Nat
    BY FirstIsInt DEF Length, LastDate, MonthLength
  <2>4. first' = first + Length
    BY <1>2 DEF NextMonth
  <2>5. weekday' = (first' % 7) + 1
    <3>1. weekday' = ((weekday + Length - 1) % 7) + 1
      BY <1>2 DEF NextMonth
    <3>2. weekday = (first % 7) + 1
      BY DEF WalkInv
    <3> QED
      BY <2>3, <2>4, <3>1, <3>2
  <2>6. first' = DayNo(Rule', year', month', 1)
    <3>1. CASE IsReform
      BY <2>1, <2>4, <3>1 DEF WalkInv, IsReform, Length, Rule, NextYear, Following, DayNo, Raw, Centuries,
                              MarchShift, Roman, Gregorian, Astronomical
    <3>2. CASE ~IsReform
      <4>1. Rule' = Rule
        BY <2>1, <3>2 DEF WalkInv, IsReform, Rule, NextYear, Following, Type, Roman, Gregorian, Astronomical
      <4>2. Length = MonthLength(Rule, year, month)
        BY <3>2 DEF Length, LastDate
      <4>3. CASE Rule = Gregorian
        BY <2>1, <2>4, <4>1, <4>2, <4>3, GregorianMonth DEF WalkInv
      <4>4. CASE Rule # Gregorian
        <5>1. Rule = Roman
          BY <4>4 DEF Rule, WalkInv, Type
        <5> QED
          BY <2>1, <2>4, <4>1, <4>2, <4>4, <5>1, RomanMonth DEF WalkInv
      <4> QED
        BY <4>3, <4>4
    <3> QED
      BY <3>1, <3>2
  <2> QED
    BY <2>2, <2>5, <2>6 DEF WalkInv
<1> QED
  BY <1>1, <1>2

\* The walk has counted the days that the formula gives.
THEOREM WalkInvariant == Spec => []WalkInv
BY WalkInit, WalkStep, PTL DEF Spec

\* Midnights at the reform are those of 14 October, which has none, and the 15th.
LEMMA ReformDay ==
    ASSUME NEW y \in Int, y >= -4799, NEW m \in 1 .. 12, NEW d \in 1 .. 31,
           Raw(y, m, d) \in {2299160, 2299161}
    PROVE  y = 1582 /\ m = 10 /\ d = Raw(y, m, d) - 2299146
<1> USE DEF Raw, MarchShift
<1>1. CASE y > 1582
  BY <1>1
<1>2. CASE y = 1582
  BY <1>2
<1>3. CASE y < 1582
  BY <1>3
<1> QED
  BY <1>1, <1>2, <1>3

\* An hour of a day of the month, or of the day before or after it, is that of the
\* day, but for 15 October 1582, of which it has none before.
LEMMA WalkGivesHours ==
    ASSUME WalkInv, NEW d \in MonthDates, NEW h \in -23 .. 46, IsReform /\ d = 15 => h >= 0
    PROVE  JdFromDate(type, year, month, d, h) = At(d, h)
<1>1. d \in 1 .. 31 /\ d <= MonthDays[month]
  BY DEF WalkInv, MonthDates, LastDate, MonthLength, MonthDays, IsReform
<1>2. /\ type \in Type /\ year \in Int /\ year >= -4799 /\ month \in 1 .. 12
      /\ first = DayNo(Rule, year, month, 1)
  BY DEF WalkInv
<1>3. type = Astronomical => (Raw(year, month, d) = 2299161 => h >= 0) /\ (Raw(year, month, d) = 2299160 => h < 24)
  <2> SUFFICES ASSUME type = Astronomical, Raw(year, month, d) \in {2299160, 2299161}
               PROVE  d = 15 /\ Raw(year, month, d) = 2299161 /\ h >= 0
    OBVIOUS
  <2>1. IsReform /\ d = Raw(year, month, d) - 2299146
    BY <1>1, <1>2, ReformDay DEF IsReform
  <2>2. d \notin {14}
    BY <2>1 DEF MonthDates
  <2> QED
    BY <2>1, <2>2
<1>4. JdFromDate(type, year, month, d, h) = TimeOf(DayNo(Chosen(type, year, month, d), year, month, d), h)
  <2>1. Accepted(type, year, month, d, h)
    BY <1>1, <1>2, <1>3 DEF Accepted
  <2> QED
    BY <2>1, JdForm
<1>5. CASE IsReform
  <2>1. Chosen(type, year, month, d) = IF d >= 15 THEN Gregorian ELSE Roman
    BY <1>1, <1>2, <1>5, ReformMonth DEF IsReform, Chosen, Gregorian, Astronomical
  <2>2. d \in 1 .. 4 \cup 15 .. 31
    BY <1>5 DEF MonthDates
  <2>3. DayNo(Chosen(type, year, month, d), year, month, d) = first + Nth(d)
    BY <1>2, <1>5, <2>1, <2>2 DEF IsReform, Nth, Rule, DayNo, Raw, Centuries, MarchShift, Roman, Gregorian, Astronomical
  <2> QED
    BY <1>4, <2>3 DEF At, TimeOf
<1>6. CASE ~IsReform
  <2>1. Chosen(type, year, month, d) = Rule
    BY <1>1, <1>2, <1>6, ReformMonth DEF IsReform, Chosen, Rule, Type, Roman, Gregorian, Astronomical
  <2>2. DayNo(Chosen(type, year, month, d), year, month, d) = first + d - 1
    BY <1>1, <1>2, <2>1 DEF DayNo, Raw, Centuries, MarchShift
  <2>3. Nth(d) = d - 1
    BY <1>6 DEF Nth
  <2>4. first \in Int
    BY FirstIsInt
  <2> QED
    BY <1>1, <1>4, <2>2, <2>3, <2>4 DEF At, TimeOf
<1> QED
  BY <1>5, <1>6

LEMMA WalkGivesDays == WalkInv => DayFromDate
<1> SUFFICES ASSUME WalkInv, NEW d \in MonthDates, NEW h \in Hour
             PROVE  JdFromDate(type, year, month, d, h) = At(d, h)
  BY DEF DayFromDate
<1>1. h \in 0 .. 23
  BY WalkAssumption
<1> QED
  BY <1>1, WalkGivesHours

\* novas_jd_from_date() gives the day of every date of the three calendars.
THEOREM DaysRight == Spec => []DayFromDate
BY WalkInvariant, WalkGivesDays, PTL

LEMMA WalkGivesZoned == WalkInv => ZonedDates
<1> SUFFICES ASSUME WalkInv, NEW d \in EdgeDates, NEW h \in Hour, NEW z \in Zones, ~(IsReform /\ d = 15 /\ h < z)
             PROVE  ParseDate(type, DateText(year, month, d, h, z, FALSE)) = At(d, h) - z
  BY DEF ZonedDates
<1>1. h \in 0 .. 23 /\ z \in -23 .. 23
  BY WalkAssumption, ZonesAssumption
<1>2. ParseDate(type, DateText(year, month, d, h, z, FALSE)) = JdFromDate(type, year, month, d, h - z)
  BY <1>1 DEF ParseDate, DateText, Zone
<1>3. d \in MonthDates /\ h - z \in -23 .. 46 /\ (IsReform /\ d = 15 => h - z >= 0)
  BY <1>1 DEF EdgeDates
<1>4. first \in Int /\ Nth(d) \in Int
  BY <1>3, FirstIsInt DEF Nth, MonthDates, LastDate, MonthLength
<1>5. JdFromDate(type, year, month, d, h - z) = At(d, h - z)
  BY <1>3, WalkGivesHours
<1>6. At(d, h - z) = At(d, h) - z
  BY <1>1, <1>4 DEF At
<1> QED
  BY <1>2, <1>5, <1>6

\* novas_parse_date_format() reads a local time and its zone as one instant, also
\* where the day, the month or the year is another in Greenwich.
THEOREM ZonesRight == Spec => []ZonedDates
BY WalkInvariant, WalkGivesZoned, PTL

LEMMA WalkGivesMissing == WalkInv => MissingDates
<1> SUFFICES ASSUME WalkInv PROVE MissingDates
  OBVIOUS
<1>1. /\ type \in Type /\ year \in Int /\ year >= -4799 /\ month \in 1 .. 12
      /\ first = DayNo(Rule, year, month, 1) /\ first \in Int
  BY FirstIsInt DEF WalkInv
<1>2. ASSUME month = 2 PROVE JdFromDate(type, year, 2, 29, 0) = At(28, 24)
  <2>1. ~IsReform
    BY <1>2 DEF IsReform
  <2>2. Raw(year, 2, 29) \notin {2299160, 2299161}
    BY <1>1, <1>2, ReformDay
  <2>3. Accepted(type, year, 2, 29, 0)
    BY <1>1, <2>2 DEF Accepted, MonthDays
  <2>4. Chosen(type, year, 2, 29) = Rule
    BY <1>1, <1>2, <2>1, ReformMonth DEF IsReform, Chosen, Rule, Type, Roman, Gregorian, Astronomical
  <2>5. DayNo(Rule, year, 2, 29) = first + 28
    BY <1>1, <1>2 DEF DayNo, Raw, Centuries, MarchShift
  <2>6. JdFromDate(type, year, 2, 29, 0) = TimeOf(first + 28, 0)
    BY <2>3, <2>4, <2>5, JdForm
  <2> QED
    BY <1>1, <2>1, <2>6 DEF TimeOf, At, Nth
<1>3. ASSUME IsReform, NEW d \in 5 .. 14
      PROVE  JdFromDate(type, year, month, d, 0) = 24 * (first + d - 1) - 12
  <2>1. type = Astronomical /\ year = 1582 /\ month = 10
    BY <1>3 DEF IsReform
  <2>2. Accepted(type, year, month, d, 0)
    BY <1>1, <2>1 DEF Accepted, MonthDays
  <2>3. Chosen(type, year, month, d) = Roman /\ Rule = Roman
    BY <1>3, <2>1, ReformMonth DEF Chosen, Rule, Roman, Gregorian, Astronomical
  <2>4. DayNo(Roman, year, month, d) = first + d - 1
    BY <1>1, <2>1, <2>3 DEF DayNo, Raw, Centuries, MarchShift
  <2> QED
    BY <1>1, <2>2, <2>3, <2>4, JdForm DEF TimeOf
<1> QED
  BY <1>2, <1>3 DEF MissingDates

\* What novas_jd_from_date() makes of dates that a calendar does not have: 29
\* February of a common year is 1 March, and the days that the reform left out are
\* what they would have been without it.
THEOREM MissingDatesAre == Spec => []MissingDates
BY WalkInvariant, WalkGivesMissing, PTL

LEMMA WalkGivesWeekdays == WalkInv => WeekdaysFollow
<1> SUFFICES ASSUME WalkInv, NEW d \in MonthDates, NEW h \in Hour
             PROVE  DayOfWeek(At(d, h)) = ((weekday + Nth(d) - 1) % 7) + 1
  BY DEF WeekdaysFollow
<1>1. h \in 0 .. 23
  BY WalkAssumption
<1>2. first \in Int /\ weekday = (first % 7) + 1
  BY FirstIsInt DEF WalkInv
<1>3. Nth(d) \in Int
  BY DEF Nth, MonthDates, LastDate, MonthLength
<1> DEFINE n == first + Nth(d)
<1>4. (At(d, h) - 24 * 2451545 - 36) \div 24 = n - 2451547
  BY <1>1, <1>2, <1>3 DEF At
<1>5. DayOfWeek(At(d, h)) = (n % 7) + 1
  <2> HIDE DEF n
  <2>1. n \in Int
    BY <1>2, <1>3 DEF n
  <2>2. Rem(n - 2451547, 7) \in Int /\ (Rem(n - 2451547, 7) = (n % 7) \/ Rem(n - 2451547, 7) = (n % 7) - 7)
        /\ Rem(n - 2451547, 7) \in -6 .. 6
    BY <2>1 DEF Rem, Quot
  <2> QED
    BY <1>4, <2>1, <2>2 DEF DayOfWeek
<1>6. ((weekday + Nth(d) - 1) % 7) = n % 7
  BY <1>2, <1>3
<1> QED
  BY <1>5, <1>6

\* novas_day_of_week() follows the days of every date of the three calendars.
THEOREM WeekdaysRight == Spec => []WeekdaysFollow
BY WalkInvariant, WalkGivesWeekdays, PTL

\* The day of the year that begins on 1 March, from 0.
March(m, d) == d - 31 + (367 * (m - 2 - 12 * MarchShift(m))) \div 12

IsDate(t, y, m, d) ==
    /\ t \in {Roman, Gregorian}
    /\ y \in Int
    /\ m \in 1 .. 12
    /\ d \in 1 .. MonthLength(t, y, m)

\* The days of a month are days of that year: the 366th is 29 February.
LEMMA MarchRange ==
    ASSUME NEW t, NEW y, NEW m, NEW d, IsDate(t, y, m, d)
    PROVE  March(m, d) \in 0 .. 365 /\ (March(m, d) = 365 => IsLeap(t, y) /\ m = 2)
<1> USE DEF IsDate, March, MarchShift, MonthLength
<1>1. CASE m = 1
  BY <1>1
<1>2. CASE m = 2
  BY <1>2
<1>3. CASE m \in 3 .. 7
  BY <1>3
<1>4. CASE m \in 8 .. 12
  BY <1>4
<1> QED
  BY <1>1, <1>2, <1>3, <1>4

\* The month that novas_jd_to_date() finds for a day of that year, counted from
\* the one before March.
MonthNo(e) == (80 * (e + 31)) \div 2447

LEMMA MarchDate ==
    ASSUME NEW t, NEW y, NEW m, NEW d, IsDate(t, y, m, d), NEW mo, mo = MonthNo(March(m, d))
    PROVE  /\ mo \in 1 .. 12
           /\ d = March(m, d) + 31 - ((2447 * mo) \div 80)
           /\ m = mo + 2 - 12 * (mo \div 11)
           /\ MarchShift(m) = -(mo \div 11)
<1> USE DEF IsDate, March, MonthNo, MarchShift, MonthLength
<1>1. CASE m = 1
  BY <1>1
<1>2. CASE m = 2
  BY <1>2
<1>3. CASE m \in 3 .. 5
  BY <1>3
<1>4. CASE m \in 6 .. 7
  BY <1>4
<1>5. CASE m \in 8 .. 10
  BY <1>5
<1>6. CASE m \in 11 .. 12
  BY <1>6
<1> QED
  BY <1>1, <1>2, <1>3, <1>4, <1>5, <1>6

\* What it makes of the day k2 = e + 31 of that year.
LEMMA DateFound ==
    ASSUME NEW t, NEW y, NEW m, NEW d, IsDate(t, y, m, d), NEW k2, k2 = March(m, d) + 31,
           NEW mo, mo = Quot(80 * k2, 2447)
    PROVE  /\ y = y + MarchShift(m) + Quot(mo, 11)
           /\ m = mo + 2 - 12 * Quot(mo, 11)
           /\ d = k2 - Quot(2447 * mo, 80)
<1> DEFINE e == March(m, d)
<1>1. e \in 0 .. 365
  BY MarchRange
<1>2. MonthNo(e) = mo
  BY <1>1, SMT DEF Quot, MonthNo
<1>3. /\ mo \in 1 .. 12
      /\ d = e + 31 - ((2447 * mo) \div 80)
      /\ m = mo + 2 - 12 * (mo \div 11)
      /\ MarchShift(m) = -(mo \div 11)
  BY <1>2, MarchDate
<1>4. Quot(mo, 11) = mo \div 11 /\ Quot(2447 * mo, 80) = (2447 * mo) \div 80
  <2>1. \A n \in 1 .. 12 : Quot(n, 11) = n \div 11 /\ Quot(2447 * n, 80) = (2447 * n) \div 80
    BY SMT DEF Quot
  <2>2. mo \in 1 .. 12
    BY <1>3
  <2> QED
    BY <2>1, <2>2
<1>5. y \in Int
  BY DEF IsDate
<1> HIDE DEF e
<1> QED
  BY <1>1, <1>3, <1>4, <1>5 DEF e

\* Day e of year r of century c, years beginning in March, and the days before
\* it: a century has one day more if the year that it ends with has.
InCentury(c, r, e) ==
    /\ c \in Int
    /\ r \in 0 .. 99
    /\ e \in 0 .. 365
    /\ e = 365 => (r + 1) % 4 = 0 /\ (r = 99 => c % 4 = 0)

DaysOfYears(r, e)   == ((1461 * r) \div 4) + e
DaysBefore(c, r, e) == 36525 * c - ((3 * c) \div 4) + DaysOfYears(r, e)

\* novas_jd_to_date() finds the century from the days of four of them.
LEMMA CenturyNo ==
    ASSUME NEW c, NEW r, NEW e, InCentury(c, r, e)
    PROVE  (4 * DaysBefore(c, r, e)) \div 146097 = c
<1> USE DEF InCentury
<1>1. PICK q \in Int, p \in 0 .. 3 : 3 * c = 4 * q + p /\ q = (3 * c) \div 4 /\ p = (3 * c) % 4
  OBVIOUS
<1>2. r = 99 /\ e = 365 => p = 0
  BY <1>1
<1>3. PICK x \in Int : x = p + 4 * ((1461 * r) \div 4) + 4 * e
  OBVIOUS
<1>4. x >= 0 /\ x <= 146096
  <2>1. CASE r = 99 /\ e = 365
    BY <1>2, <1>3, <2>1
  <2>2. CASE r = 99 /\ e < 365
    BY <1>3, <2>2
  <2>3. CASE r < 99
    BY <1>3, <2>3
  <2> QED
    BY <2>1, <2>2, <2>3
<1>5. DaysBefore(c, r, e) \in Int /\ 4 * DaysBefore(c, r, e) = 146097 * c + x
  BY <1>1, <1>3 DEF DaysBefore, DaysOfYears
<1> QED
  BY <1>4, <1>5

\* It finds the year of the century from the days of a thousand years.
LEMMA YearNo ==
    ASSUME NEW c, NEW r, NEW e, InCentury(c, r, e)
    PROVE  (4000 * (DaysOfYears(r, e) + 1)) \div 1461001 = r
<1> USE DEF InCentury
<1>1. 4 * ((1461 * r) \div 4) = 1461 * r - (r % 4)
  OBVIOUS
<1>2. e = 365 => r % 4 = 3
  OBVIOUS
<1> QED
  BY <1>1, <1>2 DEF DaysOfYears

\* The days counted from the beginning of the centuries.
CenturyOf(y, m, d, c, r) ==
    /\ c \in Int
    /\ r \in 0 .. 99
    /\ y + MarchShift(m) = 100 * c + r - 4900
    /\ DayNo(Gregorian, y, m, d) + 68569 = DaysBefore(c, r, March(m, d))

LEMMA DaysOfCenturies ==
    ASSUME NEW y, NEW m, NEW d, IsDate(Gregorian, y, m, d)
    PROVE  \E c, r : CenturyOf(y, m, d, c, r)
<1>1. y \in Int /\ m \in 1 .. 12 /\ d \in Int /\ MarchShift(m) \in Int
  BY DEF IsDate, MarchShift, MonthLength
<1>2. PICK z \in Int : z = y + 4900 + MarchShift(m)
  BY <1>1
<1>3. PICK c \in Int, r \in 0 .. 99 : z = 100 * c + r
  <2>1. z \div 100 \in Int /\ z % 100 \in 0 .. 99 /\ z = 100 * (z \div 100) + (z % 100)
    OBVIOUS
  <2> QED
    BY <2>1
<1>4. (y + 4900 + MarchShift(m)) \div 100 = c
  BY <1>2, <1>3
<1>5. y + 4800 + MarchShift(m) = 100 * c + r - 100
  BY <1>1, <1>2, <1>3
<1>6. (1461 * (100 * c + r - 100)) \div 4 = 36525 * c - 36525 + ((1461 * r) \div 4)
  OBVIOUS
<1>7. (367 * (m - 2 - 12 * MarchShift(m))) \div 12 \in Int /\ (3 * c) \div 4 \in Int
  BY <1>1
<1>8. DayNo(Gregorian, y, m, d) + 68569 = DaysBefore(c, r, March(m, d))
  BY <1>1, <1>4, <1>5, <1>6, <1>7 DEF DayNo, Raw, Centuries, March, DaysBefore, DaysOfYears
<1>9. y + MarchShift(m) = 100 * c + r - 4900
  BY <1>1, <1>2, <1>3
<1>10. CenturyOf(y, m, d, c, r)
  BY <1>8, <1>9 DEF CenturyOf
<1> QED
  BY <1>10

\* So it inverts novas_jd_from_date() in the Gregorian calendar.
LEMMA GregorianDate ==
    ASSUME NEW y, NEW m, NEW d, IsDate(Gregorian, y, m, d), y >= -4799,
           NEW t, NEW hours, AsOf(t, hours) = Gregorian,
           (hours + 12) \div 24 = DayNo(Gregorian, y, m, d)
    PROVE  JdToDate(t, hours) = [year |-> y, month |-> m, day |-> d, hour |-> (hours + 12) % 24]
<1>1. y \in Int /\ m \in 1 .. 12
  BY DEF IsDate
<1>2. PICK c, r : CenturyOf(y, m, d, c, r)
  BY DaysOfCenturies
<1>2a. /\ c \in Int /\ r \in 0 .. 99
       /\ y + MarchShift(m) = 100 * c + r - 4900
       /\ DayNo(Gregorian, y, m, d) + 68569 = DaysBefore(c, r, March(m, d))
  BY <1>2 DEF CenturyOf
<1>3. MarchShift(m) \in {-1, 0} /\ (m <= 2 <=> MarchShift(m) = -1)
  BY <1>1 DEF MarchShift
<1> DEFINE e == March(m, d)
<1>4. e \in 0 .. 365 /\ (e = 365 => IsLeap(Gregorian, y) /\ m = 2)
  BY MarchRange
<1> HIDE DEF e
<1>5. InCentury(c, r, e)
  <2>1. e = 365 => y = 100 * c + r - 4899
    BY <1>1, <1>2a, <1>3, <1>4
  <2> QED
    BY <1>1, <1>2a, <1>4, <2>1, SMT DEF InCentury, IsLeap
<1>6. c >= 0
  BY <1>1, <1>2a, <1>3
<1> DEFINE k0 == DaysBefore(c, r, e)
           k1 == DaysOfYears(r, e)
<1>7. k1 \in Int /\ k1 >= 0 /\ k0 = 36525 * c - ((3 * c) \div 4) + k1
  BY <1>2a, <1>4 DEF DaysBefore, DaysOfYears
<1>8. (4 * k0) \div 146097 = c /\ (4000 * (k1 + 1)) \div 1461001 = r
  BY <1>5, CenturyNo, YearNo
<1>9. k1 + 31 - ((1461 * r) \div 4) = e + 31
  BY <1>2a, <1>4 DEF DaysOfYears
<1>10. DayNo(Gregorian, y, m, d) + 68569 = k0
  BY <1>2a DEF e
<1> HIDE DEF k0, k1
<1>11. k0 \in Int /\ k0 >= 0
  BY <1>2a, <1>6, <1>7
<1>12. Quot(4 * k0, 146097) = c
  BY <1>2a, <1>8, <1>11, SMT DEF Quot
<1>13. k0 - Quot(146097 * c + 3, 4) = k1
  BY <1>2a, <1>6, <1>7, SMT DEF Quot
<1>14. Quot(4000 * (k1 + 1), 1461001) = r
  BY <1>2a, <1>7, <1>8, SMT DEF Quot
<1>15. k1 + 31 - Quot(1461 * r, 4) = e + 31
  BY <1>2a, <1>9, SMT DEF Quot
<1> DEFINE k2 == e + 31
           mo == Quot(80 * k2, 2447)
<1>16. /\ y = y + MarchShift(m) + Quot(mo, 11)
       /\ m = mo + 2 - 12 * Quot(mo, 11)
       /\ d = k2 - Quot(2447 * mo, 80)
  BY DateFound DEF e
<1>17. Quot(mo, 11) \in Int
  <2>1. mo \in Int
    BY <1>4 DEF Quot
  <2> QED
    BY <2>1 DEF Quot
<1>18. (hours + 12) \div 24 + 68569 = k0
  BY <1>10
<1>19. k1 + 31 - Quot(1461 * r, 4) + 0 = k2 /\ Quot(80 * k2, 2447) = mo
  BY <1>2a, <1>4, <1>15
<1> HIDE DEF k2, mo
<1>20. y = 100 * (c - 49) + r + Quot(mo, 11)
  BY <1>1, <1>2a, <1>3, <1>16, <1>17
<1> QED
  BY <1>2a, <1>12, <1>13, <1>14, <1>16, <1>18, <1>19, <1>20, SMT DEF JdToDate

\* It inverts it in the Roman calendar too, from May to January: it counts days
\* from 8 April, and centuries by the days of Gregorian ones, which is no more
\* than a day too many for 2800 years.
RomanYears == {y \in Int : -4799 <= y /\ y <= 4199}

LEMMA RomanCentury ==
    ASSUME NEW c \in Int, c >= 0, NEW f \in Int, f >= 0, 3 * (c + 1) + 4 * f <= 146096
    PROVE  Quot(4 * (36525 * (c + 1) + f), 146097) = c + 1
<1>1. (4 * (36525 * (c + 1) + f)) \div 146097 = c + 1
  OBVIOUS
<1>2. 4 * (36525 * (c + 1) + f) >= 0
  OBVIOUS
<1> QED
  BY <1>1, <1>2 DEF Quot

LEMMA RomanDate ==
    ASSUME NEW y \in RomanYears, NEW m, NEW d, IsDate(Roman, y, m, d), m \notin 2 .. 4,
           NEW t, NEW hours, AsOf(t, hours) = Roman,
           (hours + 12) \div 24 = DayNo(Roman, y, m, d)
    PROVE  JdToDate(t, hours) = [year |-> y, month |-> m, day |-> d, hour |-> (hours + 12) % 24]
<1> DEFINE e == March(m, d)
<1>1. /\ y \in Int /\ y >= -4799 /\ y <= 4199
      /\ m \in 1 .. 12 /\ MarchShift(m) \in {-1, 0}
  BY DEF IsDate, MarchShift, RomanYears
<1>2. e \in 61 .. 336
  <2>1. CASE m = 1
    BY <2>1 DEF IsDate, MonthLength, March, MarchShift
  <2>2. CASE m \in 5 .. 8
    BY <2>2 DEF IsDate, MonthLength, March, MarchShift
  <2>3. CASE m \in 9 .. 12
    BY <2>3 DEF IsDate, MonthLength, March, MarchShift
  <2> QED
    BY <1>1, <2>1, <2>2, <2>3
<1>3. PICK c \in Int, r \in 0 .. 99 : y + 4800 + MarchShift(m) = 100 * c + r
  <2> DEFINE z == y + 4800 + MarchShift(m)
  <2>1. z \div 100 \in Int /\ z % 100 \in 0 .. 99 /\ z = 100 * (z \div 100) + (z % 100)
    BY <1>1
  <2> QED
    BY <2>1
<1>4. c \in 0 .. 89 /\ (m = 1 /\ r = 99 => c <= 88)
  BY <1>1, <1>3 DEF MarchShift
<1> DEFINE f  == DaysOfYears(r, e - 38)
           k0 == DayNo(Roman, y, m, d) + 68569
<1>5. k0 = 36525 * (c + 1) + f
  <2>1. DayNo(Roman, y, m, d) = d - 32113 + (1461 * (100 * c + r)) \div 4 + (367 * (m - 2 - 12 * MarchShift(m))) \div 12
    <3>1. (367 * (m - 2 - 12 * MarchShift(m))) \div 12 \in Int /\ (1461 * (100 * c + r)) \div 4 \in Int /\ d \in Int
      BY <1>1, <1>3 DEF IsDate, MonthLength
    <3>2. DayNo(Roman, y, m, d) = Raw(y, m, d) + 10
      BY DEF DayNo, Roman, Gregorian
    <3>3. Raw(y, m, d) = d - 32123 + (1461 * (100 * c + r)) \div 4 + (367 * (m - 2 - 12 * MarchShift(m))) \div 12
      BY <1>3 DEF Raw
    <3> QED
      BY <3>1, <3>2, <3>3
  <2>2. (1461 * (100 * c + r)) \div 4 = 36525 * c + ((1461 * r) \div 4)
    BY <1>3
  <2>3. d \in Int
    BY DEF IsDate, MonthLength
  <2> QED
    BY <1>1, <1>3, <2>1, <2>2, <2>3 DEF DaysOfYears, March
<1>6. f \in Int /\ f >= 23 /\ f <= 36457 /\ (r = 99 /\ m # 1 => f <= 36426) /\ (r < 99 => f <= 36092)
  <2>1. m # 1 => e <= 305
    BY <1>1 DEF IsDate, MonthLength, March, MarchShift
  <2>2. PICK q \in Int : q = (1461 * r) \div 4 /\ 4 * q <= 1461 * r /\ 1461 * r <= 4 * q + 3
    BY <1>3
  <2>3. f = q + e - 38
    BY <1>2, <2>2 DEF DaysOfYears
  <2> HIDE DEF f, e
  <2> QED
    BY <1>2, <1>3, <2>1, <2>2, <2>3
<1> HIDE DEF e, f, k0
<1>7. f \in Int /\ f >= 0 /\ 3 * (c + 1) + 4 * f <= 146096
  <2>1. f \in Int /\ f >= 0 /\ f <= 36457 /\ (m # 1 => f <= 36426 \/ r < 99) /\ (r < 99 => f <= 36092)
    BY <1>3, <1>6
  <2>2. (m = 1 /\ r = 99 /\ c <= 88) \/ f <= 36426
    BY <1>3, <1>4, <1>6
  <2> QED
    BY <1>4, <2>1, <2>2
<1>8. Quot(4 * k0, 146097) = c + 1
  BY <1>4, <1>5, <1>7, RomanCentury
<1>9. k0 - Quot(146100 * (c + 1) + 3, 4) = f
  BY <1>4, <1>5, <1>6, SMT DEF Quot
<1>10. Quot(4000 * (f + 1), 1461001) = r
  <2>1. InCentury(0, r, e - 38)
    BY <1>2, <1>3 DEF InCentury
  <2>2. (4000 * (f + 1)) \div 1461001 = r
    BY <2>1, YearNo DEF f
  <2> QED
    BY <1>6, <2>2, SMT DEF Quot
<1> DEFINE k2 == e + 31
           mo == Quot(80 * k2, 2447)
<1>11. f + 31 - Quot(1461 * r, 4) + 38 = k2
  BY <1>2, <1>3, SMT DEF Quot, DaysOfYears, f
<1>12. /\ y = y + MarchShift(m) + Quot(mo, 11)
       /\ m = mo + 2 - 12 * Quot(mo, 11)
       /\ d = k2 - Quot(2447 * mo, 80)
  BY DateFound DEF e
<1>13. Quot(mo, 11) \in Int
  <2>1. mo \in Int
    BY <1>2 DEF Quot
  <2> QED
    BY <2>1 DEF Quot
<1>14. (hours + 12) \div 24 + 68569 = k0
  BY DEF k0
<1>15. Quot(80 * k2, 2447) = mo
  OBVIOUS
<1> HIDE DEF k2, mo
<1>16. y = 100 * (c + 1 - 49) + r + Quot(mo, 11)
  BY <1>1, <1>3, <1>12, <1>13
<1>17. AsOf(t, hours) # Gregorian
  BY DEF Roman, Gregorian
<1> QED
  BY <1>3, <1>4, <1>8, <1>9, <1>10, <1>11, <1>12, <1>14, <1>15, <1>16, <1>17, SMT DEF JdToDate

\* The calendar of a day: the last days of October 1582 are of another than the first.
RuleAt(d) == IF IsReform /\ d >= 15 THEN Gregorian ELSE Rule

LEMMA WalkDay ==
    ASSUME WalkInv, NEW d \in MonthDates, NEW h \in 0 .. 23
    PROVE  /\ IsDate(RuleAt(d), year, month, d)
           /\ (At(d, h) + 12) \div 24 = DayNo(RuleAt(d), year, month, d)
           /\ (At(d, h) + 12) % 24 = h
           /\ AsOf(type, At(d, h)) = RuleAt(d)
<1>1. /\ type \in Type /\ year \in Int /\ year >= -4799 /\ month \in 1 .. 12
      /\ first = DayNo(Rule, year, month, 1) /\ first \in Int
      /\ Rule \in {Roman, Gregorian}
  BY FirstIsInt DEF WalkInv, Rule, Type
<1>2. IsDate(RuleAt(d), year, month, d) /\ d \in 1 .. 31
  BY <1>1 DEF RuleAt, IsDate, MonthDates, LastDate, MonthLength, IsReform
<1>3. first + Nth(d) = DayNo(RuleAt(d), year, month, d)
  <2>1. CASE IsReform
    BY <1>1, <1>2, <2>1 DEF RuleAt, IsReform, MonthDates, Nth, Rule, DayNo, Raw, Centuries, MarchShift,
                            Roman, Gregorian, Astronomical
  <2>2. CASE ~IsReform
    BY <1>1, <1>2, <2>2 DEF RuleAt, Nth, DayNo, Raw, Centuries, MarchShift
  <2> QED
    BY <2>1, <2>2
<1>4. Nth(d) \in Int
  BY <1>2 DEF Nth
<1>5. (At(d, h) + 12) \div 24 = first + Nth(d) /\ (At(d, h) + 12) % 24 = h
  BY <1>1, <1>4 DEF At
<1>6. AsOf(type, At(d, h)) = RuleAt(d)
  <2>1. CASE type # Astronomical
    BY <2>1 DEF AsOf, RuleAt, IsReform, Rule
  <2>2. CASE type = Astronomical
    <3>1. first + Nth(d) >= 2299161 <=> RuleAt(d) = Gregorian
      <4>1. CASE year > 1582 \/ (year = 1582 /\ month > 10)
        <5>1. RuleAt(d) = Gregorian
          BY <2>2, <4>1 DEF RuleAt, Rule
        <5> QED
          BY <1>1, <1>2, <1>3, <4>1, <5>1 DEF DayNo, Raw, Centuries, MarchShift
      <4>2. CASE year = 1582 /\ month = 10
        BY <1>1, <1>2, <1>3, <2>2, <4>2 DEF RuleAt, Rule, IsReform, MonthDates, DayNo, Raw, Centuries, MarchShift,
                                            Roman, Gregorian, Astronomical
      <4>3. CASE year < 1582 \/ (year = 1582 /\ month < 10)
        <5>1. RuleAt(d) = Roman /\ Roman # Gregorian
          BY <1>1, <2>2, <4>3 DEF RuleAt, Rule, IsReform, Roman, Gregorian, Astronomical
        <5>2. first + Nth(d) = Raw(year, month, d) + 10
          BY <1>3, <5>1 DEF DayNo
        <5>3. Raw(year, month, d) < 2299151
          BY <1>1, <1>2, <4>3 DEF Raw, MarchShift
        <5> QED
          BY <1>1, <1>2, <5>1, <5>2, <5>3 DEF Raw, MarchShift
      <4> QED
        BY <1>1, <4>1, <4>2, <4>3
    <3>2. At(d, h) >= StartGregorian <=> first + Nth(d) >= 2299161
      BY <1>1, <1>4 DEF At, StartGregorian
    <3>3. RuleAt(d) \in {Roman, Gregorian}
      BY <1>1 DEF RuleAt
    <3> QED
      BY <2>2, <3>1, <3>2, <3>3 DEF AsOf
  <2> QED
    BY <2>1, <2>2
<1> QED
  BY <1>2, <1>3, <1>5, <1>6

LEMMA WalkGivesGregorianDay ==
    ASSUME WalkInv, NEW d \in MonthDates, NEW h \in 0 .. 23, RuleAt(d) = Gregorian
    PROVE  JdToDate(type, At(d, h)) = [year |-> year, month |-> month, day |-> d, hour |-> h]
<1>1. year >= -4799
  BY DEF WalkInv
<1> QED
  BY <1>1, WalkDay, GregorianDate

LEMMA WalkGivesDates == WalkInv => GregorianDates
<1> SUFFICES ASSUME WalkInv, Rule = Gregorian, NEW d \in MonthDates, NEW h \in Hour
             PROVE  JdToDate(type, At(d, h)) = [year |-> year, month |-> month, day |-> d, hour |-> h]
  BY DEF GregorianDates, DateFromDay
<1>1. h \in 0 .. 23
  BY WalkAssumption
<1>2. RuleAt(d) = Gregorian
  BY DEF RuleAt
<1> QED
  BY <1>1, <1>2, WalkGivesGregorianDay

\* novas_jd_to_date() gives every date of the Gregorian calendar back.
THEOREM DatesRight == Spec => []GregorianDates
BY WalkInvariant, WalkGivesDates, PTL

\* How far a walk goes, and the days of the year before the month.
MonthsBefore(t, y, m) ==
    (IF m = 4 THEN 90 ELSE MonthStart[m]) + (IF m > 2 /\ IsLeap(t, y) THEN 1 ELSE 0)

YearInv ==
    /\ left \in Nat
    /\ type # Gregorian => 12 * year + month + left <= 12 * Years + 13
    /\ yday = MonthsBefore(Rule, year, month)

LEMMA YearInit == Init => YearInv
<1> SUFFICES ASSUME Init PROVE YearInv
  OBVIOUS
<1> USE WalkAssumption DEF Rule, Roman, Gregorian, Astronomical, YearInv, MonthsBefore, MonthStart, IsLeap
<1>1. left = 12 * Years /\ left \in Nat
  BY DEF Init
<1>2. CASE type \in {Roman, Astronomical} /\ year \in {-4712, 1} /\ month = 1 /\ yday = 0
  BY <1>1, <1>2
<1>3. CASE type = Gregorian /\ year = -4713 /\ month = 12 /\ yday = 334
  BY <1>1, <1>3
<1>4. CASE type = Gregorian /\ year = 2000 /\ month = 1 /\ yday = 0
  BY <1>1, <1>4
<1> QED
  BY <1>2, <1>3, <1>4 DEF Init, Anchor, Start

LEMMA YearStep == WalkInv /\ YearInv /\ [NextMonth]_vars => YearInv'
<1> SUFFICES ASSUME WalkInv, YearInv, [NextMonth]_vars PROVE YearInv'
  OBVIOUS
<1>1. CASE UNCHANGED vars
  BY <1>1 DEF vars, YearInv, Rule
<1>2. CASE NextMonth
  <2>1. /\ type' = type
        /\ year' = NextYear(year, month)
        /\ month' = Following(month)
        /\ left > 0 /\ left' = left - 1
        /\ yday' = IF month = 12 THEN 0 ELSE yday + LastDate
    BY <1>2 DEF NextMonth, NextYear, Following, WalkInv
  <2>2. type \in Type /\ year \in Int /\ month \in 1 .. 12 /\ left \in Nat /\ yday = MonthsBefore(Rule, year, month)
    BY DEF WalkInv, YearInv
  <2>3. left' \in Nat /\ (type' # Gregorian => 12 * year' + month' + left' <= 12 * Years + 13)
    BY <2>1, <2>2, WalkAssumption DEF YearInv, NextYear, Following
  <2>4. month # 12 => year' = year /\ month' = month + 1 /\ (IsLeap(Rule', year) <=> IsLeap(Rule, year))
    BY <2>1, <2>2 DEF NextYear, Following, Rule, IsLeap, Type, Roman, Gregorian, Astronomical
  <2>5. MonthsBefore(Rule', year', 1) = 0
    BY DEF MonthsBefore, MonthStart
  <2>6. \A m \in 1 .. 11 : MonthsBefore(Rule, year, m + 1) = MonthsBefore(Rule, year, m) + MonthLength(Rule, year, m)
    BY DEF MonthsBefore, MonthStart, MonthLength
  <2>7. month # 12 => MonthsBefore(Rule', year', month') = MonthsBefore(Rule, year, month + 1)
    BY <2>2, <2>4 DEF MonthsBefore
  <2>8. yday' = MonthsBefore(Rule', year', month')
    <3>1. CASE month = 12
      BY <2>1, <2>5, <3>1 DEF Following
    <3>2. CASE month # 12
      BY <2>1, <2>2, <2>6, <2>7, <3>2 DEF LastDate
    <3> QED
      BY <3>1, <3>2
  <2> QED
    BY <2>3, <2>8 DEF YearInv
<1> QED
  BY <1>1, <1>2

\* Walks that end before the drift of the centuries shows in January.
ShortWalks == Years <= 4198

WalkAndYears == WalkInv /\ YearInv

LEMMA WalkGivesDay ==
    ASSUME WalkAndYears, ShortWalks, Rule = Gregorian \/ month \notin 2 .. 4,
           NEW d \in MonthDates, NEW h \in 0 .. 23
    PROVE  JdToDate(type, At(d, h)) = [year |-> year, month |-> month, day |-> d, hour |-> h]
<1> USE DEF WalkAndYears
<1>1. CASE RuleAt(d) = Gregorian
  BY <1>1, WalkGivesGregorianDay
<1>2. CASE RuleAt(d) # Gregorian
  <2>1. RuleAt(d) = Roman /\ Rule = Roman
    BY <1>2 DEF RuleAt, WalkInv, Rule, Type
  <2>2. type # Gregorian /\ month \notin 2 .. 4
    BY <2>1 DEF Rule, Roman, Gregorian, Astronomical
  <2>3. year \in RomanYears
    BY <2>2, WalkAssumption DEF WalkInv, YearInv, ShortWalks, RomanYears
  <2> QED
    BY <2>1, <2>2, <2>3, WalkDay, RomanDate
<1> QED
  BY <1>1, <1>2

LEMMA WalkYears == Spec => []WalkAndYears
BY WalkInit, WalkStep, YearInit, YearStep, PTL DEF Spec, WalkAndYears

LEMMA WalkGivesRoman == WalkAndYears /\ ShortWalks => RomanDates
<1>1. Hour \subseteq 0 .. 23
  BY WalkAssumption
<1> QED
  BY <1>1, WalkGivesDay DEF RomanDates, DateFromDay

\* novas_jd_to_date() gives the dates of the Roman calendar back from May to January,
\* and those of the astronomical one before the reform, up to the year 4199.
THEOREM RomanDatesRight == ASSUME ShortWalks PROVE Spec => []RomanDates
BY WalkYears, WalkGivesRoman, PTL

LEMMA RemIsMod ==
    \A y \in Int : /\ Rem(y, 4) = 0 <=> y % 4 = 0
                   /\ Rem(y, 100) = 0 <=> y % 100 = 0
                   /\ Rem(y, 400) = 0 <=> y % 400 = 0
<1> SUFFICES ASSUME NEW y \in Int
             PROVE  /\ Rem(y, 4) = 0 <=> y % 4 = 0
                    /\ Rem(y, 100) = 0 <=> y % 100 = 0
                    /\ Rem(y, 400) = 0 <=> y % 400 = 0
  OBVIOUS
<1>1. CASE y >= 0
  BY <1>1 DEF Rem, Quot
<1>2. CASE y < 0
  <2>1. PICK x \in Nat : y = -x
    BY <1>2
  <2>2. \A b \in {4, 100, 400} : Quot(y, b) = -(x \div b)
    BY <1>2, <2>1 DEF Quot
  <2>3. Rem(y, 4) = 0 <=> y % 4 = 0
    BY <2>1, <2>2 DEF Rem
  <2>4. Rem(y, 100) = 0 <=> y % 100 = 0
    BY <2>1, <2>2 DEF Rem
  <2>5. Rem(y, 400) = 0 <=> y % 400 = 0
    BY <2>1, <2>2 DEF Rem
  <2> QED
    BY <2>3, <2>4, <2>5
<1> QED
  BY <1>1, <1>2

LEMMA WalkGivesDayOfYear ==
    ASSUME WalkAndYears, month # 4, NEW d \in MonthDates, NEW h \in 0 .. 23,
           JdToDate(type, At(d, h)) = [year |-> year, month |-> month, day |-> d, hour |-> h]
    PROVE  DayOfYear(type, At(d, h)) = yday + d
<1>1. type \in Type /\ year \in Int /\ month \in 1 .. 12 /\ yday = MonthsBefore(Rule, year, month)
  BY DEF WalkAndYears, WalkInv, YearInv
<1> DEFINE roman == type = Roman \/ (type = Astronomical /\ At(d, h) < StartGregorian)
<1>2. roman <=> RuleAt(d) = Roman
  <2>1. AsOf(type, At(d, h)) = RuleAt(d)
    BY WalkDay DEF WalkAndYears
  <2>2. first \in Int /\ Nth(d) \in Int
    BY FirstIsInt DEF WalkAndYears, Nth, MonthDates, LastDate, MonthLength
  <2>3. At(d, h) \in Int
    BY <2>2 DEF At
  <2> QED
    BY <1>1, <2>1, <2>3 DEF AsOf, Type, Roman, Gregorian, Astronomical, StartGregorian
<1> DEFINE leap == /\ month > 2
                   /\ Rem(year, 4) = 0
                   /\ \/ Rem(year, 100) # 0
                      \/ Rem(year, 400) = 0
                      \/ roman
<1>3. leap <=> month > 2 /\ IsLeap(Rule, year)
  <2>1. CASE IsReform
    BY <2>1, RemIsMod DEF IsReform, IsLeap
  <2>2. CASE ~IsReform
    <3>1. RuleAt(d) = Rule /\ (Rule = Roman <=> Rule # Gregorian)
      BY <1>1, <2>2 DEF RuleAt, Rule, Type, Roman, Gregorian, Astronomical
    <3>2. /\ Rem(year, 4) = 0 <=> year % 4 = 0
          /\ Rem(year, 100) = 0 <=> year % 100 = 0
          /\ Rem(year, 400) = 0 <=> year % 400 = 0
      BY <1>1, RemIsMod
    <3> HIDE DEF roman
    <3> QED
      BY <1>2, <3>1, <3>2 DEF IsLeap
  <2> QED
    BY <2>1, <2>2
<1>4. DayOfYear(type, At(d, h)) = MonthStart[month] + d + (IF leap THEN 1 ELSE 0)
  BY DEF DayOfYear
<1>5. MonthStart[month] \in Int /\ d \in Int
  BY <1>1 DEF MonthStart, MonthDates, LastDate, MonthLength
<1> HIDE DEF leap
<1> QED
  BY <1>1, <1>3, <1>4, <1>5 DEF MonthsBefore

LEMMA WalkGivesMostDays == WalkAndYears /\ ShortWalks => DayOfYearOfMostDays
<1> SUFFICES ASSUME WalkAndYears, ShortWalks, month # 4, Rule = Gregorian \/ month \notin 2 .. 3,
                    NEW d \in MonthDates, NEW h \in Hour
             PROVE  DayOfYear(type, At(d, h)) = yday + d
  BY DEF DayOfYearOfMostDays, DayOfYearCounts
<1>1. h \in 0 .. 23 /\ (Rule = Gregorian \/ month \notin 2 .. 4)
  BY WalkAssumption DEF WalkAndYears, WalkInv
<1> QED
  BY <1>1, WalkGivesDay, WalkGivesDayOfYear

\* novas_day_of_year() counts the days of the year in every calendar, but in April and,
\* in the Roman calendar, in spring.
THEOREM DaysOfYearRight == ASSUME ShortWalks PROVE Spec => []DayOfYearOfMostDays
BY WalkYears, WalkGivesMostDays, PTL

LEMMA WalkGivesStamps == WalkAndYears /\ ShortWalks => StampsReadBack
<1> SUFFICES ASSUME WalkAndYears, ShortWalks, Rule = Gregorian \/ month \notin 2 .. 4,
                    NEW d \in EdgeDates, NEW h \in Hour, NEW stamp, stamp = StampText(type, At(d, h))
             PROVE  /\ <<stamp.year, stamp.month, stamp.day, stamp.hour>> = <<year, month, d, h>>
                    /\ ParseDate(type, stamp) = At(d, h)
  BY DEF StampsReadBack
<1>1. h \in 0 .. 23 /\ d \in MonthDates
  BY WalkAssumption DEF EdgeDates
<1>2. first \in Int /\ Nth(d) \in Int
  BY <1>1, FirstIsInt DEF WalkAndYears, Nth, MonthDates, LastDate, MonthLength
<1>3. 24 * ((At(d, h) + 12) \div 24) = At(d, 12) /\ (At(d, h) + 12) % 24 = h
  BY <1>1, <1>2 DEF At
<1>4. JdToDate(type, At(d, 12)) = [year |-> year, month |-> month, day |-> d, hour |-> 12]
  BY <1>1, WalkGivesDay
<1>5. stamp = DateText(year, month, d, h, 0, FALSE)
  <2>1. JdToDate(type, 24 * ((At(d, h) + 12) \div 24)) = [year |-> year, month |-> month, day |-> d, hour |-> 12]
    BY <1>3, <1>4
  <2> DEFINE date == JdToDate(type, 24 * ((At(d, h) + 12) \div 24))
  <2>2. date.year = year /\ date.month = month /\ date.day = d
    BY <2>1
  <2>3. stamp = DateText(date.year, date.month, date.day, (At(d, h) + 12) % 24, 0, FALSE)
    BY DEF StampText
  <2> HIDE DEF date
  <2> QED
    BY <1>3, <2>2, <2>3
<1>6. JdFromDate(type, year, month, d, h - 0) = At(d, h)
  BY <1>1, WalkGivesDays DEF DayFromDate, WalkAndYears
<1> QED
  BY <1>5, <1>6 DEF DateText, ParseDate, Zone

\* What timestamp() writes, novas_parse_date_format() reads as the time it is of, and so
\* it reads local times with their zones.
THEOREM DateTextsRight == ASSUME ShortWalks PROVE Spec => []DateTextsReadBack
<1>1. WalkAndYears /\ ShortWalks => DateTextsReadBack
  BY WalkGivesZoned, WalkGivesStamps DEF DateTextsReadBack, WalkAndYears
<1> QED
  BY <1>1, WalkYears, PTL

=============================================================================
