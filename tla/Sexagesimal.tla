----------------------------- MODULE Sexagesimal -----------------------------
(***************************************************************************)
(* Angles and times of day as texts: novas_print_dms() and                 *)
(* novas_print_hms() of util.c write them, novas_str_degrees() and         *)
(* novas_str_hours() of parse.c read them, and the classes Angle and       *)
(* TimeAngle of src/cpp do one after the other.                            *)
(*                                                                         *)
(* A text is a record of what its reader can tell apart: the sign, the     *)
(* digits of each part, and what stands before and after them.  Values are *)
(* counted in ticks, finer than the last digit printed.  Left out: which   *)
(* of the separators is between two parts, and how numbers are spelled.    *)
(***************************************************************************)
EXTENDS Circles

CONSTANTS
    Sixty,          \* minutes in a degree or an hour, seconds in a minute
    Circle,         \* degrees in a circle
    HoursInDay,
    Mult,           \* units of the last digit printed in a second
    Digit,          \* ticks in a unit of the last digit
    Written         \* bound: the values that are written, in ticks

ASSUME SexagesimalAssumption ==
    /\ {Sixty, Circle, HoursInDay, Mult, Digit} \subseteq Nat \ {0}
    /\ Written \subseteq Int

VARIABLES
    text,           \* the text
    meant           \* the value that it is written for

textVars == <<text, meant>>

Degree == Sixty * Sixty * Mult * Digit      \* ticks in a degree, or in an hour

\* The size of a text's parts, in ticks.
Size(parts) == (((parts.d * Sixty + parts.m) * Sixty + parts.s) * Mult + parts.ss) * Digit

SecondsApart(value) ==      \* fault: what is rounded is not carried
    LET n == value \div Digit
    IN  [d |-> n \div (Sixty * Sixty * Mult), m |-> (n \div (Sixty * Mult)) % Sixty,
         s |-> (n \div Mult) % Sixty, ss |-> (2 * (value % (Mult * Digit)) + Digit) \div (2 * Digit)]

\* breakdown(): rounded once, to the last digit.
Breakdown(value) ==
    LET n == (2 * value + Digit) \div (2 * Digit)
    IN  [d |-> n \div (Sixty * Sixty * Mult), m |-> (n \div (Sixty * Mult)) % Sixty,
         s |-> (n \div Mult) % Sixty, ss |-> n % Mult]

\* What may follow the seconds, or decimal degrees: nothing, their unit, the unit
\* after a space, a quotation mark.  NOVAS_SEP_UNITS and the like print the second.
Units  == {"", "s", " s", "quote"}
Text(form, minus, parts, unit) ==
    [form |-> form, minus |-> minus, parts |-> parts, unit |-> unit,
     lead |-> "none", trail |-> "none", gap |-> FALSE]

\* novas_print_dms(): the sign is that of the whole degrees.
PrintDms(value, unit) ==
    LET deg   == Remainder(value, Circle * Degree)
        parts == Breakdown(Magnitude(deg))
    IN  Text("dms", deg < 0 /\ parts.d # 0, parts, unit)

\* novas_print_hms()
PrintHms(value, unit) == Text("hms", FALSE, Breakdown(value % (HoursInDay * Degree)), unit)

\* What of a text goes unread: a unit that stands at the digits, with all that
\* comes after it, and a compass letter that stands at the unit of decimal
\* degrees, with that unit.
Stuck(t) ==
    IF t.form = "decimal" THEN t.unit \in {"s", " s"} /\ t.trail # "none" /\ ~t.gap ELSE t.unit = "s"

\* parse_compass(), before the digits or else after them.
IsSouth(t) == t.lead = "south" \/ (t.lead = "none" /\ t.trail = "south" /\ ~Stuck(t))

InRange(parts) == parts.m < Sixty /\ parts.s < Sixty

\* novas_str_degrees(), by way of novas_parse_dms() or, for decimals, of what
\* novas_parse_degrees() does then; and novas_str_hours().  The sign of a
\* sexagesimal text is that of its degrees, and errno tells of an unread rest.
Read(t) ==
    LET negative == t.minus /\ (t.form = "decimal" \/ t.parts.d # 0)
        size     == IF negative THEN -Size(t.parts) ELSE Size(t.parts)
    IN  [ok    |-> t.form = "decimal" \/ InRange(t.parts),
         value |-> IF t.form # "hms" /\ IsSouth(t) THEN -size ELSE size,
         rest  |-> Stuck(t) \/ (t.lead # "none" /\ t.trail # "none")]

-----------------------------------------------------------------------------
Period(form) ==
    (IF form = "hms" THEN HoursInDay ELSE Circle) * Degree

\* A program prints the value, as an angle or as a time.
Display ==
    \E unit \in {"", "s"} :
        /\ text' \in {PrintDms(meant, unit), PrintHms(meant, unit)}
        /\ UNCHANGED meant

\* Somebody writes it down, with its sign, also in decimals.
Write ==
    \E unit \in Units, form \in {"dms", "hms", "decimal"} :
        /\ text' = Text(form, meant < 0, Breakdown(Magnitude(meant)), unit)
        /\ UNCHANGED meant

\* The sign is given by a letter or a word instead, before the digits or after:
\* north or east for positive angles, south or west for negative ones.
Annotate ==
    \E side \in {"lead", "trail"}, gap \in BOOLEAN :
        LET to == IF Remainder(meant, Period("dms")) < 0 THEN "south" ELSE "north"
        IN  /\ text.form \in {"dms", "decimal"}
            /\ text.lead = "none" /\ text.trail = "none"
            /\ Size(text.parts) <= Period("dms") \div 2
            /\ text' = [text EXCEPT ![side] = to, !.gap = gap, !.minus = FALSE]
            /\ UNCHANGED meant

\* A text is read and what was read is printed, as C++ objects do.
Reprint ==
    \E unit \in {"", "s"} :
        /\ Read(text).ok /\ ~Read(text).rest
        /\ text' = IF text.form = "hms" THEN PrintHms(Read(text).value, unit)
                   ELSE PrintDms(Read(text).value, unit)
        /\ UNCHANGED meant

TextInit == meant \in Written /\ text = PrintDms(meant, "")

TextNext == Display \/ Write \/ Annotate \/ Reprint

TextSpec == TextInit /\ [][TextNext]_textVars

-----------------------------------------------------------------------------
\* Two values are the same to the last digit, but for whole turns or days.
Same(v, w) == 2 * Remainder(v - w, Period(text.form)) \in -Digit .. Digit

ReadsBack == Read(text).ok /\ Same(Read(text).value, meant)

\* The value is less than one degree, or one hour, and only the sign of its
\* sexagesimal text could say that it is negative.
IsSignLost ==
    /\ text.form # "decimal" /\ text.lead = "none" /\ text.trail = "none"
    /\ text.parts.d = 0
    /\ Same(Read(text).value, -meant)

\* What is printed or written, given a compass letter instead of its sign, read
\* and printed again, any number of times, reads as what was meant: rounding never
\* makes a part of sixty, nor drifts, and no sign counts twice.  Where a compass
\* letter is not understood novas_str_degrees() says in errno that it left a rest.
TextsReadBack ==
    \/ ReadsBack
    \/ IsSignLost
    \/ /\ Read(text).rest
       /\ text.trail # "none"

\* novas_print_dms() prints "[-]ddd:mm:ss[.S...]", and what it prints is read as
\* the angle that it was given.
PrintedAnglesReadBack ==
    \A unit \in {"", "s"} :
        LET printed == Read(PrintDms(meant, unit))
        IN  2 * Remainder(printed.value - meant, Period("dms")) \in -Digit .. Digit

=============================================================================
