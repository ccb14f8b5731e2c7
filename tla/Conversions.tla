----------------------------- MODULE Conversions -----------------------------
(***************************************************************************)
(* A program takes a direction from one coordinate system to another, by   *)
(* the functions of transform.c and system.c, which know the date and      *)
(* remember what they computed last, and by those of frames.c, whose       *)
(* matrices were computed when the observing frame was made.  Whatever     *)
(* functions lead to a system, the direction has to be the same there.     *)
(*                                                                         *)
(* Left out: the TIO locator s', the difference of TT and TDB, refraction, *)
(* the difference between a rotation and its linear approximation, and a   *)
(* call of set_nutation_lp_provider() after first use, which is not        *)
(* noticed by nutation_angles() until the date or the accuracy changes.    *)
(***************************************************************************)
EXTENDS Moments, Rotations

CONSTANTS
    Dates,          \* dates, counted from J2000Date in units of half of Near
    Providers,      \* functions that set_nutation_lp_provider() may be given
    IAU2000A,       \* what full accuracy uses
    Offsets,        \* celestial pole offsets for cel_pole(); 0 is none
    AppSystems      \* systems that the program asks apparent places in

ASSUME ConversionAssumption ==
    /\ Dates \subseteq Int
    /\ \A t \in Dates : Near(t, J2000Date) => t = J2000Date
    /\ NoTime \notin Dates
    /\ 0 \in Offsets

VARIABLES
    pole,           \* PSI_COR, EPS_COR
    lp,             \* the low-precision nutation provider, registered before first use
    nut,            \* what nutation_angles() computed last
    gast,           \* what novas_gast() computed last
    frame,          \* an observing frame
    pos             \* the direction

convVars == <<pole, lp, nut, gast, frame, pos>>

Celestial == {"GCRS", "ICRS", "J2000", "MOD", "TOD", "CIRS"}
Systems   == Celestial \cup {"TIRS", "ITRS"}

Never == [t |-> NoTime, acc |-> Full]

\* nutation_angles(): computed anew for another date or accuracy.
Angles(t, acc) ==
    IF nut.t = t /\ nut.acc = acc THEN nut
    ELSE [t |-> t, acc |-> acc, by |-> IF acc = Full THEN IAU2000A ELSE lp]

\* e_tilt(): the offsets of the pole are added to what nutation_angles() gives.
Tilt(t, acc) == [by |-> Angles(t, acc).by, pole |-> pole]

\* Fault: the sidereal time is remembered by its date alone.
RememberedByDate(t, acc) == gast.t = t

\* novas_gast(): likewise remembered, with the offsets that were added.
Remembered(t, acc) == gast.t = t /\ gast.acc = acc
Gast(t, acc) ==
    IF Remembered(t, acc) THEN gast ELSE [t |-> t, acc |-> acc, tilt |-> Tilt(t, acc)]

T == pos.t
E == Tilt(pos.t, pos.acc)
AnglesUsed == nut' = Angles(pos.t, pos.acc)

-----------------------------------------------------------------------------
\* transform.c: chains of rotations for the date of the direction.

GcrsToJ2000(w) == Turn(w, Tie)
J2000ToGcrs(w) == Turn(w, Undo(Tie))
GcrsToMod(w)   == Precess(Turn(w, Tie), J2000Date, T)
ModToGcrs(w)   == Turn(Precess(w, T, J2000Date), Undo(Tie))
J2000ToTod(w)  == Turn(Precess(w, J2000Date, T), Nutate(T, E))
TodToJ2000(w)  == Precess(Turn(w, Undo(Nutate(T, E))), T, J2000Date)
GcrsToTod(w)   == J2000ToTod(Turn(w, Tie))
TieFirst(w)    == TodToJ2000(Turn(w, Undo(Tie)))     \* fault: in the wrong order
TodToGcrs(w)   == Turn(TodToJ2000(w), Undo(Tie))
TodToCirs(w)   == Turn(w, ToCio(T, E))
CirsToTod(w)   == Turn(w, Undo(ToCio(T, E)))
GcrsToCirs(w)  == TodToCirs(GcrsToTod(w))
CirsToGcrs(w)  == TodToGcrs(CirsToTod(w))

IcrsToSys(w) == [GCRS |-> w, ICRS |-> w, J2000 |-> GcrsToJ2000(w), MOD |-> GcrsToMod(w),
                 TOD |-> GcrsToTod(w), CIRS |-> GcrsToCirs(w)]
SysToIcrs(w) == [GCRS |-> w, ICRS |-> w, J2000 |-> J2000ToGcrs(w), MOD |-> ModToGcrs(w),
                 TOD |-> TodToGcrs(w), CIRS |-> CirsToGcrs(w)]

\* spin() by the sidereal time, from the equinox, and by the Earth rotation angle.
Sidereal(t, tilt) == <<ToCio(t, tilt), Era(t)>>

-----------------------------------------------------------------------------
ConvInit ==
    /\ pole = 0
    /\ lp \in Providers
    /\ nut = Never
    /\ gast = Never
    /\ frame = Never
    /\ pos = [sys |-> "GCRS", word |-> <<>>, t |-> NoTime, acc |-> Full,
              pole |-> 0, app |-> FALSE, stale |-> FALSE]

\* The program has a direction in the GCRS, to convert with the pole in force or,
\* in frames, without.
Begin ==
    /\ \E t \in Dates, acc \in Accuracies, p \in {0, pole} :
          pos' = [sys |-> "GCRS", word |-> <<>>, t |-> t, acc |-> acc,
                  pole |-> p, app |-> FALSE, stale |-> FALSE]
    /\ UNCHANGED <<pole, lp, nut, gast, frame>>

\* A direction spoilt by an outdated sidereal time is followed no further.
Begun == pos.t # NoTime /\ ~pos.stale

\* The pole offset of the process is that of the direction.
Legacy == Begun /\ pos.pole = pole

Moved(sys, word) == pos' = [pos EXCEPT !.sys = sys, !.word = word]

Remaining == UNCHANGED <<pole, lp, frame>>

\* cel_pole(), at any time.
CelPole ==
    /\ \E p \in Offsets : pole' = p
    /\ UNCHANGED <<lp, nut, gast, frame, pos>>

\* sidereal_time() for some other purpose.
SiderealTime ==
    /\ \E t \in Dates, acc \in Accuracies :
          /\ nut' = IF Remembered(t, acc) THEN nut ELSE Angles(t, acc)
          /\ gast' = Gast(t, acc)
    /\ UNCHANGED <<pole, lp, frame, pos>>

-----------------------------------------------------------------------------
\* Directions converted for their date.

ConvertIcrs ==
    /\ Legacy
    /\ \/ /\ pos.sys \in {"GCRS", "ICRS"}
          /\ \E sys \in Celestial : Moved(sys, IcrsToSys(pos.word)[sys])
       \/ /\ pos.sys \in Celestial
          /\ Moved("ICRS", SysToIcrs(pos.word)[pos.sys])
    /\ AnglesUsed
    /\ UNCHANGED gast /\ Remaining

\* j2000_to_tod() and back, and tod_to_cirs(), app_to_cirs_ra() and back.
ConvertTod ==
    /\ Legacy
    /\ \/ pos.sys = "J2000" /\ Moved("TOD", J2000ToTod(pos.word))
       \/ pos.sys = "TOD" /\ Moved("J2000", TodToJ2000(pos.word))
       \/ pos.sys = "TOD" /\ Moved("CIRS", TodToCirs(pos.word))
       \/ pos.sys = "CIRS" /\ Moved("TOD", CirsToTod(pos.word))
    /\ AnglesUsed
    /\ UNCHANGED gast /\ Remaining

\* precession() to another date.
ConvertDate ==
    /\ Begun
    /\ pos.sys = "MOD"
    /\ ~pos.app
    /\ \E t \in Dates : pos' = [pos EXCEPT !.t = t, !.word = Precess(@, pos.t, t)]
    /\ UNCHANGED <<nut, gast>> /\ Remaining

\* cel2ter() and ter2cel() with EROT_ERA: from and to CIRS, or the GCRS.
ConvertEra ==
    /\ Legacy
    /\ LET spun == <<Era(T), Wobble(T)>> IN
       \/ pos.sys = "CIRS" /\ Moved("ITRS", Forth(pos.word, spun)) /\ UNCHANGED nut
       \/ pos.sys = "GCRS" /\ Moved("ITRS", Forth(GcrsToCirs(pos.word), spun)) /\ AnglesUsed
       \/ pos.sys = "ITRS" /\ Moved("CIRS", Back(pos.word, spun)) /\ UNCHANGED nut
       \/ pos.sys = "ITRS" /\ Moved("GCRS", CirsToGcrs(Back(pos.word, spun))) /\ AnglesUsed
    /\ UNCHANGED gast /\ Remaining

\* The same with EROT_GST: from and to TOD, or the GCRS.
Spun(g) == Append(Sidereal(T, g.tilt), Wobble(T))

MovedBy(g, sys, word) ==
    pos' = [pos EXCEPT !.sys = sys, !.word = word, !.stale = g.tilt.pole # pole]

GastUsed == gast' = Gast(pos.t, pos.acc)

TiltUsed == nut' = IF Remembered(pos.t, pos.acc) THEN nut ELSE Angles(pos.t, pos.acc)

ConvertGst ==
    /\ Legacy
    /\ LET g == Gast(pos.t, pos.acc) IN
       \/ pos.sys = "TOD" /\ MovedBy(g, "ITRS", Forth(pos.word, Spun(g))) /\ TiltUsed
       \/ pos.sys = "GCRS" /\ MovedBy(g, "ITRS", Forth(GcrsToTod(pos.word), Spun(g))) /\ AnglesUsed
       \/ pos.sys = "ITRS" /\ MovedBy(g, "TOD", Back(pos.word, Spun(g))) /\ TiltUsed
       \/ pos.sys = "ITRS" /\ MovedBy(g, "GCRS", TodToGcrs(Back(pos.word, Spun(g)))) /\ AnglesUsed
    /\ GastUsed
    /\ Remaining

\* equ2hor(): the axes of the horizon are brought to the TOD instead.
EquToHor ==
    /\ Legacy
    /\ pos.sys = "TOD"
    /\ LET g == Gast(pos.t, pos.acc)
       IN  MovedBy(g, "HOR", Forth(pos.word, Append(Spun(g), Horizon)))
    /\ TiltUsed /\ GastUsed
    /\ Remaining

\* itrs_to_hor() and back.
ConvertHorizon ==
    /\ Begun
    /\ \/ pos.sys = "ITRS" /\ Moved("HOR", Turn(pos.word, Horizon))
       \/ pos.sys = "HOR" /\ Moved("ITRS", Turn(pos.word, Undo(Horizon)))
    /\ UNCHANGED <<nut, gast>> /\ Remaining

\* equ2ecl_vec() and ecl2equ_vec(), by type of equator.
ConvertEcliptic ==
    LET mean == MeanObliquity(T)
        true == TrueObliquity(T, E)
        tied == <<Tie, MeanObliquity(J2000Date)>>
    IN  /\ Legacy
        /\ \/ /\ \/ pos.sys = "MOD" /\ Moved("ECL_MEAN", Turn(pos.word, mean))
                 \/ pos.sys = "TOD" /\ Moved("ECL_TRUE", Turn(pos.word, true))
                 \/ pos.sys = "ECL_MEAN" /\ Moved("MOD", Turn(pos.word, Undo(mean)))
                 \/ pos.sys = "ECL_TRUE" /\ Moved("TOD", Turn(pos.word, Undo(true)))
              /\ AnglesUsed
           \/ /\ \/ pos.sys = "GCRS" /\ Moved("ECL_GCRS", Forth(pos.word, tied))
                 \/ pos.sys = "ECL_GCRS" /\ Moved("GCRS", Back(pos.word, tied))
              /\ UNCHANGED nut
        /\ UNCHANGED gast /\ Remaining

\* equ2gal() and gal2equ().
ConvertGalactic ==
    /\ Begun
    /\ \/ pos.sys = "ICRS" /\ Moved("GAL", Turn(pos.word, Galactic))
       \/ pos.sys = "GAL" /\ Moved("ICRS", Turn(pos.word, Undo(Galactic)))
    /\ UNCHANGED <<nut, gast>> /\ Remaining

-----------------------------------------------------------------------------
\* frames.c: what a frame's matrices do.  Frames have no celestial pole offset.

F == frame
FPrec == Precess(<<>>, J2000Date, F.t)
FNut  == Nutate(F.t, F.tilt)
FWobble == Wobble(F.t)
FWobbleMas == Rotation("wobble by as many arcseconds", F.t)
ToMod  == <<Tie>> \o FPrec
ToTod  == Append(ToMod, FNut)
ToGcrsToCirs == Append(ToTod, ToCio(F.t, F.tilt))

\* novas_make_frame(), for the date of the direction.
UseFrame ==
    /\ Begun
    /\ AnglesUsed
    /\ frame' = [t |-> pos.t, acc |-> pos.acc,
                 tilt |-> [by |-> Angles(pos.t, pos.acc).by, pole |-> 0]]
    /\ UNCHANGED <<pole, lp, gast, pos>>

\* A direction of the date of the frame, and without pole offset.
InFrame == Begun /\ frame.t = pos.t /\ frame.acc = pos.acc /\ pos.pole = 0

\* icrs_to_sys().  It gives wobble() the milliarcseconds of the frame.
FrameIcrsToSys(w) ==
    LET cirs == Forth(w, ToGcrsToCirs) IN
    [GCRS |-> w, ICRS |-> w,
     J2000 |-> Turn(w, Tie), MOD |-> Forth(w, ToMod), TOD |-> Forth(w, ToTod),
     CIRS |-> cirs, TIRS |-> Turn(cirs, Era(F.t)), ITRS |-> Forth(cirs, <<Era(F.t), FWobbleMas>>)]

Bend == Rotation("deflection", F.t)
Aberrate == Rotation("aberration", F.t)

\* novas_geom_to_app().
GeomToApp ==
    /\ InFrame
    /\ pos.sys \in {"GCRS", "ICRS"} /\ ~pos.app
    /\ \E sys \in AppSystems :
          pos' = [pos EXCEPT !.sys = sys, !.app = TRUE,
                             !.word = FrameIcrsToSys(Forth(@, <<Bend, Aberrate>>))[sys]]
    /\ UNCHANGED <<nut, gast>> /\ Remaining

\* The rotations back to the ICRS in novas_app_to_geom().
FrameSysToIcrs(w) ==
    LET tirs == Turn(w, Undo(FWobbleMas))
        FromTirs(v) == Back(Turn(v, Undo(Era(F.t))), ToGcrsToCirs)
    IN  [GCRS |-> w, ICRS |-> w,
         J2000 |-> Turn(w, Undo(Tie)), MOD |-> Back(w, ToMod), TOD |-> Back(w, ToTod),
         CIRS |-> Back(w, ToGcrsToCirs), TIRS |-> FromTirs(w), ITRS |-> FromTirs(tirs)]

\* novas_app_to_geom().
AppToGeom ==
    /\ InFrame
    /\ pos.app /\ pos.sys \in AppSystems
    /\ pos' = [pos EXCEPT !.sys = "ICRS", !.app = FALSE,
                          !.word = Back(FrameSysToIcrs(@)[pos.sys], <<Bend, Aberrate>>)]
    /\ UNCHANGED <<nut, gast>> /\ Remaining

\* The switch of novas_app_to_hor(): rotations to the ITRS.
FrameToItrs ==
    LET gst == Append(Sidereal(F.t, F.tilt), FWobble)
        era == <<Era(F.t), FWobble>>
    IN  [J2000 |-> Append(FPrec, FNut) \o gst, MOD |-> <<FNut>> \o gst, TOD |-> gst,
         GCRS |-> ToGcrsToCirs \o era, ICRS |-> ToGcrsToCirs \o era, CIRS |-> era,
         TIRS |-> <<FWobble>>, ITRS |-> <<>>]

AppToHor ==
    /\ InFrame
    /\ pos.sys \in Systems
    /\ Moved("HOR", Forth(pos.word, Append(FrameToItrs[pos.sys], Horizon)))
    /\ UNCHANGED <<nut, gast>> /\ Remaining

\* cmp_sys(): the order of the systems from TOD to ITRS.
Index == [GCRS |-> 0, TOD |-> -3, CIRS |-> 1, ICRS |-> 0, J2000 |-> -1, MOD |-> -2, TIRS |-> 2, ITRS |-> 3]

\* novas_hor_to_app(), with its way back from the ITRS.
HorToApp ==
    /\ InFrame
    /\ pos.sys = "HOR"
    /\ \E sys \in Systems :
          LET itrs == Turn(pos.word, Undo(Horizon))
              spun == IF Index[sys] < 0 THEN Sidereal(F.t, F.tilt) ELSE <<Era(F.t)>>
              rest == [TOD |-> <<>>, MOD |-> <<FNut>>, J2000 |-> Append(FPrec, FNut), CIRS |-> <<>>,
                       ICRS |-> ToGcrsToCirs, GCRS |-> ToGcrsToCirs]
              tirs == Turn(itrs, Undo(FWobble))
          IN  Moved(sys, IF sys = "ITRS" THEN itrs
                         ELSE IF sys = "TIRS" THEN tirs
                         ELSE Back(Back(tirs, spun), rest[sys]))
    /\ UNCHANGED <<nut, gast>> /\ Remaining

\* novas_make_transform(): from one system to the next in the order of Index,
\* until the system asked for is reached.  Step(i) leads from index i - 1 to i.
Step(i) == <<<<Undo(FNut)>>, Precess(<<>>, F.t, J2000Date), <<Undo(Tie)>>,
             ToGcrsToCirs, <<Era(F.t)>>, <<FWobble>>>>[i + 3]

Transform(word, from, to) ==
    LET a == Index[from]
        b == Index[to]
    IN  ForthAll(word, IF a <= b THEN [i \in 1 .. b - a |-> Step(a + i)]
                       ELSE [i \in 1 .. a - b |-> Undone(Step(a + 1 - i))])

\* novas_transform_vector() and novas_transform_sky_pos().
TransformTo ==
    /\ InFrame
    /\ pos.sys \in Systems
    /\ \E sys \in Systems : Moved(sys, Transform(pos.word, pos.sys, sys))
    /\ UNCHANGED <<nut, gast>> /\ Remaining

ConvNext ==
    \/ Begin \/ CelPole \/ SiderealTime
    \/ ConvertIcrs \/ ConvertTod \/ ConvertDate \/ ConvertEra \/ ConvertGst \/ EquToHor
    \/ ConvertHorizon \/ ConvertEcliptic \/ ConvertGalactic
    \/ UseFrame \/ GeomToApp \/ AppToGeom \/ AppToHor \/ HorToApp \/ TransformTo

ConvSpec == ConvInit /\ [][ConvNext]_convVars

-----------------------------------------------------------------------------
\* What the definitions of the systems say of a direction.

Image(t, tilt) ==
    LET mod  == IF t = J2000Date THEN <<Tie>> ELSE <<Tie, Rotation("precession", t)>>
        tod  == Append(mod, Nutate(t, tilt))
        cirs == Append(tod, ToCio(t, tilt))
        itrs == cirs \o <<Era(t), Wobble(t)>>
    IN  [GCRS |-> <<>>, ICRS |-> <<>>, J2000 |-> <<Tie>>, MOD |-> mod, TOD |-> tod, CIRS |-> cirs,
         TIRS |-> Append(cirs, Era(t)), ITRS |-> itrs, HOR |-> Append(itrs, Horizon),
         ECL_MEAN |-> Append(mod, MeanObliquity(t)), ECL_TRUE |-> Append(tod, TrueObliquity(t, tilt)),
         ECL_GCRS |-> <<Tie, MeanObliquity(J2000Date)>>, GAL |-> <<Galactic>>]

ImageOfPos ==
    LET tilt == [by |-> IF pos.acc = Full THEN IAU2000A ELSE lp, pole |-> pos.pole]
        seen == IF pos.app THEN <<Rotation("deflection", pos.t), Rotation("aberration", pos.t)>> ELSE <<>>
    IN  seen \o Image(pos.t, tilt)[pos.sys]

OnEarth == {"TIRS", "ITRS", "HOR"}

\* In every system of the sky, equatorial, ecliptic or galactic, a direction is
\* where the definition of the system puts it, by whatever functions of
\* transform.c, system.c and frames.c it got there, and however cel_pole() and
\* calls for other dates and accuracies came in between.
CelestialImage == Begun /\ pos.sys \notin OnEarth => pos.word = ImageOfPos

\* So it is on the rotating Earth, from the equinox or from the CIO, unless a
\* sidereal time was used that novas_gast() remembers from before cel_pole().
EarthImage == Begun /\ pos.sys \in OnEarth => pos.word = ImageOfPos

=============================================================================
