------------------------------ MODULE Rotations ------------------------------
(***************************************************************************)
(* Directions without trigonometry.  A direction is known by the word of   *)
(* rotations that lead to it from its place in the GCRS, and two           *)
(* directions are the same when their words are.  A rotation is known by   *)
(* its name and by what its angles were computed from: a date, a nutation  *)
(* model, a celestial pole offset.  A rotation that meets its own inverse  *)
(* goes away, and nothing else does, so that a step left out, taken twice, *)
(* taken in the wrong order or for another date leaves a trace.            *)
(***************************************************************************)
EXTENDS Integers, SequencesExt

\* A rotation for a date, and one for a date and a tilt: [by, pole], the model
\* that gave the nutation angles and the celestial pole offset added to them.
Tilted(name, t, tilt) == [name |-> name, t |-> t, by |-> tilt.by, pole |-> tilt.pole, back |-> FALSE]
Rotation(name, t) == Tilted(name, t, [by |-> "none", pole |-> 0])

Undo(r) == [r EXCEPT !.back = ~@]

Turn(word, r) ==
    IF word # <<>> /\ Last(word) = Undo(r) THEN Front(word) ELSE Append(word, r)

\* The rotations of a sequence one after the other, and all of them undone.
Undone(rs) == [i \in DOMAIN rs |-> Undo(Reverse(rs)[i])]
Forth(word, rs) == FoldLeft(Turn, word, rs)
Back(word, rs)  == Forth(word, Undone(rs))
ForthAll(word, legs) == FoldLeft(Forth, word, legs)

-----------------------------------------------------------------------------
J2000Date == 0          \* NOVAS_JD_J2000, in dates that count from it

Tie == Rotation("frame_tie", J2000Date)                          \* ICRS to J2000
Nutate(t, tilt) == Tilted("nutation", t, tilt)                   \* MOD to TOD
ToCio(t, tilt) == Tilted("equinox to CIO", t, tilt)              \* TOD to CIRS
Era(t) == Rotation("era", t)                                     \* CIRS to TIRS
Wobble(t) == Rotation("wobble", t)                               \* TIRS to ITRS
MeanObliquity(t) == Rotation("obliquity", t)                     \* equator to ecliptic
TrueObliquity(t, tilt) == Tilted("obliquity", t, tilt)
Galactic == Rotation("galactic", J2000Date)
Horizon == Rotation("horizon", J2000Date)

\* novas_time_equals(), in units of half its tolerance.
Near(t, u) == t - u \in -1 .. 1

\* precession(): matrices are known for leaving J2000 and for coming to it; a
\* change of two other dates goes by way of J2000.
Precess(word, from, to) ==
    LET Leave(w, t) == Turn(w, Rotation("precession", t))
        Come(w, t)  == Turn(w, Undo(Rotation("precession", t)))
    IN  IF from = to THEN word
        ELSE IF ~Near(from, J2000Date) /\ ~Near(to, J2000Date)
             THEN Leave(Come(word, from), to)
        ELSE IF to = J2000Date THEN Come(word, from - to)
        ELSE Leave(word, to - from)

=============================================================================
