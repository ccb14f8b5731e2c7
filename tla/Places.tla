------------------------------- MODULE Places -------------------------------
(***************************************************************************)
(* place() computes where a source appears.  It remembers, for its thread, *)
(* where Earth and Sun were at the date and in the accuracy of the last    *)
(* call, and takes them from there in the next call for the same.          *)
(***************************************************************************)
EXTENDS Observers

CONSTANT Stars

ASSUME PlaceAssumption ==
    Stars \cap Bodies = {}

VARIABLES
    memo,           \* tlast, acc_last, peb, psb
    spoiled,        \* history: a call failed while it filled the memo
    placed          \* the last place computed, and for what

placeVars == <<planetCall, planetCallHp, ephemCall, allowLp, memo, spoiled, placed>>

PlaceInit ==
    /\ ProvidersInit
    /\ memo = [t |-> NoTime, acc |-> Full, earth |-> Garbage, sun |-> Garbage]
    /\ spoiled = FALSE
    /\ placed = Failed

IsHitForAnyDate(t, accuracy) == memo.acc = accuracy      \* fault
IsHit(t, accuracy) == memo.t = t /\ memo.acc = accuracy

\* What a failed query leaves in its output vector: nothing or something.
Spoil(v) == {v, Garbage}

\* place() fails for want of the Earth, or of the Sun after it has the Earth.
PlaceNoEarth(t, accuracy, bad) ==
    /\ ~IsHit(t, accuracy)
    /\ Ephemeris(t, Earth, SSB, accuracy, bad) = Failed
    /\ \E v \in Spoil(memo.earth) : memo' = [memo EXCEPT !.earth = v]
    /\ spoiled' = TRUE
    /\ placed' = Failed

PlaceNoSun(t, accuracy, bad) ==
    LET earth == Ephemeris(t, Earth, SSB, accuracy, bad)
    IN  /\ ~IsHit(t, accuracy)
        /\ earth # Failed
        /\ Ephemeris(t, Sun, SSB, accuracy, bad) = Failed
        /\ \E v \in Spoil(memo.sun) : memo' = [memo EXCEPT !.earth = earth, !.sun = v]
        /\ spoiled' = TRUE
        /\ placed' = Failed

\* The memo for a date and an accuracy: as it is, or filled.
Filled(t, accuracy, bad) ==
    IF IsHit(t, accuracy) THEN memo
    ELSE [t |-> t, acc |-> accuracy,
          earth |-> Ephemeris(t, Earth, SSB, accuracy, bad), sun |-> Ephemeris(t, Sun, SSB, accuracy, bad)]

\* What place() computes from Earth and Sun: the observer, the source from there,
\* the bodies that deflect its light unless the place is astrometric.
PlaceFrom(m, t, source, obs, corrected, accuracy, bad) ==
    LET pob  == ObsPosvel(t, obs, m.earth)
        seen == IF source \in Stars THEN Minus(Vector(source, SSB, t), pob)
                ELSE LightTime2(t, source, pob, accuracy, bad)
    IN  IF \/ seen = Failed
           \/ source = Earth /\ obs = "geocenter"
           \/ corrected /\ ~HasSun(t, accuracy, pob, bad)
        THEN Failed
        ELSE [t |-> t, source |-> source, obs |-> obs, from |-> pob, seen |-> seen, sun |-> m.sun]

PlaceDone(t, source, obs, corrected, accuracy, bad) ==
    LET m == Filled(t, accuracy, bad)
    IN  /\ m.earth # Failed /\ m.sun # Failed
        /\ memo' = m
        /\ spoiled' = (spoiled /\ IsHit(t, accuracy))
        /\ placed' = PlaceFrom(m, t, source, obs, corrected, accuracy, bad)

Place ==
    \E t \in Times, accuracy \in Accuracies, bad \in Outages :
        /\ \/ PlaceNoEarth(t, accuracy, bad)
           \/ PlaceNoSun(t, accuracy, bad)
           \/ \E source \in Stars \cup (Bodies \ {SSB}), obs \in Observer, corrected \in BOOLEAN :
                 PlaceDone(t, source, obs, corrected, accuracy, bad)
        /\ UNCHANGED providers

PlaceNext == Place \/ (Configure /\ UNCHANGED <<memo, spoiled, placed>>)

PlaceSpec == PlaceInit /\ [][PlaceNext]_placeVars

\* A place is seen from where the observer is at its date, and compared with the
\* Sun of that date, however calls for different dates and accuracies follow one
\* another, unless one has failed while it filled the memo and none has filled it since.
\* Objects of the ephemeris provider are left out, see AnswerAsAsked.
PlaceOfItsDate ==
    placed # Failed /\ ~spoiled =>
        /\ placed.from = Vector(placed.obs, SSB, placed.t)
        /\ placed.source \notin EphemObjects => placed.seen = Vector(placed.source, placed.obs, placed.t)
        /\ placed.sun = Vector(Sun, SSB, placed.t)

\* The same without the exception.
EveryPlaceOfItsDate ==
    placed # Failed =>
        /\ placed.from = Vector(placed.obs, SSB, placed.t)
        /\ placed.source \notin EphemObjects => placed.seen = Vector(placed.source, placed.obs, placed.t)
        /\ placed.sun = Vector(Sun, SSB, placed.t)

=============================================================================
