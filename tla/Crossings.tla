------------------------------ MODULE Crossings ------------------------------
(***************************************************************************)
(* Searches for the next time of something: when a source rises, sets or   *)
(* transits (novas_cross_el_date() of frames.c), and when the Moon has a   *)
(* phase (novas_next_moon_phase() of moon.c).  Both estimate the time from *)
(* where things are at the last estimate, until it stays the same.         *)
(*                                                                         *)
(* Times are in ticks, of which a turn of the sky has TurnTicks; an hour   *)
(* of sidereal time is thus also one of the time, and the division by      *)
(* SIDEREAL_RATE has been made.  Hour angles are for the observer's        *)
(* meridian.  Left out: spherical trigonometry, which HalfArc stands for.  *)
(***************************************************************************)
EXTENDS Circles

CONSTANTS
    TurnTicks,      \* ticks of a turn of the sky
    SolarDay,       \* ticks of a day
    Sources,
    Distant,        \* sources of the type NOVAS_CATALOG_OBJECT, which stay in place
    Ra(_, _),       \* right ascension of a source at a time, in ticks
    HalfArc(_, _),  \* ticks between its transit and the elevation asked for
    NoArc,          \* it is always above, or always below
    Lunation,       \* ticks of a mean lunation
    Phases,
    Elongation(_),  \* that of the Moon from the Sun, in ticks of its mean rate
    Tolerance,
    MaxIter,        \* novas_inv_max_iter
    Starts          \* bound: the times that searches begin at

ASSUME CrossingAssumption ==
    /\ TurnTicks \in Nat \ {0} /\ SolarDay \in Nat /\ TurnTicks < SolarDay
    /\ Lunation \in Nat \ {0}
    /\ Tolerance \in Nat /\ MaxIter \in Nat \ {0}
    /\ Distant \subseteq Sources
    /\ Starts \subseteq Int /\ 0 \in Starts

ASSUME MotionAssumption ==
    \A s \in Sources, t \in Starts : Ra(s, t) \in Int /\ HalfArc(s, t) \in Int \cup {NoArc}

VARIABLES
    crossing,       \* the search for a crossing
    lunar           \* that for a phase

searchVars == <<crossing, lunar>>

\* A search in its loop: the time of the frame, and how often it was made anew.
Search(goal, sign, from) ==
    [goal |-> goal, sign |-> sign, from |-> from, time |-> from, tries |-> 0, outcome |-> "searching"]

Ends(search, outcome) == [search EXCEPT !.outcome = outcome]
Found(search, t) == [search EXCEPT !.time = t, !.outcome = "found"]
\* The loop goes on, unless it did so for the last time.
GoesOn(search, t) ==
    [search EXCEPT !.time = t, !.tries = @ + 1,
                   !.outcome = IF search.tries + 1 = MaxIter THEN "cancelled" ELSE @]

\* novas_frame_lst()
Lst(t) == t % TurnTicks

\* The hour angle of the event: nothing for transits, else what calc_lha() gives.
Arc(s, sign, t) == IF sign = 0 THEN 0 ELSE HalfArc(s, t)

\* The sidereal time at which the source would cross, were it to stay where it is.
Due(s, sign, t) == Ra(s, t) + sign * Arc(s, sign, t)

\* From the frame's time until then.
Hours(s, sign, t) == Remainder(Due(s, sign, t) - Lst(t), TurnTicks)

NotBeforeFrame(search, t) == IF t < search.time THEN t + SolarDay ELSE t    \* fault: before the last estimate
NeverLater(search, t) == t                                                  \* fault: no lower bound

\* An estimate that is before the time asked for is put off to the next day.
Later(search, t) == IF t < search.from THEN t + SolarDay ELSE t

\* The hours by which the frame is moved; to those of the next day is added a turn.
MovedHours(search, t) ==
    LET hours == Hours(search.goal, search.sign, search.time)
    IN  IF t < search.from THEN hours + TurnTicks ELSE hours

IsNear(value) == value \in -Tolerance .. Tolerance

\* A time round of novas_cross_el_date().
EstimateCrossing ==
    LET t == crossing.time + Hours(crossing.goal, crossing.sign, crossing.time)
    IN  /\ crossing.outcome = "searching"
        /\ Arc(crossing.goal, crossing.sign, crossing.time) # NoArc
        /\ crossing' = IF crossing.goal \in Distant \/ IsNear(MovedHours(crossing, t))
                       THEN Found(crossing, Later(crossing, t))
                       ELSE GoesOn(crossing, Later(crossing, t))
        /\ UNCHANGED lunar

\* The source does not cross the elevation from where it is then.
NeverCrosses ==
    /\ crossing.outcome = "searching"
    /\ Arc(crossing.goal, crossing.sign, crossing.time) = NoArc
    /\ crossing' = Ends(crossing, "never")
    /\ UNCHANGED lunar

\* The source cannot be located, in the frame given or in one made since; and an
\* error code is returned for a date.
CrossingFails ==
    /\ crossing.outcome = "searching"
    /\ crossing' = Ends(crossing, "code")
    /\ UNCHANGED lunar

\* From the phase at a time to the one asked for.
Ahead(phase, t) == Remainder(phase - Elongation(t), Lunation)

NearestFirst(search, phi) == phi     \* fault: the nearest, not the next

\* The first step takes the phase forward, others either way.
FirstForward(search, phi) == IF search.tries = 0 /\ phi < 0 THEN phi + Lunation ELSE phi

EstimatePhase ==
    LET phi == Ahead(lunar.goal, lunar.time)
    IN  /\ lunar.outcome = "searching"
        /\ lunar' = IF IsNear(phi) THEN Found(lunar, lunar.time)
                    ELSE GoesOn(lunar, lunar.time + FirstForward(lunar, phi))
        /\ UNCHANGED crossing

\* The Moon or the Sun cannot be located.
PhaseFails ==
    /\ lunar.outcome = "searching"
    /\ lunar' = Ends(lunar, "failed")
    /\ UNCHANGED crossing

\* A program that has its answer asks for the one after it.
SeekAgain ==
    /\ crossing.outcome # "searching"
    /\ \E from \in Starts \cap {0, crossing.time + Tolerance + 1} :
          crossing' = Search(crossing.goal, crossing.sign, from)
    /\ UNCHANGED lunar

PhaseAgain ==
    /\ lunar.outcome # "searching"
    /\ \E from \in Starts \cap {0, lunar.time + Tolerance + 1} : lunar' = Search(lunar.goal, 0, from)
    /\ UNCHANGED crossing

SearchInit ==
    /\ \E s \in Sources, sign \in -1 .. 1, from \in Starts : crossing = Search(s, sign, from)
    /\ \E phase \in Phases, from \in Starts : lunar = Search(phase, 0, from)

CrossingNext == EstimateCrossing \/ NeverCrosses \/ CrossingFails \/ SeekAgain

PhaseNext == EstimatePhase \/ PhaseFails \/ PhaseAgain

CrossingSpec == SearchInit /\ [][CrossingNext]_searchVars

PhaseSpec == SearchInit /\ [][PhaseNext]_searchVars

-----------------------------------------------------------------------------
\* Motions for which the estimates lead somewhere, in whole ticks.  A source either never
\* crosses or always does, and then at most a quarter as fast as the sky turns; the
\* Moon goes at half its mean rate or more, and at most half again as fast.
AreSlow(times) ==
    \A s \in Sources, sign \in -1 .. 1 :
        \/ \A t \in times : Arc(s, sign, t) = NoArc
        \/ \A t, u \in times :
              /\ Arc(s, sign, t) # NoArc
              /\ t <= u => 4 * (Due(s, sign, u) - Due(s, sign, t)) \in -(u - t) - 3 .. (u - t) + 3

KeepsPace(times) ==
    \A t, u \in times : t <= u => 2 * (Elongation(u) - Elongation(t)) \in (u - t) - 1 .. 3 * (u - t) + 1

\* The estimates of a search, each at most half as far off as the one before and the
\* first within the range, are as good as the tolerance before there have been
\* novas_inv_max_iter of them.
Halving(off, range) ==
    /\ off \in [0 .. MaxIter - 1 -> Nat]
    /\ off[0] = range
    /\ \A n \in 1 .. MaxIter - 1 : off[n - 1] <= 2 * off[n]
    /\ off[MaxIter - 1] <= Tolerance

EnoughTries(range) == \E off \in [0 .. MaxIter - 1 -> Nat] : Halving(off, range)

-----------------------------------------------------------------------------
\* Between this tick and the next the source crosses.
CrossesAt(s, sign, t) ==
    /\ Arc(s, sign, t) # NoArc /\ Arc(s, sign, t + 1) # NoArc
    /\ Hours(s, sign, t) \in 0 .. 2
    /\ Hours(s, sign, t + 1) \in -2 .. -1

\* The time in which everything moves by the tolerance, even at half the speed.
Slack == 2 * Tolerance + 1

\* The source crosses about then, and has not since the time asked for.
IsNextCrossing(search, t) ==
    /\ \E u \in t - Slack .. t + Slack : CrossesAt(search.goal, search.sign, u)
    /\ \A u \in search.from .. t - Slack - 1 : ~CrossesAt(search.goal, search.sign, u)

\* What novas_cross_el_date() finds is the next time that the source rises, sets
\* or transits after the time of the frame, whichever way and as fast as it moves;
\* and it settles there before novas_inv_max_iter estimates have been made.
\* For a distant source that crosses on the next day a day was added for a turn.
CrossingIsNext ==
    /\ crossing.outcome # "cancelled"
    /\ crossing.outcome = "found" =>
          \/ IsNextCrossing(crossing, crossing.time)
          \/ /\ crossing.goal \in Distant
             /\ IsNextCrossing(crossing, crossing.time - (SolarDay - TurnTicks))

\* So it is on time for all of them.
CrossingIsOnTime == crossing.outcome = "found" => IsNextCrossing(crossing, crossing.time)

\* No search looks before the time it was given, at any of its estimates, so that
\* what novas_cross_el_date() finds is after that time, however the source moves.
NeverBefore == crossing.from <= crossing.time

\* Between this tick and the next the Moon has the phase.
IsPhaseAt(phase, t) == Ahead(phase, t) \in 0 .. 2 /\ Ahead(phase, t + 1) \in -2 .. -1

\* What novas_next_moon_phase() finds, and it finds one, is the next time of that
\* phase, although the Moon is ahead of its mean motion at times, and behind at others.
PhaseIsNext ==
    /\ lunar.outcome # "cancelled"
    /\ lunar.outcome = "found" =>
          /\ lunar.from <= lunar.time
          /\ \E t \in lunar.time - Slack .. lunar.time + Slack : IsPhaseAt(lunar.goal, t)
          /\ \A t \in lunar.from .. lunar.time - Slack - 1 : ~IsPhaseAt(lunar.goal, t)

=============================================================================
