------------------------------ MODULE MCSession ------------------------------
(***************************************************************************)
(* One thread of a program that uses the library, for TLC.  The modules    *)
(* that it extends share nothing but constants and, two of them, the       *)
(* registered providers, so that each behaviour is about one of them; part *)
(* says which.  What the others hold stays as it is initially.             *)
(***************************************************************************)
EXTENDS Conversions, Cio, TimeSpecs, Places, ObservingFrames, Sexagesimal, Crossings, Tracks,
        Builders

VARIABLE part

placeOnly == <<memo, spoiled, placed>>
otherVars == <<textVars, searchVars, trackVars, builderVars>>

MCSource == "star"
MCPoint  == [lon |-> 0, speed |-> 0, gain |-> 0, lat |-> 0, climb |-> 0, dist |-> 0, radial |-> 0]

SessionInit ==
    /\ part \in {"conversions", "times", "cio", "places", "frames", "texts",
                 "crossings", "phases", "tracks", "entries", "orbits"}
    /\ part # "texts" => meant = 0
    /\ part # "crossings" => crossing = Search(MCSource, 0, 0)
    /\ part # "phases" => lunar = Search(0, 0, 0)
    /\ part # "tracks" => path = MCPoint
    /\ part \notin {"places", "frames"} =>
          planetCall = "earth_sun" /\ planetCallHp = "earth_sun" /\ ephemCall = NoEphem /\ allowLp = FALSE
    /\ ConvInit /\ TimeInit /\ CioInit /\ PlaceInit /\ FramesInit /\ TextInit /\ SearchInit /\ TrackInit
    /\ BuilderInit

SessionNext ==
    /\ UNCHANGED part
    /\ \/ /\ part = "conversions" /\ ConvNext
          /\ UNCHANGED <<timeVars, cioVars, placeVars, frames, otherVars>>
       \/ /\ part = "times" /\ TimeNext
          /\ UNCHANGED <<convVars, cioVars, placeVars, frames, otherVars>>
       \/ /\ part = "cio" /\ CioNext
          /\ UNCHANGED <<convVars, timeVars, placeVars, frames, otherVars>>
       \/ /\ part = "places" /\ PlaceNext
          /\ UNCHANGED <<convVars, timeVars, cioVars, frames, otherVars>>
       \/ /\ part = "frames" /\ FramesNext
          /\ UNCHANGED <<convVars, timeVars, cioVars, placeOnly, otherVars>>
       \/ /\ part = "texts" /\ TextNext
          /\ UNCHANGED <<convVars, timeVars, cioVars, placeVars, frames, searchVars, trackVars, builderVars>>
       \/ /\ part = "crossings" /\ CrossingNext
          /\ UNCHANGED <<convVars, timeVars, cioVars, placeVars, frames, textVars, trackVars, builderVars>>
       \/ /\ part = "phases" /\ PhaseNext
          /\ UNCHANGED <<convVars, timeVars, cioVars, placeVars, frames, textVars, trackVars, builderVars>>
       \/ /\ part = "tracks" /\ TrackNext
          /\ UNCHANGED <<convVars, timeVars, cioVars, placeVars, frames, textVars, searchVars, builderVars>>
       \/ /\ part = "entries" /\ EntryNext
          /\ UNCHANGED <<convVars, timeVars, cioVars, placeVars, frames, textVars, searchVars, trackVars>>
       \/ /\ part = "orbits" /\ OrbitNext
          /\ UNCHANGED <<convVars, timeVars, cioVars, placeVars, frames, textVars, searchVars, trackVars>>

sessionVars ==
    <<part, convVars, timeVars, cioVars, placeVars, frames, textVars, searchVars, trackVars, builderVars>>

SessionSpec == SessionInit /\ [][SessionNext]_sessionVars

MCDates  == {-40, 0, 30}
MCCenter == [b \in {"asteroid"} |-> Sun]
MCGrav   == [accuracy \in Accuracies |-> IF accuracy = Full THEN {Sun, Earth, "Mars"} ELSE {Sun, Earth}]
\* A day of six seconds, of two milliseconds and nanoseconds each.
MCDays      == {0}
MCLastDays  == -1 .. 1
MCFractions == {-30, 13, 24}
MCUnixTimes == {-2, 5, 11}
MCShifts    == {-25, 10}
MCDut1s     == {-1}
MCFrames == Permutations(Frames)
\* A circle of four degrees of three minutes of three seconds, and a bit more.
MCWritten == -150 .. 150
\* A turn of 48 ticks, and a day of 53.
MCRa(s, t) ==
    CASE s = "star" -> 7
      [] s = "low"  -> 20
      [] s = "Sun"  -> 3 + t \div 25
      [] s = "Moon" -> 40 + t \div 13
      [] s = "Mars" -> 11 - t \div 60
MCNoArc == -1000
ToAndFro(k, most) == LET n == k % (2 * most) IN IF n > most THEN 2 * most - n ELSE n
MCHalfArc(s, t) ==
    CASE s = "star" -> 10
      [] s = "low"  -> MCNoArc
      [] s = "Sun"  -> 13
      [] s = "Moon" -> 12 + ToAndFro((t + 33) \div 39, 2)
      [] s = "Mars" -> 15 - (((t + 35) \div 70) % 2)
MCElongation(t) == t + ToAndFro(t \div 5, 4)
\* What the theorems on searches assume holds here.
MCOffTurn == <<48, 24, 12, 6, 3, 2, 1, 1>>
MCOffMonth == <<100, 50, 25, 13, 7, 4, 2, 1>>
ASSUME MCMotions ==
    /\ AreSlow(-60 .. 400) /\ KeepsPace(-60 .. 400)
    /\ Halving([n \in 0 .. MaxIter - 1 |-> MCOffTurn[n + 1]], TurnTicks)
    /\ Halving([n \in 0 .. MaxIter - 1 |-> MCOffMonth[n + 1]], Lunation)
MCStarts == 0 .. 120
MCPath ==
    [lon : 0 .. 47, speed : {-2, 0, 1}, gain : {-1, 0}, lat : {0, 10}, climb : {1}, dist : {7}, radial : {2}]
        \cup {MCPoint}
MCFrameTimes == -1 .. 0
MCTrackTimes == -3 .. 3
MCOutages == {{}, {Sun, "comet"}, {Earth, SSB, "Mars"}}

=============================================================================
