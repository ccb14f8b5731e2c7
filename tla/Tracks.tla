-------------------------------- MODULE Tracks --------------------------------
(***************************************************************************)
(* Tracks: where a source is, and its first and second derivatives from    *)
(* three positions a time step apart (novas_equ_track() and                *)
(* novas_hor_track() of frames.c, Source::equatorial_track() of src/cpp),  *)
(* and positions projected from them (novas_track_pos(), the class Track). *)
(*                                                                         *)
(* A source moves along a path, quadratic in longitude and straight in     *)
(* latitude and distance, which a track should follow exactly.  Rates and  *)
(* accelerations are kept before they are divided by the step.  Left out:  *)
(* redshifts, which are treated as the distances of an equatorial track.   *)
(***************************************************************************)
EXTENDS Circles

CONSTANTS
    FullTurn,       \* units of angle in a turn
    TrackDelta,     \* NOVAS_TRACK_DELTA
    Steps,          \* the time steps asked for
    Path,           \* bound: how sources move
    FrameTimes,     \* bound: the times of frames
    TrackTimes      \* bound: the times looked at

ASSUME TrackAssumption ==
    /\ FullTurn \in Nat /\ FullTurn > 0 /\ FullTurn % 4 = 0
    /\ Steps \subseteq Nat \ {0} /\ TrackDelta \in Nat \ {0}
    /\ Path \subseteq [lon : Int, speed : Int, gain : Int, lat : Int, climb : Int, dist : Int, radial : Int]
    /\ FrameTimes \subseteq Int /\ TrackTimes \subseteq Int

\* How far along in longitude a source is.
LonOf(p, t) == p.lon + p.speed * t + p.gain * t * t

\* A source moves by no more than a quarter of a turn in two steps, which is what
\* novas_unwrap_angles() can tell from the way back.
ASSUME SlowAssumption ==
    \A p \in Path, t \in FrameTimes, dt \in Steps \cup {TrackDelta} :
        \A a, b \in {t - dt, t, t + dt} : 4 * (LonOf(p, a) - LonOf(p, b)) <= FullTurn

VARIABLES
    path,           \* of the source
    track,          \* the program's novas_track
    tracked         \* the last call that filled it succeeded

trackVars == <<path, track, tracked>>

\* Where novas_sky_pos() finds the source.
SkyPos(t) ==
    [lon  |-> LonOf(path, t) % FullTurn,
     lat  |-> path.lat + path.climb * t,
     dist |-> path.dist + path.radial * t]

Zero == [lon |-> 0, lat |-> 0, dist |-> 0]

NoUnwrap(a, among) == a     \* fault: differences across the origin

\* novas_unwrap_angles(): those past the origin, where another is about to pass it.
Unwrap(a, among) ==
    IF a < FullTurn \div 4 /\ (\E b \in among : b >= FullTurn - FullTurn \div 4) THEN a + FullTurn ELSE a

\* Three positions, where the longitudes of those past the origin go on.
Unrolled(sky) == [i \in 1 .. 3 |-> [sky[i] EXCEPT !.lon = Unwrap(@, {sky[j].lon : j \in 1 .. 3})]]

\* What they give with weights for each of them.
Differences(sky, w) ==
    [x \in {"lon", "lat", "dist"} |-> w[1] * sky[1][x] + w[2] * sky[2][x] + w[3] * sky[3][x]]

\* Twice the step's part of the rate, and of the acceleration by the square of it.
FirstDifference(sky)  == Differences(Unrolled(sky), <<-1, 0, 1>>)
SecondDifference(sky) == Differences(Unrolled(sky), <<1, -2, 1>>)

\* A track of a frame at a time, if so many positions are found: the first sets
\* the position, and only after the third are the derivatives set.
FilledTrack(old, kind, t, dt, found) ==
    LET sky   == <<SkyPos(t - dt), SkyPos(t), SkyPos(t + dt)>>
        rate  == FirstDifference(sky)
        accel == SecondDifference(sky)
    IN  [kind  |-> kind, time |-> t, step |-> dt,
         pos   |-> IF found > 0 THEN SkyPos(t) ELSE old.pos,
         rate  |-> IF found < 3 THEN old.rate
                   ELSE IF kind = "hor" THEN [rate EXCEPT !.dist = -@] ELSE rate,
         accel |-> IF found = 3 THEN accel ELSE old.accel]

\* novas_track_pos(), and ScalarEvolution::value().
Projected(x0, rate, accel, dt) ==
    x0 + (rate * track.step * dt + accel * dt * dt) \div (2 * track.step * track.step)

TrackPos(t) ==
    LET dt  == t - track.time
        lon == Projected(track.pos.lon, track.rate.lon, track.accel.lon, dt)
        lat == Remainder(Projected(track.pos.lat, track.rate.lat, track.accel.lat, dt), FullTurn)
        beyond == Magnitude(lat) > FullTurn \div 4
    IN  [lon  |-> Remainder(IF beyond THEN -lon ELSE lon, FullTurn),
         lat  |-> IF ~beyond THEN lat
                  ELSE IF lat > 0 THEN FullTurn \div 2 - lat ELSE -(FullTurn \div 2) - lat,
         dist |-> Projected(track.pos.dist, track.rate.dist, track.accel.dist, dt)]

EquTrack ==
    \E t \in FrameTimes, dt \in Steps, found \in {0, 1, 3} :
        /\ track' = FilledTrack(track, "equ", t, dt, found)
        /\ tracked' = (found = 3)
        /\ UNCHANGED path

\* novas_hor_track() has the distances before and after the other way round.
HorTrack ==
    \E t \in FrameTimes, found \in {0, 1, 3} :
        /\ track' = FilledTrack(track, "hor", t, TrackDelta, found)
        /\ tracked' = (found = 3)
        /\ UNCHANGED path

NoTrack == [kind |-> "none", time |-> 0, step |-> 1, pos |-> Zero, rate |-> Zero, accel |-> Zero]

\* Source::equatorial_track() has a track of zeros filled and looks at no error;
\* the step is also the range that the object is good for.
CppTrack ==
    \E t \in FrameTimes, dt \in Steps, found \in {0, 1, 3} :
        /\ track' = FilledTrack(NoTrack, "cpp", t, dt, found)
        /\ tracked' = (found = 3)
        /\ UNCHANGED path

TrackInit == path \in Path /\ track = NoTrack /\ tracked = FALSE

TrackNext == EquTrack \/ HorTrack \/ CppTrack

TrackSpec == TrackInit /\ [][TrackNext]_trackVars

-----------------------------------------------------------------------------
\* The times a track answers for.
Answers == {t \in TrackTimes : track.kind = "cpp" => Magnitude(t - track.time) <= track.step}

IsUpright(t) == Magnitude(SkyPos(t).lat) <= FullTurn \div 4

Follows(t) ==
    LET pos == TrackPos(t)
    IN  /\ (pos.lon - SkyPos(t).lon) % FullTurn = 0
        /\ pos.lat = SkyPos(t).lat

\* A track follows a source that moves in this way, wherever the source passes the
\* origin of longitudes, also where the track was used for another time before, or
\* the call before the one that filled it has failed.
TrackFollows ==
    tracked =>
        \A t \in Answers :
            /\ IsUpright(t) => Follows(t)
            /\ track.kind # "hor" => TrackPos(t).dist = SkyPos(t).dist

\* Beyond a pole it does, and in distance.
EveryTrackFollows ==
    tracked =>
        \A t \in Answers :
            /\ TrackPos(t).dist = SkyPos(t).dist
            /\ IsUpright(t) => Follows(t)
            /\ SkyPos(t).lat \in FullTurn \div 4 + 1 .. FullTurn \div 2 =>
                  /\ (TrackPos(t).lon - SkyPos(t).lon) % FullTurn = FullTurn \div 2
                  /\ TrackPos(t).lat = FullTurn \div 2 - SkyPos(t).lat

\* An object of the class EquatorialTrack follows its source.
CppTrackFollows == track.kind = "cpp" => \A t \in Answers : IsUpright(t) => Follows(t)

=============================================================================
