--------------------------- MODULE ObservingFrames ---------------------------
(***************************************************************************)
(* Observing frames (frames.c): a frame is made for a date, an accuracy    *)
(* and an observer, may get another observer, also in place, and tells     *)
(* where bodies are seen from there.  What a frame that is not initialised *)
(* holds is left out: nothing reads it.                                    *)
(***************************************************************************)
EXTENDS Observers

CONSTANT Frames

VARIABLE frames

frameVars == <<planetCall, planetCallHp, ephemCall, allowLp, frames>>

NoFrame == [state |-> "uninitialised"]

FramesInit ==
    /\ ProvidersInit
    /\ frames = [f \in Frames |-> NoFrame]

\* Fault: a frame stays initialised if its observer cannot be located.
StaysInitialised(frame, obs, bad) ==
    LET pos == Plus(GeoPosvel(frame.t, obs, frame.acc, bad), frame.earth)
    IN  IF ~HasSun(frame.t, frame.acc, pos, bad) THEN NoFrame
        ELSE [frame EXCEPT !.obs = obs, !.pos = pos, !.planets = Bundle(frame.t, frame.acc, pos, bad)]

\* Fault: bodies that cannot be found from the new observer stay as they were.
KeepsPlanets(frame, obs, bad) ==
    LET geo == GeoPosvel(frame.t, obs, frame.acc, bad)
        pos == Plus(geo, frame.earth)
        new == Bundle(frame.t, frame.acc, pos, bad)
        old == {v \in frame.planets : \A w \in new : v.of # w.of}
    IN  IF geo = Failed \/ ~HasSun(frame.t, frame.acc, pos, bad) THEN NoFrame
        ELSE [frame EXCEPT !.obs = obs, !.pos = pos, !.planets = new \cup old]

\* What novas_change_observer() makes of a frame: set_obs_posvel(), then the bodies
\* that deflect light.
Observed(frame, obs, bad) ==
    LET geo == GeoPosvel(frame.t, obs, frame.acc, bad)
        pos == Plus(geo, frame.earth)
    IN  IF geo = Failed \/ ~HasSun(frame.t, frame.acc, pos, bad) THEN NoFrame
        ELSE [frame EXCEPT !.obs = obs, !.pos = pos, !.planets = Bundle(frame.t, frame.acc, pos, bad)]

\* novas_make_frame(): Sun and Earth, then the observer.
MakeFrame ==
    \E f \in Frames, t \in Times, accuracy \in Accuracies, obs \in Observer, bad \in Outages :
        LET sun   == Ephemeris(t, Sun, SSB, accuracy, bad)
            earth == Ephemeris(t, Earth, SSB, accuracy, bad)
            frame == [t |-> t, acc |-> accuracy, obs |-> obs, sun |-> sun, earth |-> earth,
                      pos |-> Garbage, planets |-> {}]
        IN  /\ frames' = [frames EXCEPT ![f] = IF sun = Failed \/ earth = Failed THEN NoFrame
                                               ELSE Observed(frame, obs, bad)]
            /\ UNCHANGED providers

\* novas_change_observer(): the output may be the frame itself.
ChangeObserver ==
    \E orig \in Frames, out \in Frames, obs \in Observer, bad \in Outages :
        /\ frames[orig] # NoFrame
        /\ frames' = [frames EXCEPT ![out] = Observed(frames[orig], obs, bad)]
        /\ UNCHANGED providers

FramesNext == MakeFrame \/ ChangeObserver \/ (Configure /\ UNCHANGED frames)

FramesSpec == FramesInit /\ [][FramesNext]_frameVars

\* novas_geom_posvel(): a body that deflects light is where it was found when the
\* frame got its observer, others are looked up.
GeomPosvel(frame, b, bad) ==
    LET kept == {v \in frame.planets : v.of = b}
    IN  IF kept # {} THEN CHOOSE v \in kept : TRUE
        ELSE LightTime2(frame.t, b, frame.pos, frame.acc, bad)

\* A frame that is initialised has Sun, Earth and observer of its date, whatever
\* failed on the way there and whatever frame it was derived from.
FramesWhole ==
    \A f \in Frames : frames[f] # NoFrame =>
        LET frame == frames[f] IN
        /\ frame.sun = Vector(Sun, SSB, frame.t)
        /\ frame.earth = Vector(Earth, SSB, frame.t)
        /\ frame.pos = Vector(frame.obs, SSB, frame.t)

\* In such a frame bodies are seen from its observer at its date, or are not known;
\* the Sun always is.
SeenFromObserver ==
    \A f \in Frames, b \in Planets \ {SSB}, bad \in Outages : frames[f] # NoFrame =>
        LET frame == frames[f]
            seen == Vector(b, frame.obs, frame.t)
        IN  /\ GeomPosvel(frame, b, bad) \in {Failed, seen}
            /\ b = Sun => GeomPosvel(frame, b, bad) = seen

=============================================================================
