------------------------------ MODULE Observers ------------------------------
(***************************************************************************)
(* Where observers are, and where they see the bodies of the solar system: *)
(* the functions of observer.c that place.c and frames.c rest on.          *)
(***************************************************************************)
EXTENDS Ephemerides

CONSTANTS
    NearEarth,      \* observers at the geocenter, on Earth or around it
    Probes,         \* observers known by where they are in the solar system
    Grav            \* grav_bodies_full_accuracy, grav_bodies_reduced_accuracy

ASSUME ObserverAssumption ==
    /\ Grav \in [Accuracies -> SUBSET (Planets \ {SSB})]
    /\ \A accuracy \in Accuracies : Sun \in Grav[accuracy]

Observer == NearEarth \cup Probes

\* geo_posvel(), and novas_site_gcrs_posvel() for sites: from the geocenter.  For a
\* probe that takes the place of the Earth.
GeoPosvel(t, obs, accuracy, bad) ==
    LET earth == Ephemeris(t, Earth, SSB, accuracy, bad)
    IN  IF obs \in NearEarth THEN Vector(obs, Earth, t)
        ELSE IF earth = Failed THEN Failed
        ELSE Minus(Vector(obs, SSB, t), earth)

\* obs_posvel(), with the place of the Earth given.
ObsPosvel(t, obs, earth) ==
    IF obs \in Probes THEN Vector(obs, SSB, t) ELSE Plus(Vector(obs, Earth, t), earth)

\* light_time2(): it also fails when the light time does not settle; bad is meant
\* to have such bodies too.
LightTime2(t, b, from, accuracy, bad) ==
    LET v == Ephemeris(t, b, SSB, accuracy, bad)
    IN  IF v = Failed \/ b \in bad THEN Failed ELSE Minus(v, from)

\* obs_planets(): the bodies that deflect light, as far as they can be had.  The
\* debug mode that makes every failure an error is left out.
Bundle(t, accuracy, from, bad) ==
    {LightTime2(t, b, from, accuracy, bad) : b \in Grav[accuracy]} \ {Failed}

HasSun(t, accuracy, from, bad) == LightTime2(t, Sun, from, accuracy, bad) # Failed

=============================================================================
