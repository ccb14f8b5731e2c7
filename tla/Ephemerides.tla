----------------------------- MODULE Ephemerides -----------------------------
(***************************************************************************)
(* Where bodies of the solar system are: ephemeris() asks the functions    *)
(* that the program registered, which answer relative to an origin of      *)
(* their own choice, and moves the answer to the origin asked for.         *)
(*                                                                         *)
(* A vector is known by the body it leads to, the body it comes from and   *)
(* the date; a combination of vectors that do not meet is Garbage.  Which  *)
(* provider the vector came from, velocities and light time are left out,  *)
(* and so are error numbers: a call fails or succeeds.                     *)
(***************************************************************************)
EXTENDS Moments

CONSTANTS
    Sun, Earth, SSB,    \* bodies; SSB and Sun are also the two origins
    Planets,            \* bodies of type NOVAS_PLANET, among them these three
    EphemObjects,       \* bodies of type NOVAS_EPHEM_OBJECT
    Orbiting,           \* bodies of type NOVAS_ORBITAL_OBJECT
    Center,             \* the planet that each of these orbits
    Origins,            \* the origins that ephemeris providers answer for
    Outages             \* sets of bodies whose place the program's functions
                        \* cannot tell at some moment

ASSUME EphemerisAssumption ==
    /\ {Sun, Earth, SSB} \subseteq Planets
    /\ Sun # SSB /\ Earth # Sun /\ Earth # SSB
    /\ Planets \cap (EphemObjects \cup Orbiting) = {}
    /\ EphemObjects \cap Orbiting = {}
    /\ Center \in [Orbiting -> Planets]
    /\ Origins \subseteq {SSB, Sun}
    /\ Outages \subseteq SUBSET (Planets \cup EphemObjects \cup Orbiting)

VARIABLES
    planetCall,     \* planet_call: "earth_sun", "ephem" (solsys-ephem.c) or "user"
    planetCallHp,   \* planet_call_hp
    ephemCall,      \* the origin of readeph2_call's answers; none without one
    allowLp         \* allow_lp_for_hp

providers == <<planetCall, planetCallHp, ephemCall, allowLp>>

NoEphem == "none"
Calls == {"earth_sun", "ephem", "user"}
Bodies == Planets \cup EphemObjects \cup Orbiting

Vector(of, from, t) == [of |-> of, from |-> from, t |-> t]
Failed  == [no |-> "answer"]
Garbage == [no |-> "sense"]
Known(v) == v # Failed /\ v # Garbage

Minus(v, w) == IF Known(v) /\ Known(w) /\ v.from = w.from /\ v.t = w.t
               THEN Vector(v.of, w.of, v.t) ELSE Garbage
Plus(v, w)  == IF Known(v) /\ Known(w) /\ v.from = w.of /\ v.t = w.t
               THEN Vector(v.of, w.from, v.t) ELSE Garbage

-----------------------------------------------------------------------------
\* Functions of the program may fail, those of the library without need do not:
\* bad has the bodies whose place the program's functions cannot tell just then.

\* earth_sun_calc(): the barycenter is taken for the Sun.
EarthSun(t, b, origin) ==
    IF b = Earth THEN Vector(Earth, origin, t)
    ELSE IF b \in {Sun, SSB} THEN Vector(Sun, origin, t)
    ELSE Failed

\* Fault: the answer is moved to the origin that it has.
ViaWrongOrigin(t, b, origin, bad) ==
    IF ephemCall = NoEphem \/ b \in bad THEN Failed
    ELSE IF ephemCall = origin THEN Vector(b, origin, t)
    ELSE IF ephemCall \in bad THEN Failed
    ELSE Minus(Vector(b, ephemCall, t), Vector(ephemCall, ephemCall, t))

\* planet_ephem_provider_hp(): what the ephemeris provider says of the body, less
\* what it says of the origin that is asked for.
ViaEphem(t, b, origin, bad) ==
    LET ref == IF ephemCall = SSB THEN Sun ELSE SSB
    IN  IF ephemCall = NoEphem \/ b \in bad THEN Failed
        ELSE IF ephemCall = origin THEN Vector(b, origin, t)
        ELSE IF ref \in bad THEN Failed
        ELSE Minus(Vector(b, ephemCall, t), Vector(ref, ephemCall, t))

\* A call of planet_call, or of planet_call_hp in full accuracy.
PlanetCall(t, b, origin, accuracy, bad) ==
    LET call == IF accuracy = Full THEN planetCallHp ELSE planetCall
    IN  IF call = "earth_sun"
        THEN IF accuracy = Full /\ ~allowLp THEN Failed ELSE EarthSun(t, b, origin)
        ELSE IF call = "ephem" THEN ViaEphem(t, b, origin, bad)
        ELSE IF b \in bad THEN Failed ELSE Vector(b, origin, t)

\* An object of the ephemeris provider.  For another origin than the provider's
\* planet_call, in either accuracy, is asked for the difference, but what is
\* added is not its answer: it is what the caller's output vectors held before.
EphemObject(t, b, origin, bad) ==
    LET ref == IF origin = SSB THEN SSB ELSE Sun
        between == IF planetCall = "earth_sun" THEN EarthSun(t, ref, ephemCall)
                   ELSE IF planetCall = "ephem" THEN ViaEphem(t, ref, ephemCall, bad)
                   ELSE IF ref \in bad THEN Failed ELSE Vector(ref, ephemCall, t)
    IN  IF ephemCall = NoEphem \/ b \in bad THEN Failed
        ELSE IF ephemCall = origin THEN Vector(b, origin, t)
        ELSE IF between = Failed THEN Failed ELSE Garbage

\* ephemeris().
Ephemeris(t, b, origin, accuracy, bad) ==
    IF b \in Planets THEN PlanetCall(t, b, origin, accuracy, bad)
    ELSE IF b \in EphemObjects THEN EphemObject(t, b, origin, bad)
    ELSE LET center == PlanetCall(t, Center[b], origin, accuracy, bad)
         IN  IF center = Failed THEN Failed ELSE Plus(Vector(b, Center[b], t), center)

-----------------------------------------------------------------------------
ProvidersInit ==
    /\ planetCall \in Calls
    /\ planetCallHp \in Calls
    /\ ephemCall \in Origins \cup {NoEphem}
    /\ allowLp \in BOOLEAN

SetPlanetProvider   == planetCall' \in Calls /\ UNCHANGED <<planetCallHp, ephemCall, allowLp>>
SetPlanetProviderHp == planetCallHp' \in Calls /\ UNCHANGED <<planetCall, ephemCall, allowLp>>
EnableEarthSunHp    == allowLp' \in BOOLEAN /\ UNCHANGED <<planetCall, planetCallHp, ephemCall>>

\* set_ephem_provider(), which may be given none.
SetEphemProvider ==
    /\ ephemCall' \in Origins \cup {NoEphem}
    /\ UNCHANGED <<planetCall, planetCallHp, allowLp>>

Configure == SetPlanetProvider \/ SetPlanetProviderHp \/ SetEphemProvider \/ EnableEarthSunHp

-----------------------------------------------------------------------------
\* Whatever is registered, and whatever it cannot tell, an answer of ephemeris()
\* is of the body asked for, from the origin asked for, at the date asked for.
\* Two cases are left out: the barycenter as a body, and objects of a provider
\* with another origin.
AnswerAsAsked ==
    \A t \in Times, b \in Bodies \ {SSB}, origin \in {SSB, Sun}, accuracy \in Accuracies, bad \in Outages :
        /\ b \in EphemObjects => ephemCall = origin
        /\ b \in Orbiting => Center[b] # SSB
        => Ephemeris(t, b, origin, accuracy, bad) \in {Failed, Vector(b, origin, t)}

\* The same without the exceptions, as the description of ephemeris() has it.
EveryAnswerAsAsked ==
    \A t \in Times, b \in Bodies, origin \in {SSB, Sun}, accuracy \in Accuracies, bad \in Outages :
        Ephemeris(t, b, origin, accuracy, bad) \in {Failed, Vector(b, origin, t)}

=============================================================================
