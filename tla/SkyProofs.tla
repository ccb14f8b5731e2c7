------------------------------ MODULE SkyProofs ------------------------------
(***************************************************************************)
(* What ephemerides, remembered places and observing frames promise holds  *)
(* for any bodies, dates, observers and outages, and any number of frames; *)
(* what searches, tracks and built objects do, for any motion and calls;   *)
(* and what angles and times read as, for any values and number of digits. *)
(***************************************************************************)
EXTENDS Cio, Places, ObservingFrames, Sexagesimal, Crossings, Tracks, Builders, WellFoundedInduction, TLAPS

-----------------------------------------------------------------------------
\* Vectors.

LEMMA VectorKnown ==
    ASSUME NEW of, NEW from, NEW t
    PROVE  /\ Vector(of, from, t) # Failed /\ Vector(of, from, t) # Garbage
           /\ Known(Vector(of, from, t))
           /\ Vector(of, from, t).of = of /\ Vector(of, from, t).from = from /\ Vector(of, from, t).t = t
  BY DEF Vector, Failed, Garbage, Known

LEMMA MinusMeets ==
    ASSUME NEW a, NEW b, NEW c, NEW t
    PROVE  Minus(Vector(a, c, t), Vector(b, c, t)) = Vector(a, b, t)
  BY VectorKnown DEF Minus

LEMMA PlusMeets ==
    ASSUME NEW a, NEW b, NEW c, NEW t
    PROVE  Plus(Vector(a, b, t), Vector(b, c, t)) = Vector(a, c, t)
  BY VectorKnown DEF Plus

-----------------------------------------------------------------------------
\* Providers.

ProvidersOK ==
    /\ planetCall \in Calls
    /\ planetCallHp \in Calls
    /\ ephemCall \in Origins \cup {NoEphem}

LEMMA ProvidersInitOK == ProvidersInit => ProvidersOK
  BY DEF ProvidersInit, ProvidersOK

LEMMA ConfigureOK == ProvidersOK /\ Configure => ProvidersOK'
  BY DEF ProvidersOK, Configure, SetPlanetProvider, SetPlanetProviderHp, SetEphemProvider, EnableEarthSunHp

LEMMA UnchangedOK == ProvidersOK /\ UNCHANGED providers => ProvidersOK'
  BY DEF ProvidersOK, providers

LEMMA ViaEphemRight ==
    ASSUME ProvidersOK, NEW t, NEW b, NEW origin \in {SSB, Sun}, NEW bad
    PROVE  ViaEphem(t, b, origin, bad) \in {Failed, Vector(b, origin, t)}
  <1> DEFINE ref == IF ephemCall = SSB THEN Sun ELSE SSB
  <1>1. CASE ephemCall = NoEphem \/ b \in bad \/ ephemCall = origin \/ ref \in bad
    BY <1>1 DEF ViaEphem
  <1>2. CASE ~(ephemCall = NoEphem \/ b \in bad \/ ephemCall = origin \/ ref \in bad)
    <2>1. ephemCall \in {SSB, Sun}
      BY <1>2, EphemerisAssumption DEF ProvidersOK
    <2>2. ref = origin
      BY <1>2, <2>1
    <2>3. ViaEphem(t, b, origin, bad) = Minus(Vector(b, ephemCall, t), Vector(ref, ephemCall, t))
      BY <1>2 DEF ViaEphem
    <2> QED
      BY <2>2, <2>3, MinusMeets
  <1> QED
    BY <1>1, <1>2

LEMMA EarthSunRight ==
    ASSUME NEW t, NEW b, b # SSB, NEW origin
    PROVE  EarthSun(t, b, origin) \in {Failed, Vector(b, origin, t)}
  BY EphemerisAssumption DEF EarthSun

LEMMA PlanetCallRight ==
    ASSUME ProvidersOK, NEW t, NEW b, b # SSB, NEW origin \in {SSB, Sun}, NEW accuracy, NEW bad
    PROVE  PlanetCall(t, b, origin, accuracy, bad) \in {Failed, Vector(b, origin, t)}
  <1> DEFINE call == IF accuracy = Full THEN planetCallHp ELSE planetCall
  <1>1. CASE call = "earth_sun"
    BY <1>1, EarthSunRight DEF PlanetCall
  <1>2. CASE call = "ephem"
    BY <1>2, ViaEphemRight DEF PlanetCall
  <1>3. CASE call # "earth_sun" /\ call # "ephem"
    BY <1>3 DEF PlanetCall
  <1> QED
    BY <1>1, <1>2, <1>3

LEMMA EphemerisRight ==
    ASSUME ProvidersOK, NEW t, NEW b \in Bodies \ {SSB}, NEW origin \in {SSB, Sun}, NEW accuracy, NEW bad,
           b \in EphemObjects => ephemCall = origin,
           b \in Orbiting => Center[b] # SSB
    PROVE  Ephemeris(t, b, origin, accuracy, bad) \in {Failed, Vector(b, origin, t)}
  <1>1. CASE b \in Planets
    BY <1>1, PlanetCallRight DEF Ephemeris
  <1>2. CASE b \in EphemObjects
    <2>1. b \notin Planets
      BY <1>2, EphemerisAssumption
    <2>2. EphemObject(t, b, origin, bad) \in {Failed, Vector(b, origin, t)}
      BY <1>2 DEF EphemObject
    <2> QED
      BY <1>2, <2>1, <2>2 DEF Ephemeris
  <1>3. CASE b \in Orbiting
    <2> DEFINE center == PlanetCall(t, Center[b], origin, accuracy, bad)
    <2>1. b \notin Planets /\ b \notin EphemObjects
      BY <1>3, EphemerisAssumption
    <2>2. center \in {Failed, Vector(Center[b], origin, t)}
      BY <1>3, PlanetCallRight
    <2>3. Ephemeris(t, b, origin, accuracy, bad)
            = IF center = Failed THEN Failed ELSE Plus(Vector(b, Center[b], t), center)
      BY <2>1 DEF Ephemeris
    <2> HIDE DEF center
    <2> QED
      BY <2>2, <2>3, PlusMeets
  <1> QED
    BY <1>1, <1>2, <1>3 DEF Bodies

LEMMA AnswersRight == ProvidersOK => AnswerAsAsked
  BY EphemerisRight DEF AnswerAsAsked

-----------------------------------------------------------------------------
\* cio_basis(), for programs that pass no other kind than the two valid ones.

CioInv ==
    /\ located \in [for : Keys \cup {Unset}, ra : Keys \cup {Unset}]
    /\ located.ra = located.for
    /\ basis \in [for : Keys \cup {Unset}, z : Keys \cup {Unset}, x : Keys \cup {Unset}]
    /\ basis.z = basis.for /\ basis.x = basis.for
    /\ CioOfItsDate

LEMMA HitIsSame ==
    ASSUME NEW kept, kept.for \in Keys \cup {Unset}, NEW m \in Keys, IsFor(kept, m)
    PROVE  kept.for = m
  BY DEF IsFor, Keys, Unset

LEMMA BasisInv ==
    ASSUME LocTypes \subseteq ValidLocTypes, CioInv, NEW m \in Keys, NEW type \in LocTypes, CioBasis(m, m, type)
    PROVE  basis' \in [for : Keys \cup {Unset}, z : Keys \cup {Unset}, x : Keys \cup {Unset}]
           /\ basis'.z = basis'.for /\ basis'.x = basis'.for /\ CioOfItsDate'
  <1>1. type \in ValidLocTypes
    OBVIOUS
  <1> DEFINE new == [for |-> m, z |-> m, x |-> m]
  <1>2. asked' = m /\ given' = basis' /\ basis' = IF IsFor(basis, m) THEN basis ELSE new
    BY <1>1 DEF CioBasis
  <1>3. basis.for \in Keys \cup {Unset}
    BY DEF CioInv
  <1>4. CASE IsFor(basis, m)
    <2>1. basis.for = m
      BY <1>3, <1>4, HitIsSame
    <2> QED
      BY <1>2, <1>4, <2>1 DEF CioInv, CioOfItsDate
  <1>5. CASE ~IsFor(basis, m)
    BY <1>2, <1>5 DEF CioOfItsDate
  <1> QED
    BY <1>4, <1>5

LEMMA LocatedRight ==
    ASSUME CioInv, NEW m \in Keys
    PROVE  /\ Located(m).ra = m
           /\ Located(m) \in [for : Keys \cup {Unset}, ra : Keys \cup {Unset}]
           /\ Located(m).for = m
  <1>1. located.for \in Keys \cup {Unset}
    BY DEF CioInv
  <1>2. CASE IsFor(located, m)
    <2>1. located.for = m
      BY <1>1, <1>2, HitIsSame
    <2> QED
      BY <1>2, <2>1 DEF Located, CioInv
  <1>3. CASE ~IsFor(located, m)
    BY <1>3 DEF Located
  <1> QED
    BY <1>2, <1>3

\* The axes of the CIO basis are those of the moment it was asked for, although it
\* is remembered by the moment alone.
THEOREM BasisOfItsDate == ASSUME LocTypes \subseteq ValidLocTypes PROVE CioSpec => []CioOfItsDate
  <1>1. CioInit => CioInv
    BY DEF CioInit, CioInv, CioOfItsDate
  <1>2. CioInv /\ [CioNext]_cioVars => CioInv'
    <2> SUFFICES ASSUME CioInv, [CioNext]_cioVars PROVE CioInv'
      OBVIOUS
    <2>1. CASE UseLocation
      <3> PICK m \in Keys, type \in LocTypes : located' = Located(m) /\ CioBasis(m, Located(m).ra, type)
        BY <2>1 DEF UseLocation
      <3>1. CioBasis(m, m, type)
        BY LocatedRight
      <3> QED
        BY <3>1, LocatedRight, BasisInv DEF CioInv
    <2>2. CASE UseRa
      <3> PICK m \in Keys, type \in LocTypes : CioBasis(m, m, type) /\ UNCHANGED located
        BY <2>2 DEF UseRa
      <3> QED
        BY BasisInv DEF CioInv
    <2>3. CASE UNCHANGED cioVars
      BY <2>3 DEF cioVars, CioInv, CioOfItsDate
    <2> QED
      BY <2>1, <2>2, <2>3 DEF CioNext
  <1>3. CioInv => CioOfItsDate
    BY DEF CioInv
  <1> QED
    BY <1>1, <1>2, <1>3, PTL DEF CioSpec

-----------------------------------------------------------------------------
\* Observers.

LEMMA EarthAndSun ==
    ASSUME ProvidersOK, NEW t, NEW accuracy, NEW bad
    PROVE  /\ Ephemeris(t, Earth, SSB, accuracy, bad) \in {Failed, Vector(Earth, SSB, t)}
           /\ Ephemeris(t, Sun, SSB, accuracy, bad) \in {Failed, Vector(Sun, SSB, t)}
  BY EphemerisRight, EphemerisAssumption DEF Bodies

LEMMA GeoPosvelRight ==
    ASSUME ProvidersOK, NEW t, NEW obs, NEW accuracy, NEW bad
    PROVE  GeoPosvel(t, obs, accuracy, bad) \in {Failed, Vector(obs, Earth, t)}
  <1> DEFINE earth == Ephemeris(t, Earth, SSB, accuracy, bad)
  <1>1. earth \in {Failed, Vector(Earth, SSB, t)}
    BY EarthAndSun
  <1>2. GeoPosvel(t, obs, accuracy, bad)
          = IF obs \in NearEarth THEN Vector(obs, Earth, t)
            ELSE IF earth = Failed THEN Failed ELSE Minus(Vector(obs, SSB, t), earth)
    BY DEF GeoPosvel
  <1> HIDE DEF earth
  <1> QED
    BY <1>1, <1>2, MinusMeets

LEMMA LightTimeRight ==
    ASSUME ProvidersOK, NEW t, NEW b \in Bodies \ {SSB}, b \notin EphemObjects,
           b \in Orbiting => Center[b] # SSB, NEW obs, NEW accuracy, NEW bad
    PROVE  LightTime2(t, b, Vector(obs, SSB, t), accuracy, bad) \in {Failed, Vector(b, obs, t)}
  <1> DEFINE v == Ephemeris(t, b, SSB, accuracy, bad)
  <1>1. v \in {Failed, Vector(b, SSB, t)}
    BY EphemerisRight
  <1>2. LightTime2(t, b, Vector(obs, SSB, t), accuracy, bad)
          = IF v = Failed \/ b \in bad THEN Failed ELSE Minus(v, Vector(obs, SSB, t))
    BY DEF LightTime2
  <1> HIDE DEF v
  <1> QED
    BY <1>1, <1>2, MinusMeets

-----------------------------------------------------------------------------
\* place().

NoBarycenter == \A b \in Orbiting : Center[b] # SSB

PlaceInv ==
    /\ ProvidersOK
    /\ memo = [t |-> memo.t, acc |-> memo.acc, earth |-> memo.earth, sun |-> memo.sun]
    /\ memo.t \in Times /\ ~spoiled => memo.earth = Vector(Earth, SSB, memo.t) /\ memo.sun = Vector(Sun, SSB, memo.t)
    /\ PlaceOfItsDate

\* A call that fails while it fills the memo.
LEMMA PlaceFails ==
    ASSUME PlaceInv, NEW t, NEW accuracy, NEW bad,
           PlaceNoEarth(t, accuracy, bad) \/ PlaceNoSun(t, accuracy, bad)
    PROVE  /\ memo' = [t |-> memo'.t, acc |-> memo'.acc, earth |-> memo'.earth, sun |-> memo'.sun]
           /\ spoiled' = TRUE
           /\ PlaceOfItsDate'
  <1>1. spoiled' = TRUE
    BY DEF PlaceNoEarth, PlaceNoSun
  <1>2. \E earth, sun : memo' = [memo EXCEPT !.earth = earth, !.sun = sun]
    <2>1. CASE PlaceNoEarth(t, accuracy, bad)
      <3>1. PICK v : memo' = [memo EXCEPT !.earth = v]
        BY <2>1 DEF PlaceNoEarth
      <3>2. memo' = [memo EXCEPT !.earth = v, !.sun = memo.sun]
        BY <3>1 DEF PlaceInv
      <3> QED
        BY <3>2
    <2>2. CASE PlaceNoSun(t, accuracy, bad)
      BY <2>2 DEF PlaceNoSun
    <2> QED
      BY <2>1, <2>2
  <1> QED
    BY <1>1, <1>2 DEF PlaceInv, PlaceOfItsDate

\* What is computed from Earth and Sun of the date.
LEMMA PlaceFromRight ==
    ASSUME NoBarycenter, ProvidersOK, NEW m, NEW t,
           m.earth = Vector(Earth, SSB, t), m.sun = Vector(Sun, SSB, t),
           NEW source \in Stars \cup (Bodies \ {SSB}), NEW obs \in Observer, NEW corrected, NEW accuracy, NEW bad
    PROVE  LET p == PlaceFrom(m, t, source, obs, corrected, accuracy, bad) IN
           p # Failed =>
             /\ p.from = Vector(p.obs, SSB, p.t)
             /\ p.source \notin EphemObjects => p.seen = Vector(p.source, p.obs, p.t)
             /\ p.sun = Vector(Sun, SSB, p.t)
  <1> DEFINE pob  == ObsPosvel(t, obs, m.earth)
             seen == IF source \in Stars THEN Minus(Vector(source, SSB, t), pob)
                     ELSE LightTime2(t, source, pob, accuracy, bad)
             done == [t |-> t, source |-> source, obs |-> obs, from |-> pob, seen |-> seen, sun |-> m.sun]
             p    == PlaceFrom(m, t, source, obs, corrected, accuracy, bad)
  <1>1. pob = Vector(obs, SSB, t)
    BY PlusMeets DEF ObsPosvel
  <1>2. seen = Failed \/ source \notin EphemObjects => seen = Vector(source, obs, t) \/ seen = Failed
    <2>1. CASE source \in Stars
      BY <1>1, <2>1, MinusMeets
    <2>2. CASE source \notin Stars /\ source \notin EphemObjects
      <3>1. LightTime2(t, source, Vector(obs, SSB, t), accuracy, bad) \in {Failed, Vector(source, obs, t)}
        BY <2>2, LightTimeRight DEF NoBarycenter
      <3> QED
        BY <1>1, <2>2, <3>1
    <2> QED
      BY <2>1, <2>2
  <1>3. p # Failed => p = done /\ seen # Failed
    BY DEF PlaceFrom
  <1> HIDE DEF pob, seen, p
  <1> QED
    BY <1>1, <1>2, <1>3 DEF p

LEMMA PlaceDoneInv ==
    ASSUME NoBarycenter, PlaceInv, NEW t \in Times, NEW accuracy, NEW bad,
           NEW source \in Stars \cup (Bodies \ {SSB}), NEW obs \in Observer, NEW corrected,
           PlaceDone(t, source, obs, corrected, accuracy, bad)
    PROVE  /\ memo' = [t |-> memo'.t, acc |-> memo'.acc, earth |-> memo'.earth, sun |-> memo'.sun]
           /\ ~spoiled' => memo'.earth = Vector(Earth, SSB, memo'.t) /\ memo'.sun = Vector(Sun, SSB, memo'.t)
           /\ PlaceOfItsDate'
  <1> DEFINE m == Filled(t, accuracy, bad)
  <1>1. /\ m.earth # Failed /\ m.sun # Failed
        /\ memo' = m
        /\ spoiled' = (spoiled /\ IsHit(t, accuracy))
        /\ placed' = PlaceFrom(m, t, source, obs, corrected, accuracy, bad)
    BY DEF PlaceDone
  <1>2. m = [t |-> m.t, acc |-> m.acc, earth |-> m.earth, sun |-> m.sun] /\ m.t = t
    <2>1. CASE IsHit(t, accuracy)
      BY <2>1 DEF Filled, IsHit, PlaceInv
    <2>2. CASE ~IsHit(t, accuracy)
      BY <2>2 DEF Filled
    <2> QED
      BY <2>1, <2>2
  <1>3. ~spoiled' => m.earth = Vector(Earth, SSB, t) /\ m.sun = Vector(Sun, SSB, t)
    <2>1. CASE IsHit(t, accuracy)
      BY <1>1, <2>1 DEF Filled, IsHit, PlaceInv
    <2>2. CASE ~IsHit(t, accuracy)
      <3>1. m.earth = Ephemeris(t, Earth, SSB, accuracy, bad) /\ m.sun = Ephemeris(t, Sun, SSB, accuracy, bad)
        BY <2>2 DEF Filled
      <3>2. ProvidersOK
        BY DEF PlaceInv
      <3> QED
        BY <1>1, <3>1, <3>2, EarthAndSun
    <2> QED
      BY <2>1, <2>2
  <1> HIDE DEF m
  <1>4. PlaceOfItsDate'
    <2> SUFFICES ASSUME placed' # Failed, ~spoiled'
                 PROVE  /\ placed'.from = Vector(placed'.obs, SSB, placed'.t)
                        /\ placed'.source \notin EphemObjects
                             => placed'.seen = Vector(placed'.source, placed'.obs, placed'.t)
                        /\ placed'.sun = Vector(Sun, SSB, placed'.t)
      BY DEF PlaceOfItsDate
    <2>1. ProvidersOK
      BY DEF PlaceInv
    <2> QED
      BY <1>1, <1>3, <2>1, PlaceFromRight
  <1> QED
    BY <1>1, <1>2, <1>3, <1>4

LEMMA PlaceStep == NoBarycenter /\ PlaceInv /\ [PlaceNext]_placeVars => PlaceInv'
  <1> SUFFICES ASSUME NoBarycenter, PlaceInv, [PlaceNext]_placeVars PROVE PlaceInv'
    OBVIOUS
  <1>1. CASE Place
    <2>1. PICK t \in Times, accuracy \in Accuracies, bad \in Outages :
             /\ \/ PlaceNoEarth(t, accuracy, bad)
                \/ PlaceNoSun(t, accuracy, bad)
                \/ \E source \in Stars \cup (Bodies \ {SSB}), obs \in Observer, corrected \in BOOLEAN :
                      PlaceDone(t, source, obs, corrected, accuracy, bad)
             /\ UNCHANGED providers
      BY <1>1 DEF Place
    <2>2. ProvidersOK'
      BY <2>1, UnchangedOK DEF PlaceInv
    <2>3. CASE PlaceNoEarth(t, accuracy, bad) \/ PlaceNoSun(t, accuracy, bad)
      BY <2>2, <2>3, PlaceFails DEF PlaceInv
    <2>4. CASE \E source \in Stars \cup (Bodies \ {SSB}), obs \in Observer, corrected \in BOOLEAN :
                  PlaceDone(t, source, obs, corrected, accuracy, bad)
      <3> PICK source \in Stars \cup (Bodies \ {SSB}), obs \in Observer, corrected \in BOOLEAN :
                  PlaceDone(t, source, obs, corrected, accuracy, bad)
        BY <2>4
      <3> QED
        BY <2>2, PlaceDoneInv DEF PlaceInv
    <2> QED
      BY <2>1, <2>3, <2>4
  <1>2. CASE Configure /\ UNCHANGED <<memo, spoiled, placed>>
    BY <1>2, ConfigureOK DEF PlaceInv, PlaceOfItsDate
  <1>3. CASE UNCHANGED placeVars
    BY <1>3 DEF placeVars, PlaceInv, PlaceOfItsDate, ProvidersOK
  <1> QED
    BY <1>1, <1>2, <1>3 DEF PlaceNext

LEMMA PlaceStart == PlaceInit => PlaceInv
  <1> SUFFICES ASSUME PlaceInit PROVE PlaceInv
    OBVIOUS
  <1>1. memo = [t |-> NoTime, acc |-> Full, earth |-> Garbage, sun |-> Garbage] /\ placed = Failed
    BY DEF PlaceInit
  <1>2. ProvidersOK
    BY ProvidersInitOK DEF PlaceInit
  <1> QED
    BY <1>1, <1>2, MomentAssumption DEF PlaceInv, PlaceOfItsDate

\* Every place is of its date and observer, whichever calls filled the memo.
THEOREM PlacesRight == ASSUME NoBarycenter PROVE PlaceSpec => []PlaceOfItsDate
  <1>1. PlaceInv /\ [PlaceNext]_placeVars => PlaceInv'
    BY PlaceStep
  <1>2. PlaceInv => PlaceOfItsDate
    BY DEF PlaceInv
  <1> QED
    BY <1>1, <1>2, PlaceStart, PTL DEF PlaceSpec

\* Answers are for what was asked, however providers are registered in the course.
THEOREM AnswersAsAsked == PlaceSpec => []AnswerAsAsked
  <1>1. PlaceInit => ProvidersOK
    BY ProvidersInitOK DEF PlaceInit
  <1>2. ProvidersOK /\ [PlaceNext]_placeVars => ProvidersOK'
    BY ConfigureOK, UnchangedOK DEF PlaceNext, Place, placeVars, providers
  <1> QED
    BY <1>1, <1>2, AnswersRight, PTL DEF PlaceSpec

-----------------------------------------------------------------------------
\* Observing frames.

\* A frame with its Sun and Earth.
Based(frame) ==
    /\ frame = [t |-> frame.t, acc |-> frame.acc, obs |-> frame.obs, sun |-> frame.sun,
                earth |-> frame.earth, pos |-> frame.pos, planets |-> frame.planets]
    /\ frame.acc \in Accuracies
    /\ frame.sun = Vector(Sun, SSB, frame.t)
    /\ frame.earth = Vector(Earth, SSB, frame.t)

\* A frame with its observer and the bodies seen from there, among them the Sun.
Whole(frame) ==
    /\ Based(frame)
    /\ frame.pos = Vector(frame.obs, SSB, frame.t)
    /\ \A v \in frame.planets : v = Vector(v.of, frame.obs, frame.t)
    /\ Vector(Sun, frame.obs, frame.t) \in frame.planets

FramesInv ==
    /\ ProvidersOK
    /\ frames = [f \in Frames |-> frames[f]]
    /\ \A f \in Frames : frames[f] # NoFrame => Whole(frames[f])

LEMMA BundleRight ==
    ASSUME ProvidersOK, NEW t, NEW accuracy \in Accuracies, NEW obs, NEW bad
    PROVE  /\ \A v \in Bundle(t, accuracy, Vector(obs, SSB, t), bad) : v = Vector(v.of, obs, t)
           /\ HasSun(t, accuracy, Vector(obs, SSB, t), bad)
                => Vector(Sun, obs, t) \in Bundle(t, accuracy, Vector(obs, SSB, t), bad)
  <1> DEFINE pos == Vector(obs, SSB, t)
  <1>1. \A b \in Grav[accuracy] : LightTime2(t, b, pos, accuracy, bad) \in {Failed, Vector(b, obs, t)}
    <2> TAKE b \in Grav[accuracy]
    <2>1. b \in Planets \ {SSB}
      BY ObserverAssumption
    <2> QED
      BY <2>1, LightTimeRight, EphemerisAssumption DEF Bodies
  <1>2. \A v \in Bundle(t, accuracy, pos, bad) : v = Vector(v.of, obs, t)
    <2> TAKE v \in Bundle(t, accuracy, pos, bad)
    <2>1. PICK b \in Grav[accuracy] : v = LightTime2(t, b, pos, accuracy, bad) /\ v # Failed
      BY DEF Bundle
    <2>2. v = Vector(b, obs, t)
      BY <1>1, <2>1
    <2> QED
      BY <2>2, VectorKnown
  <1>3. HasSun(t, accuracy, pos, bad) => Vector(Sun, obs, t) \in Bundle(t, accuracy, pos, bad)
    <2> SUFFICES ASSUME HasSun(t, accuracy, pos, bad)
                 PROVE  Vector(Sun, obs, t) \in Bundle(t, accuracy, pos, bad)
      OBVIOUS
    <2>1. Sun \in Grav[accuracy]
      BY ObserverAssumption
    <2>2. LightTime2(t, Sun, pos, accuracy, bad) = Vector(Sun, obs, t)
      BY <1>1, <2>1 DEF HasSun
    <2> QED
      BY <2>1, <2>2, VectorKnown DEF Bundle
  <1> QED
    BY <1>2, <1>3

LEMMA ObservedWhole ==
    ASSUME ProvidersOK, NEW frame, Based(frame), NEW obs, NEW bad, Observed(frame, obs, bad) # NoFrame
    PROVE  Whole(Observed(frame, obs, bad))
  <1> DEFINE geo == GeoPosvel(frame.t, obs, frame.acc, bad)
             pos == Plus(geo, frame.earth)
             planets == Bundle(frame.t, frame.acc, pos, bad)
             new == Observed(frame, obs, bad)
  <1>1. /\ geo # Failed /\ HasSun(frame.t, frame.acc, pos, bad)
        /\ new = [frame EXCEPT !.obs = obs, !.pos = pos, !.planets = planets]
    BY DEF Observed
  <1>2. pos = Vector(obs, SSB, frame.t)
    <2>1. geo = Vector(obs, Earth, frame.t)
      BY <1>1, GeoPosvelRight
    <2> QED
      BY <2>1, PlusMeets DEF Based
  <1> HIDE DEF geo, pos
  <1>3. frame.acc \in Accuracies
    BY DEF Based
  <1>4. /\ \A v \in planets : v = Vector(v.of, obs, frame.t)
        /\ Vector(Sun, obs, frame.t) \in planets
    BY <1>1, <1>2, <1>3, BundleRight
  <1> HIDE DEF planets
  <1>5. new = [t |-> frame.t, acc |-> frame.acc, obs |-> obs, sun |-> frame.sun, earth |-> frame.earth,
               pos |-> pos, planets |-> planets]
    BY <1>1 DEF Based
  <1> HIDE DEF new
  <1>6. Whole(new)
    BY <1>2, <1>4, <1>5 DEF Whole, Based
  <1> QED
    BY <1>6 DEF new

LEMMA FramesStep == FramesInv /\ [FramesNext]_frameVars => FramesInv'
  <1> SUFFICES ASSUME FramesInv, [FramesNext]_frameVars PROVE FramesInv'
    OBVIOUS
  <1>0. ProvidersOK
    BY DEF FramesInv
  <1>1. ASSUME NEW f \in Frames, NEW new, new # NoFrame => Whole(new),
               frames' = [frames EXCEPT ![f] = new], UNCHANGED providers
        PROVE  FramesInv'
    <2>1. frames' = [g \in Frames |-> IF g = f THEN new ELSE frames[g]]
      BY <1>1 DEF FramesInv
    <2> QED
      BY <1>0, <1>1, <2>1, UnchangedOK DEF FramesInv
  <1>2. CASE MakeFrame
    <2> PICK f \in Frames, t \in Times, accuracy \in Accuracies, obs \in Observer, bad \in Outages :
           LET sun   == Ephemeris(t, Sun, SSB, accuracy, bad)
               earth == Ephemeris(t, Earth, SSB, accuracy, bad)
               frame == [t |-> t, acc |-> accuracy, obs |-> obs, sun |-> sun, earth |-> earth,
                         pos |-> Garbage, planets |-> {}]
           IN  /\ frames' = [frames EXCEPT ![f] = IF sun = Failed \/ earth = Failed THEN NoFrame
                                                  ELSE Observed(frame, obs, bad)]
               /\ UNCHANGED providers
      BY <1>2 DEF MakeFrame
    <2> DEFINE sun   == Ephemeris(t, Sun, SSB, accuracy, bad)
               earth == Ephemeris(t, Earth, SSB, accuracy, bad)
               frame == [t |-> t, acc |-> accuracy, obs |-> obs, sun |-> sun, earth |-> earth,
                         pos |-> Garbage, planets |-> {}]
               new   == IF sun = Failed \/ earth = Failed THEN NoFrame ELSE Observed(frame, obs, bad)
    <2>1. sun \in {Failed, Vector(Sun, SSB, t)} /\ earth \in {Failed, Vector(Earth, SSB, t)}
      BY <1>0, EarthAndSun
    <2>2. frames' = [frames EXCEPT ![f] = new] /\ UNCHANGED providers
      OBVIOUS
    <2> HIDE DEF sun, earth
    <2>3. sun # Failed /\ earth # Failed => Based(frame)
      BY <2>1 DEF Based
    <2> HIDE DEF frame
    <2>4. new # NoFrame => Whole(new)
      BY <1>0, <2>3, ObservedWhole
    <2> HIDE DEF new
    <2> QED
      BY <1>1, <2>2, <2>4
  <1>3. CASE ChangeObserver
    <2> PICK orig \in Frames, out \in Frames, obs \in Observer, bad \in Outages :
            /\ frames[orig] # NoFrame
            /\ frames' = [frames EXCEPT ![out] = Observed(frames[orig], obs, bad)]
            /\ UNCHANGED providers
      BY <1>3 DEF ChangeObserver
    <2>1. Based(frames[orig])
      BY DEF FramesInv, Whole
    <2> QED
      BY <1>0, <1>1, <2>1, ObservedWhole
  <1>4. CASE Configure /\ UNCHANGED frames
    BY <1>0, <1>4, ConfigureOK DEF FramesInv
  <1>5. CASE UNCHANGED frameVars
    BY <1>5 DEF frameVars, FramesInv, ProvidersOK
  <1> QED
    BY <1>2, <1>3, <1>4, <1>5 DEF FramesNext

\* What the properties of frames follow from.
THEOREM FramesInvariant == FramesSpec => []FramesInv
  <1>1. FramesInit => FramesInv
    BY ProvidersInitOK DEF FramesInit, FramesInv
  <1> QED
    BY <1>1, FramesStep, PTL DEF FramesSpec

\* An initialised frame is one of its date and observer, whatever failed before.
THEOREM FramesAreWhole == FramesSpec => []FramesWhole
  <1>1. FramesInv => FramesWhole
    BY DEF FramesInv, Whole, Based, FramesWhole
  <1> QED
    BY <1>1, FramesInvariant, PTL

\* Bodies are seen from the observer that the frame has now.
THEOREM SeenRight == FramesSpec => []SeenFromObserver
  <1>1. FramesInv => SeenFromObserver
    <2> SUFFICES ASSUME FramesInv, NEW f \in Frames, NEW b \in Planets \ {SSB}, NEW bad \in Outages,
                        frames[f] # NoFrame
                 PROVE  /\ GeomPosvel(frames[f], b, bad) \in {Failed, Vector(b, frames[f].obs, frames[f].t)}
                        /\ b = Sun => GeomPosvel(frames[f], b, bad) = Vector(b, frames[f].obs, frames[f].t)
      BY DEF SeenFromObserver
    <2> DEFINE frame == frames[f]
               kept  == {v \in frame.planets : v.of = b}
    <2>1. Whole(frame) /\ ProvidersOK
      BY DEF FramesInv
    <2> HIDE DEF frame
    <2>2. \A v \in kept : v = Vector(b, frame.obs, frame.t)
      BY <2>1 DEF Whole
    <2>3. b = Sun => kept # {}
      BY <2>1, VectorKnown DEF Whole
    <2>4. GeomPosvel(frame, b, bad) = IF kept # {} THEN CHOOSE v \in kept : TRUE
                                      ELSE LightTime2(frame.t, b, frame.pos, frame.acc, bad)
      BY DEF GeomPosvel
    <2> HIDE DEF kept
    <2>5. CASE kept # {}
      <3>1. (CHOOSE v \in kept : TRUE) \in kept
        BY <2>5
      <3> QED
        BY <2>2, <2>4, <2>5, <3>1 DEF frame
    <2>6. CASE kept = {}
      <3>1. frame.pos = Vector(frame.obs, SSB, frame.t)
        BY <2>1 DEF Whole
      <3>2. LightTime2(frame.t, b, frame.pos, frame.acc, bad) \in {Failed, Vector(b, frame.obs, frame.t)}
        BY <2>1, <3>1, LightTimeRight, EphemerisAssumption DEF Bodies
      <3> QED
        BY <2>3, <2>4, <2>6, <3>2 DEF frame
    <2> QED
      BY <2>5, <2>6
  <1> QED
    BY <1>1, FramesInvariant, PTL

-----------------------------------------------------------------------------
\* Searches.

\* Sources are somewhere at any time, not only those that searches begin at.
MovesOn == \A s \in Sources, t \in Int : Ra(s, t) \in Int /\ HalfArc(s, t) \in Int \cup {NoArc}

SearchInv ==
    /\ crossing = [goal |-> crossing.goal, sign |-> crossing.sign, from |-> crossing.from,
                   time |-> crossing.time, tries |-> crossing.tries, outcome |-> crossing.outcome]
    /\ crossing.goal \in Sources /\ crossing.sign \in -1 .. 1
    /\ crossing.from \in Int /\ crossing.time \in Int
    /\ crossing.from <= crossing.time

LEMMA RemainderBounds ==
    ASSUME NEW value \in Int, NEW period \in Nat \ {0}
    PROVE  /\ Remainder(value, period) \in Int
           /\ -period <= 2 * Remainder(value, period) /\ 2 * Remainder(value, period) <= period
  <1>1. value % period \in 0 .. period - 1
    OBVIOUS
  <1>2. CASE 2 * (value % period) > period
    BY <1>1, <1>2 DEF Remainder
  <1>3. CASE 2 * (value % period) = period
    BY <1>1, <1>3 DEF Remainder
  <1>4. CASE 2 * (value % period) < period
    BY <1>1, <1>4 DEF Remainder
  <1> QED
    BY <1>1, <1>2, <1>3, <1>4

\* A day later than an estimate before the time asked for is not before it.
LEMMA LaterRight ==
    ASSUME MovesOn, SearchInv, Arc(crossing.goal, crossing.sign, crossing.time) # NoArc,
           NEW t, t = crossing.time + Hours(crossing.goal, crossing.sign, crossing.time)
    PROVE  Later(crossing, t) \in Int /\ crossing.from <= Later(crossing, t)
  <1> DEFINE hours == Hours(crossing.goal, crossing.sign, crossing.time)
  <1>1. Arc(crossing.goal, crossing.sign, crossing.time) \in Int
    BY DEF Arc, MovesOn, SearchInv
  <1>2. Lst(crossing.time) \in Int
    BY CrossingAssumption DEF Lst, SearchInv
  <1>3. crossing.sign * Arc(crossing.goal, crossing.sign, crossing.time) \in Int
    BY <1>1 DEF SearchInv
  <1> DEFINE toGo == Due(crossing.goal, crossing.sign, crossing.time) - Lst(crossing.time)
  <1>4. hours \in Int /\ -TurnTicks <= 2 * hours
    <2>1. Ra(crossing.goal, crossing.time) \in Int
      BY DEF MovesOn, SearchInv
    <2>2. toGo \in Int
      BY <1>2, <1>3, <2>1 DEF Due
    <2> HIDE DEF toGo
    <2>3. Remainder(toGo, TurnTicks) \in Int /\ -TurnTicks <= 2 * Remainder(toGo, TurnTicks)
      BY <2>2, RemainderBounds, CrossingAssumption
    <2> QED
      BY <2>3 DEF Hours, toGo
  <1> QED
    BY <1>4, CrossingAssumption DEF Later, SearchInv

LEMMA SearchStep == MovesOn /\ SearchInv /\ [CrossingNext]_searchVars => SearchInv'
  <1> SUFFICES ASSUME MovesOn, SearchInv, [CrossingNext]_searchVars PROVE SearchInv'
    OBVIOUS
  <1>1. CASE EstimateCrossing
    <2> DEFINE t == crossing.time + Hours(crossing.goal, crossing.sign, crossing.time)
    <2>1. /\ crossing'.goal = crossing.goal /\ crossing'.sign = crossing.sign
          /\ crossing'.from = crossing.from /\ crossing'.time = Later(crossing, t)
      BY <1>1 DEF EstimateCrossing, Found, GoesOn, SearchInv
    <2>2. crossing' = [goal |-> crossing'.goal, sign |-> crossing'.sign, from |-> crossing'.from,
                       time |-> crossing'.time, tries |-> crossing'.tries, outcome |-> crossing'.outcome]
      BY <1>1 DEF EstimateCrossing, Found, GoesOn, SearchInv
    <2>3. Later(crossing, t) \in Int /\ crossing.from <= Later(crossing, t)
      BY <1>1, LaterRight DEF EstimateCrossing
    <2> HIDE DEF t
    <2> QED
      BY <2>1, <2>2, <2>3 DEF SearchInv
  <1>2. CASE NeverCrosses \/ CrossingFails
    BY <1>2 DEF NeverCrosses, CrossingFails, Ends, SearchInv
  <1>3. CASE SeekAgain
    BY <1>3, CrossingAssumption DEF SeekAgain, Search, SearchInv
  <1>4. CASE UNCHANGED searchVars
    BY <1>4 DEF searchVars, SearchInv
  <1> QED
    BY <1>1, <1>2, <1>3, <1>4 DEF CrossingNext

\* No search for a rising, a setting or a transit ever looks before the time that
\* novas_cross_el_date() was given, however the source moves meanwhile.
THEOREM NeverSearchesBack == ASSUME MovesOn PROVE CrossingSpec => []NeverBefore
  <1>1. SearchInit => SearchInv
    BY CrossingAssumption DEF SearchInit, Search, SearchInv
  <1>2. SearchInv => NeverBefore
    BY DEF SearchInv, NeverBefore
  <1> QED
    BY <1>1, <1>2, SearchStep, PTL DEF CrossingSpec

-----------------------------------------------------------------------------
\* Tracks.

\* Division by a number that divides.
LEMMA DivOfMultiple ==
    ASSUME NEW q \in Int, NEW d \in Nat \ {0}
    PROVE  (d * q) \div d = q
  <1> DEFINE x == d * q
  <1>1. x \in Int
    OBVIOUS
  <1> HIDE DEF x
  <1>2. PICK r \in Int : r = x \div d /\ d * r <= x /\ x < d * r + d
    BY <1>1
  <1>3. d * r <= d * q /\ d * q < d * (r + 1)
    BY <1>2 DEF x
  <1>4. ASSUME r < q PROVE FALSE
    <2>1. d * (r + 1) <= d * q
      BY <1>4
    <2> QED
      BY <1>3, <2>1
  <1>5. ASSUME q < r PROVE FALSE
    <2>1. d * (q + 1) <= d * r
      BY <1>5
    <2> QED
      BY <1>3, <2>1
  <1> QED
    BY <1>2, <1>4, <1>5 DEF x

\* Angles that differ by turns.
LEMMA ModIs ==
    ASSUME NEW a \in Int, NEW d \in Nat \ {0}
    PROVE  \E k \in Int : a % d = a - d * k /\ 0 <= a % d /\ a % d < d
  BY SMT

LEMMA ModOfMultiple ==
    ASSUME NEW k \in Int, NEW d \in Nat \ {0}
    PROVE  (d * k) % d = 0
  <1>1. (d * k) % d = d * k - d * ((d * k) \div d)
    BY SMT
  <1> QED
    BY <1>1, DivOfMultiple

LEMMA RemainderIs ==
    ASSUME NEW a \in Int, NEW d \in Nat \ {0}
    PROVE  /\ \E k \in Int : Remainder(a, d) = a - d * k
           /\ 2 * Magnitude(a) < d => Remainder(a, d) = a
  <1>1. PICK k \in Int : a % d = a - d * k /\ 0 <= a % d /\ a % d < d
    BY ModIs
  <1>2. Remainder(a, d) \in {a - d * k, a - d * (k + 1)}
    <2>1. a - d * (k + 1) = (a - d * k) - d
      OBVIOUS
    <2> QED
      BY <1>1, <2>1 DEF Remainder
  <1>3. ASSUME 2 * Magnitude(a) < d PROVE Remainder(a, d) = a
    <2>1. k \in {-1, 0}
      <3>1. ASSUME k >= 1 PROVE FALSE
        <4>1. d * k >= d
          BY <3>1
        <4> QED
          BY <1>1, <1>3, <4>1 DEF Magnitude
      <3>2. ASSUME k <= -2 PROVE FALSE
        <4>1. d * k <= -2 * d
          BY <3>2
        <4> QED
          BY <1>1, <1>3, <4>1 DEF Magnitude
      <3> QED
        BY <3>1, <3>2
    <2>2. CASE k = 0
      <3>1. a % d = a /\ 2 * a < d
        BY <1>1, <1>3, <2>2 DEF Magnitude
      <3> QED
        BY <3>1 DEF Remainder
    <2>3. CASE k = -1
      <3>1. a % d = a + d /\ 2 * (a + d) > d
        BY <1>1, <1>3, <2>3 DEF Magnitude
      <3> QED
        BY <3>1 DEF Remainder
    <2> QED
      BY <2>1, <2>2, <2>3
  <1>4. k \in Int /\ k + 1 \in Int
    OBVIOUS
  <1> QED
    BY <1>2, <1>3, <1>4

\* Of two longitudes no more than a quarter of a turn apart either both are in the same
\* turn, or one is at its beginning and the other at the end of the one before.
Quarter == FullTurn \div 4

LEMMA QuarterIs == Quarter \in Nat \ {0} /\ FullTurn = 4 * Quarter /\ FullTurn \in Nat \ {0}
  BY TrackAssumption DEF Quarter

InTurn(x, y, k) == y \in Int /\ y = x - FullTurn * k /\ 0 <= y /\ y < FullTurn

LEMMA TwoTurns ==
    ASSUME NEW x \in Int, NEW z \in Int, NEW k \in Int, NEW l \in Int, NEW a, NEW b,
           InTurn(x, a, k), InTurn(z, b, l), 4 * (x - z) <= FullTurn, 4 * (z - x) <= FullTurn
    PROVE  \/ k = l /\ a - b <= Quarter
           \/ k = l + 1 /\ a < Quarter /\ b >= 3 * Quarter
           \/ l = k + 1 /\ b < Quarter /\ a >= 3 * Quarter
  <1>2. PICK p, q \in Int : p = FullTurn * k /\ q = FullTurn * l
    BY QuarterIs
  <1>3. /\ a \in Int /\ a = x - p /\ 0 <= a /\ a < FullTurn
        /\ b \in Int /\ b = z - q /\ 0 <= b /\ b < FullTurn
    BY <1>2 DEF InTurn
  <1>4. x - z <= Quarter /\ z - x <= Quarter
    BY QuarterIs
  <1>5. CASE k = l
    <2>1. p = q
      BY <1>2, <1>5
    <2>2. a - b <= Quarter
      BY <1>3, <1>4, <2>1, QuarterIs
    <2> QED
      BY <1>5, <2>2
  <1>6. CASE k = l + 1
    <2>1. p = q + FullTurn
      BY <1>2, <1>6, QuarterIs
    <2> QED
      BY <1>3, <1>4, <1>6, <2>1, QuarterIs
  <1>7. CASE l = k + 1
    <2>1. q = p + FullTurn
      BY <1>2, <1>7, QuarterIs
    <2> QED
      BY <1>3, <1>4, <1>7, <2>1, QuarterIs
  <1>8. ASSUME k > l + 1 PROVE FALSE
    <2>1. p >= q + 2 * FullTurn
      BY <1>2, <1>8, QuarterIs
    <2> QED
      BY <1>3, <1>4, <2>1, QuarterIs
  <1>9. ASSUME l > k + 1 PROVE FALSE
    <2>1. q >= p + 2 * FullTurn
      BY <1>2, <1>9, QuarterIs
    <2> QED
      BY <1>3, <1>4, <2>1, QuarterIs
  <1> QED
    BY <1>5, <1>6, <1>7, <1>8, <1>9

\* So three of them go on from where they are in the first turn.
LEMMA UnwrapIs ==
    ASSUME NEW x \in [1 .. 3 -> Int],
           \A i, j \in 1 .. 3 : 4 * (x[i] - x[j]) <= FullTurn
    PROVE  \E k \in Int : \A i \in 1 .. 3 :
              Unwrap(x[i] % FullTurn, {x[j] % FullTurn : j \in 1 .. 3}) = x[i] - FullTurn * k
  <1>1. \A a \in Int : \E k \in Int : InTurn(a, a % FullTurn, k)
    <2> SUFFICES ASSUME NEW a \in Int PROVE \E k \in Int : InTurn(a, a % FullTurn, k)
      OBVIOUS
    <2>1. PICK k \in Int : a % FullTurn = a - FullTurn * k /\ 0 <= a % FullTurn /\ a % FullTurn < FullTurn
      BY ModIs, QuarterIs
    <2>2. a % FullTurn \in Int
      BY QuarterIs
    <2> QED
      BY <2>1, <2>2 DEF InTurn
  <1>2. PICK turn \in [1 .. 3 -> Int] : \A i \in 1 .. 3 : InTurn(x[i], x[i] % FullTurn, turn[i])
    <2>1. PICK k1 \in Int, k2 \in Int, k3 \in Int :
            InTurn(x[1], x[1] % FullTurn, k1) /\ InTurn(x[2], x[2] % FullTurn, k2) /\ InTurn(x[3], x[3] % FullTurn, k3)
      BY <1>1
    <2> DEFINE turn == [i \in 1 .. 3 |-> IF i = 1 THEN k1 ELSE IF i = 2 THEN k2 ELSE k3]
    <2> WITNESS turn \in [1 .. 3 -> Int]
    <2> QED
      BY <2>1
  <1>3. PICK m \in 1 .. 3 : \A i \in 1 .. 3 : turn[m] <= turn[i]
    <2>1. turn[1] \in Int /\ turn[2] \in Int /\ turn[3] \in Int
      OBVIOUS
    <2> QED
      BY <2>1
  <1> DEFINE k == turn[m]
             y == [i \in 1 .. 3 |-> x[i] % FullTurn]
             among == {x[j] % FullTurn : j \in 1 .. 3}
  <1>4. \A i, j \in 1 .. 3 :
           \/ turn[i] = turn[j] /\ y[i] - y[j] <= Quarter
           \/ turn[i] = turn[j] + 1 /\ y[i] < Quarter /\ y[j] >= 3 * Quarter
           \/ turn[j] = turn[i] + 1 /\ y[j] < Quarter /\ y[i] >= 3 * Quarter
    <2> SUFFICES ASSUME NEW i \in 1 .. 3, NEW j \in 1 .. 3
                 PROVE  \/ turn[i] = turn[j] /\ y[i] - y[j] <= Quarter
                        \/ turn[i] = turn[j] + 1 /\ y[i] < Quarter /\ y[j] >= 3 * Quarter
                        \/ turn[j] = turn[i] + 1 /\ y[j] < Quarter /\ y[i] >= 3 * Quarter
      OBVIOUS
    <2>1. x[i] \in Int /\ x[j] \in Int /\ turn[i] \in Int /\ turn[j] \in Int
      OBVIOUS
    <2>2. InTurn(x[i], y[i], turn[i]) /\ InTurn(x[j], y[j], turn[j])
      BY <1>2
    <2>3. 4 * (x[i] - x[j]) <= FullTurn /\ 4 * (x[j] - x[i]) <= FullTurn
      OBVIOUS
    <2> HIDE DEF y
    <2> QED
      BY <2>1, <2>2, <2>3, TwoTurns
  <1>5. \A i \in 1 .. 3 : y[i] \in Int /\ y[i] = x[i] - FullTurn * turn[i] /\ 0 <= y[i] /\ y[i] < 4 * Quarter
    BY <1>2, QuarterIs DEF InTurn
  <1>6. \A i \in 1 .. 3 : turn[i] \in Int /\ (turn[i] = k \/ turn[i] = k + 1)
    BY <1>3, <1>4
  <1>7. among = {y[j] : j \in 1 .. 3}
    OBVIOUS
  <1>8. ASSUME NEW i \in 1 .. 3 PROVE Unwrap(y[i], among) = x[i] - FullTurn * k
    <2>1. CASE turn[i] = k
      <3>1. ~(y[i] < Quarter /\ \E b \in among : b >= FullTurn - Quarter)
        <4> SUFFICES ASSUME y[i] < Quarter, NEW j \in 1 .. 3, y[j] >= FullTurn - Quarter PROVE FALSE
          BY <1>7
        <4>1. turn[i] # turn[j]
          <5>1. y[j] - y[i] > Quarter
            BY <1>5, QuarterIs
          <5>2. turn[j] = turn[i] => y[j] - y[i] <= Quarter
            BY <1>4, <1>6
          <5> QED
            BY <1>5, <5>1, <5>2, QuarterIs
        <4>2. turn[j] = k + 1
          BY <1>6, <2>1, <4>1
        <4>3. y[i] >= 3 * Quarter
          BY <1>4, <1>6, <2>1, <4>2
        <4> QED
          BY <1>5, <4>3, QuarterIs
      <3> QED
        BY <1>5, <2>1, <3>1 DEF Unwrap, Quarter
    <2>2. CASE turn[i] = k + 1
      <3>1. y[i] < Quarter /\ y[m] >= 3 * Quarter
        BY <1>4, <1>6, <2>2
      <3>2. y[m] >= FullTurn - Quarter /\ y[m] \in among
        BY <1>5, <1>7, <3>1, QuarterIs
      <3>3. Unwrap(y[i], among) = y[i] + FullTurn
        BY <3>1, <3>2 DEF Unwrap, Quarter
      <3>4. FullTurn * (k + 1) = FullTurn * k + FullTurn
        BY <1>6, QuarterIs
      <3> QED
        BY <1>5, <1>6, <2>2, <3>3, <3>4, QuarterIs
    <2> QED
      BY <1>6, <2>1, <2>2
  <1>9. k \in Int
    BY <1>6
  <1>10. \A i \in 1 .. 3 : y[i] = x[i] % FullTurn
    OBVIOUS
  <1> QED
    BY <1>8, <1>9, <1>10

\* A track that was filled whole.
WholeTrack(kind, t, dt) ==
    /\ kind \in {"equ", "hor", "cpp"} /\ t \in FrameTimes /\ dt \in Steps \cup {TrackDelta}
    /\ \E old : track = FilledTrack(old, kind, t, dt, 3)

TrackInv ==
    /\ path \in Path
    /\ tracked => \E kind, t, dt : WholeTrack(kind, t, dt)

LEMMA TrackStep == TrackInv /\ [TrackNext]_trackVars => TrackInv'
  <1> SUFFICES ASSUME TrackInv, [TrackNext]_trackVars PROVE TrackInv'
    OBVIOUS
  <1>1. path' = path
    BY DEF TrackNext, EquTrack, HorTrack, CppTrack, trackVars
  <1>2. \A x : SkyPos(x)' = SkyPos(x)
    BY <1>1 DEF SkyPos
  <1>3. \A old, kind, t, dt : FilledTrack(old, kind, t, dt, 3)' = FilledTrack(old, kind, t, dt, 3)
    <2> SUFFICES ASSUME NEW old, NEW kind, NEW t, NEW dt
                 PROVE  FilledTrack(old, kind, t, dt, 3)' = FilledTrack(old, kind, t, dt, 3)
      OBVIOUS
    <2>1. SkyPos(t - dt)' = SkyPos(t - dt) /\ SkyPos(t)' = SkyPos(t) /\ SkyPos(t + dt)' = SkyPos(t + dt)
      BY <1>2
    <2> QED
      BY <2>1 DEF FilledTrack
  <1>4. ASSUME NEW old, NEW kind \in {"equ", "hor", "cpp"}, NEW t \in FrameTimes, NEW dt \in Steps \cup {TrackDelta},
               track' = FilledTrack(old, kind, t, dt, 3)
        PROVE  WholeTrack(kind, t, dt)'
    BY <1>3, <1>4 DEF WholeTrack
  <1>5. CASE EquTrack
    <2>1. PICK t \in FrameTimes, dt \in Steps, found \in {0, 1, 3} :
            track' = FilledTrack(track, "equ", t, dt, found) /\ tracked' = (found = 3)
      BY <1>5 DEF EquTrack
    <2> QED
      BY <1>1, <1>4, <2>1 DEF TrackInv
  <1>6. CASE HorTrack
    <2>1. PICK t \in FrameTimes, found \in {0, 1, 3} :
            track' = FilledTrack(track, "hor", t, TrackDelta, found) /\ tracked' = (found = 3)
      BY <1>6 DEF HorTrack
    <2> QED
      BY <1>1, <1>4, <2>1 DEF TrackInv
  <1>7. CASE CppTrack
    <2>1. PICK t \in FrameTimes, dt \in Steps, found \in {0, 1, 3} :
            track' = FilledTrack(NoTrack, "cpp", t, dt, found) /\ tracked' = (found = 3)
      BY <1>7 DEF CppTrack
    <2> QED
      BY <1>1, <1>4, <2>1 DEF TrackInv
  <1>8. CASE UNCHANGED trackVars
    BY <1>1, <1>4, <1>8 DEF trackVars, TrackInv, WholeTrack
  <1> QED
    BY <1>5, <1>6, <1>7, <1>8 DEF TrackNext

\* The differences of a quadratic are its derivatives.
Parabola(a, b, c, x) == a + b * x + c * x * x

LEMMA Quadratic ==
    ASSUME NEW a \in Int, NEW b \in Int, NEW c \in Int, NEW t \in Int, NEW dt \in Nat \ {0}, NEW u \in Int,
           NEW k \in Int, NEW x1, NEW x2, NEW x3,
           x1 = Parabola(a, b, c, t - dt) - k, x2 = Parabola(a, b, c, t) - k, x3 = Parabola(a, b, c, t + dt) - k
    PROVE  ((x3 - x1) * dt * (u - t) + (x1 - 2 * x2 + x3) * (u - t) * (u - t)) \div (2 * dt * dt)
             = Parabola(a, b, c, u) - Parabola(a, b, c, t)
  <1>1. x3 - x1 = 2 * dt * (b + 2 * c * t)
    BY SMT DEF Parabola
  <1>2. x1 - 2 * x2 + x3 = 2 * c * dt * dt
    BY SMT DEF Parabola
  <1> DEFINE q == (b + 2 * c * t) * (u - t) + c * (u - t) * (u - t)
             d == 2 * dt * dt
  <1>3. (x3 - x1) * dt * (u - t) + (x1 - 2 * x2 + x3) * (u - t) * (u - t) = d * q
    BY <1>1, <1>2, SMT
  <1>4. q = Parabola(a, b, c, u) - Parabola(a, b, c, t)
    BY SMT DEF Parabola
  <1>5. q \in Int /\ d \in Nat \ {0}
    <2>1. dt * dt \in Nat /\ dt * dt >= 1
      BY SMT
    <2>2. d = 2 * (dt * dt)
      BY SMT
    <2> QED
      BY <2>1, <2>2, SMT
  <1> HIDE DEF q, d
  <1>6. (d * q) \div d = q
    BY <1>5, DivOfMultiple
  <1> QED
    BY <1>3, <1>4, <1>6 DEF d

\* What is projected from a whole track: the latitude and the distance where they are, and
\* the longitude but for whole turns.
LEMMA WholeProjects ==
    ASSUME path \in Path, NEW kind, NEW t, NEW dt, WholeTrack(kind, t, dt), NEW u \in TrackTimes
    PROVE  /\ \E k \in Int : Projected(track.pos.lon, track.rate.lon, track.accel.lon, u - track.time)
                              = LonOf(path, u) - FullTurn * k
           /\ Projected(track.pos.lat, track.rate.lat, track.accel.lat, u - track.time) = SkyPos(u).lat
           /\ kind # "hor" => Projected(track.pos.dist, track.rate.dist, track.accel.dist, u - track.time) = SkyPos(u).dist
  <1>1. /\ path.lon \in Int /\ path.speed \in Int /\ path.gain \in Int /\ path.lat \in Int
        /\ path.climb \in Int /\ path.dist \in Int /\ path.radial \in Int
        /\ t \in Int /\ dt \in Nat \ {0} /\ u \in Int
    BY TrackAssumption DEF WholeTrack
  <1> DEFINE sky == <<SkyPos(t - dt), SkyPos(t), SkyPos(t + dt)>>
             x   == [i \in 1 .. 3 |-> LonOf(path, t + (i - 2) * dt)]
             lon == [i \in 1 .. 3 |-> Unrolled(sky)[i].lon]
  <1>2. x \in [1 .. 3 -> Int]
    BY <1>1 DEF LonOf
  <1>3. \A i \in 1 .. 3 : sky[i].lon = x[i] % FullTurn
    BY <1>1 DEF SkyPos
  <1>4. PICK k \in Int : \A i \in 1 .. 3 : lon[i] = x[i] - FullTurn * k
    <2>1. \A i, j \in 1 .. 3 : 4 * (x[i] - x[j]) <= FullTurn
      <3>1. \A i \in 1 .. 3 : t + (i - 2) * dt \in {t - dt, t, t + dt}
        BY <1>1
      <3>2. \A a, b \in {t - dt, t, t + dt} : 4 * (LonOf(path, a) - LonOf(path, b)) <= FullTurn
        BY SlowAssumption DEF WholeTrack
      <3> QED
        BY <3>1, <3>2
    <2>2. {sky[j].lon : j \in 1 .. 3} = {x[j] % FullTurn : j \in 1 .. 3}
      BY <1>3
    <2>3. \A i \in 1 .. 3 : lon[i] = Unwrap(sky[i].lon, {sky[j].lon : j \in 1 .. 3})
      <3>1. \A i \in 1 .. 3 : sky[i] = SkyPos(t + (i - 2) * dt)
        BY <1>1
      <3>2. \A i \in 1 .. 3 : "lon" \in DOMAIN sky[i]
        BY <3>1 DEF SkyPos
      <3> HIDE DEF sky
      <3> QED
        BY <3>2 DEF Unrolled
    <2> HIDE DEF x, lon, sky
    <2> QED
      BY <1>2, <1>3, <2>1, <2>2, <2>3, UnwrapIs
  <1>5. PICK old : track = FilledTrack(old, kind, t, dt, 3)
    BY DEF WholeTrack
  <1> DEFINE rate  == FirstDifference(sky)
             accel == SecondDifference(sky)
  <1>6. /\ track.time = t /\ track.step = dt /\ track.pos = SkyPos(t) /\ track.accel = accel
        /\ track.rate = IF kind = "hor" THEN [rate EXCEPT !.dist = -@] ELSE rate
    BY <1>5 DEF FilledTrack
  <1>7. /\ track.rate.lon = rate.lon /\ track.rate.lat = rate.lat
        /\ kind # "hor" => track.rate.dist = rate.dist
    BY <1>6 DEF FirstDifference, Differences
  <1>8. ASSUME NEW a \in Int, NEW b \in Int, NEW c \in Int, NEW n \in Int, NEW x0, NEW x1, NEW x2, NEW x3,
               x1 = Parabola(a, b, c, t - dt) - n, x2 = Parabola(a, b, c, t) - n, x3 = Parabola(a, b, c, t + dt) - n
        PROVE  Projected(x0, x3 - x1, x1 - 2 * x2 + x3, u - track.time) = x0 + (Parabola(a, b, c, u) - Parabola(a, b, c, t))
    <2>1. ((x3 - x1) * dt * (u - t) + (x1 - 2 * x2 + x3) * (u - t) * (u - t)) \div (2 * dt * dt)
            = Parabola(a, b, c, u) - Parabola(a, b, c, t)
      BY <1>1, <1>8, Quadratic
    <2> QED
      BY <1>6, <2>1 DEF Projected
  <1>9. \E n \in Int : Projected(track.pos.lon, track.rate.lon, track.accel.lon, u - track.time)
                        = LonOf(path, u) - FullTurn * n
    <2>1. /\ rate.lon = lon[3] - lon[1]
          /\ accel.lon = lon[1] - 2 * lon[2] + lon[3]
      <3>1. lon[1] \in Int /\ lon[2] \in Int /\ lon[3] \in Int
        BY <1>2, <1>4, QuarterIs
      <3>2. rate.lon = (-1) * lon[1] + 0 * lon[2] + 1 * lon[3] /\ accel.lon = 1 * lon[1] + (-2) * lon[2] + 1 * lon[3]
        BY DEF FirstDifference, SecondDifference, Differences
      <3> HIDE DEF rate, accel, lon
      <3> QED
        BY <3>1, <3>2
    <2>2. PICK n \in Int : LonOf(path, t) % FullTurn = LonOf(path, t) - FullTurn * n
      <3>1. LonOf(path, t) \in Int
        BY <1>1 DEF LonOf
      <3> QED
        BY <3>1, ModIs, QuarterIs
    <2>3. x[1] = LonOf(path, t - dt) /\ x[2] = LonOf(path, t) /\ x[3] = LonOf(path, t + dt)
      <3>1. t + (1 - 2) * dt = t - dt /\ t + (2 - 2) * dt = t /\ t + (3 - 2) * dt = t + dt
        BY <1>1
      <3> QED
        BY <3>1
    <2>4. FullTurn * k \in Int /\ FullTurn * n \in Int
      BY <2>2, QuarterIs
    <2>5. track.pos.lon = LonOf(path, t) - FullTurn * n
      BY <1>6, <2>2 DEF SkyPos
    <2>6. lon[1] = x[1] - FullTurn * k /\ lon[2] = x[2] - FullTurn * k /\ lon[3] = x[3] - FullTurn * k
      BY <1>4
    <2> HIDE DEF x, lon, rate, accel, sky
    <2>7. Projected(track.pos.lon, lon[3] - lon[1], lon[1] - 2 * lon[2] + lon[3], u - track.time)
            = track.pos.lon + (LonOf(path, u) - LonOf(path, t))
      <3>1. \A y : LonOf(path, y) = Parabola(path.lon, path.speed, path.gain, y)
        BY DEF LonOf, Parabola
      <3> QED
        BY <1>1, <1>8, <2>3, <2>4, <2>6, <3>1
    <2>8. LonOf(path, u) \in Int /\ LonOf(path, t) \in Int
      BY <1>1 DEF LonOf
    <2>9. Projected(track.pos.lon, track.rate.lon, track.accel.lon, u - track.time) = LonOf(path, u) - FullTurn * n
      BY <1>6, <1>7, <2>1, <2>4, <2>5, <2>7, <2>8
    <2> QED
      BY <2>2, <2>9
  <1>10. ASSUME NEW field \in {"lat", "dist"}, NEW a \in Int, NEW b \in Int,
                \A y \in Int : SkyPos(y)[field] = a + b * y,
                track.rate[field] = rate[field]
         PROVE  Projected(track.pos[field], track.rate[field], track.accel[field], u - track.time) = SkyPos(u)[field]
    <2> DEFINE v == [i \in 1 .. 3 |-> Unrolled(sky)[i][field]]
    <2>1. \A i \in 1 .. 3 : v[i] = a + b * (t + (i - 2) * dt)
      <3>1. \A i \in 1 .. 3 : sky[i] = SkyPos(t + (i - 2) * dt) /\ t + (i - 2) * dt \in Int
        BY <1>1
      <3>2. \A i \in 1 .. 3 : sky[i][field] = a + b * (t + (i - 2) * dt)
        BY <1>10, <3>1
      <3> HIDE DEF sky
      <3>3. \A i \in 1 .. 3 : Unrolled(sky)[i][field] = sky[i][field]
        BY <3>1 DEF Unrolled, SkyPos
      <3> QED
        BY <3>2, <3>3
    <2>2. v[1] = a + b * (t - dt) /\ v[2] = a + b * t /\ v[3] = a + b * (t + dt)
      BY <1>1, <2>1
    <2>3. rate[field] = v[3] - v[1] /\ accel[field] = v[1] - 2 * v[2] + v[3]
      <3>1. v[1] \in Int /\ v[2] \in Int /\ v[3] \in Int
        BY <1>1, <2>2
      <3>2. rate[field] = (-1) * v[1] + 0 * v[2] + 1 * v[3] /\ accel[field] = 1 * v[1] + (-2) * v[2] + 1 * v[3]
        BY DEF FirstDifference, SecondDifference, Differences
      <3> HIDE DEF rate, accel, v
      <3>3. PICK v1, v2, v3 \in Int : v1 = v[1] /\ v2 = v[2] /\ v3 = v[3]
        BY <3>1
      <3>4. rate[field] = (-1) * v1 + 0 * v2 + 1 * v3 /\ accel[field] = 1 * v1 + (-2) * v2 + 1 * v3
        BY <3>2, <3>3
      <3>5. rate[field] = v3 - v1 /\ accel[field] = v1 - 2 * v2 + v3
        BY <3>4
      <3> QED
        BY <3>3, <3>5
    <2> HIDE DEF v, rate, accel, sky
    <2>4. v[1] = Parabola(a, b, 0, t - dt) - 0 /\ v[2] = Parabola(a, b, 0, t) - 0 /\ v[3] = Parabola(a, b, 0, t + dt) - 0
      BY <1>1, <2>2 DEF Parabola
    <2>5. track.pos[field] = a + b * t
      BY <1>1, <1>6, <1>10
    <2>6. Projected(track.pos[field], v[3] - v[1], v[1] - 2 * v[2] + v[3], u - track.time)
            = track.pos[field] + (Parabola(a, b, 0, u) - Parabola(a, b, 0, t))
      BY <1>8, <2>4
    <2>7. track.pos[field] + (Parabola(a, b, 0, u) - Parabola(a, b, 0, t)) = a + b * u
      BY <1>1, <2>5 DEF Parabola
    <2>8. track.rate[field] = v[3] - v[1] /\ track.accel[field] = v[1] - 2 * v[2] + v[3]
      BY <1>6, <1>10, <2>3
    <2>9. SkyPos(u)[field] = a + b * u
      BY <1>1, <1>10
    <2> QED
      BY <2>6, <2>7, <2>8, <2>9
  <1> HIDE DEF x, lon, rate, accel, sky
  <1>11. Projected(track.pos["lat"], track.rate["lat"], track.accel["lat"], u - track.time) = SkyPos(u)["lat"]
    <2>1. \A y \in Int : SkyPos(y)["lat"] = path.lat + path.climb * y
      BY DEF SkyPos
    <2> QED
      BY <1>1, <1>7, <1>10, <2>1
  <1>12. kind # "hor" =>
            Projected(track.pos["dist"], track.rate["dist"], track.accel["dist"], u - track.time) = SkyPos(u)["dist"]
    <2>1. \A y \in Int : SkyPos(y)["dist"] = path.dist + path.radial * y
      BY DEF SkyPos
    <2> QED
      BY <1>1, <1>7, <1>10, <2>1
  <1> QED
    BY <1>9, <1>11, <1>12

\* Everywhere on the meridians, a pole not being crossed.
LEMMA WholeFollows ==
    ASSUME path \in Path, NEW kind, NEW t, NEW dt, WholeTrack(kind, t, dt), NEW u \in TrackTimes
    PROVE  /\ IsUpright(u) => Follows(u)
           /\ track.kind # "hor" => TrackPos(u).dist = SkyPos(u).dist
  <1>1. track.kind = kind
    BY DEF WholeTrack, FilledTrack
  <1> DEFINE lon == Projected(track.pos.lon, track.rate.lon, track.accel.lon, u - track.time)
             raw == Projected(track.pos.lat, track.rate.lat, track.accel.lat, u - track.time)
             lat == Remainder(raw, FullTurn)
  <1>2. PICK n \in Int : lon = LonOf(path, u) - FullTurn * n
    BY WholeProjects
  <1>3. raw = SkyPos(u).lat
    BY WholeProjects
  <1>4. LonOf(path, u) \in Int /\ SkyPos(u).lat \in Int /\ SkyPos(u).lon = LonOf(path, u) % FullTurn
    BY TrackAssumption DEF LonOf, SkyPos
  <1>5. ASSUME IsUpright(u) PROVE Follows(u)
    <2>1. Magnitude(raw) <= Quarter
      BY <1>3, <1>5 DEF IsUpright, Quarter
    <2>2. 2 * Magnitude(raw) < FullTurn
      BY <1>3, <1>4, <2>1, QuarterIs DEF Magnitude
    <2>3. lat = raw
      BY <1>3, <1>4, <2>2, RemainderIs, QuarterIs
    <2>4. ~(Magnitude(lat) > FullTurn \div 4)
      BY <1>3, <1>4, <2>1, <2>3, QuarterIs DEF Quarter, Magnitude
    <2>5. TrackPos(u).lat = lat /\ TrackPos(u).lon = Remainder(lon, FullTurn)
      BY <2>4 DEF TrackPos
    <2> HIDE DEF lon, raw, lat
    <2>6. lon \in Int
      BY <1>2, <1>4, QuarterIs
    <2>7. PICK m \in Int : Remainder(lon, FullTurn) = lon - FullTurn * m
      BY <2>6, RemainderIs, QuarterIs
    <2>8. PICK l \in Int : LonOf(path, u) % FullTurn = LonOf(path, u) - FullTurn * l
      BY <1>4, ModIs, QuarterIs
    <2>9. TrackPos(u).lon - SkyPos(u).lon = FullTurn * (l - m - n)
      <3>1. FullTurn * (l - m - n) = FullTurn * l - FullTurn * m - FullTurn * n
        BY QuarterIs
      <3>2. FullTurn * l \in Int /\ FullTurn * m \in Int /\ FullTurn * n \in Int
        BY QuarterIs
      <3> QED
        BY <1>2, <1>4, <2>5, <2>7, <2>8, <3>1, <3>2
    <2>10. (TrackPos(u).lon - SkyPos(u).lon) % FullTurn = 0
      BY <2>9, ModOfMultiple, QuarterIs
    <2> QED
      BY <1>3, <2>3, <2>5, <2>10 DEF Follows
  <1>6. TrackPos(u).dist = Projected(track.pos.dist, track.rate.dist, track.accel.dist, u - track.time)
    BY DEF TrackPos
  <1> QED
    BY <1>1, <1>5, <1>6, WholeProjects

\* A track that was filled follows a source of any path that turns no more than a
\* quarter of a turn in two steps, across the origin of longitudes, after any calls,
\* those that failed included.
THEOREM TracksFollow == TrackSpec => []TrackFollows
  <1>1. TrackInit => TrackInv
    BY DEF TrackInit, TrackInv
  <1>2. TrackInv => TrackFollows
    BY WholeFollows DEF TrackInv, TrackFollows, Answers
  <1> QED
    BY <1>1, <1>2, TrackStep, PTL DEF TrackSpec

-----------------------------------------------------------------------------
\* Entries and orbits that are built by calls.

EntryOK(e) ==
    /\ e \in [coords : {"some", "nan"}, motion : {"some", "zero", "nan"},
              parallax : Numbers \cup {"infinite"}, velocity : {"some", "zero", "swift", "fast", "nan"},
              skipped : SUBSET {"name", "motion", "parallax", "velocity"}, valid : BOOLEAN]

OrbitSystems == [center : {"some", "nan"}, angles : {"some", "nan"}, type : {"some", "nan"}, valid : BOOLEAN]

OrbitInv ==
    /\ system \in OrbitSystems
    /\ orbital \in [system : OrbitSystems, size : Numbers, shape : Numbers, tilt : Numbers, apsis : Numbers,
                    node : Numbers, valid : BOOLEAN]
    /\ OrbitIsSane

\* Sane, but for the parallax of a source at no distance.
NearlySane(e) ==
    /\ e.coords = "some"
    /\ e.parallax \in {"some", "zero", "infinite"}
    /\ e.motion # "nan" /\ e.velocity # "nan"

LEMMA NearlySaneIs == ASSUME NEW e, EntryOK(e)
                      PROVE  NearlySane(e) <=> EntrySane([e EXCEPT !.parallax = IF @ = "infinite" THEN "some" ELSE @])
  BY DEF NearlySane, EntrySane, EntryOK, Numbers

EntryInv ==
    /\ EntryOK(entry)
    /\ refused \in BOOLEAN
    /\ entry.valid => NearlySane(entry)
    /\ EntrySane(entry) /\ ~refused => entry.valid

\* A call keeps the mark true if it stores nothing bad that it has not refused.
LEMMA GivenTrue ==
    ASSUME EntryInv, NEW field \in {"motion", "parallax", "velocity"}, NEW value, NEW stored, NEW bad \in BOOLEAN,
           Given(field, value, stored, bad),
           field = "motion" => stored \in {"some", "nan"} /\ (stored = "nan" => bad),
           field = "parallax" => stored \in Numbers \cup {"infinite"} /\ (stored \in {"negative", "nan"} => bad),
           field = "velocity" => /\ stored \in {"some", "zero", "swift", "fast", "nan"}
                                 /\ stored = "nan" => bad \/ stored = entry.velocity
    PROVE  EntryInv'
  <1> DEFINE e == [entry EXCEPT ![field] = stored,
                                !.skipped = IF stored = value THEN @ \ {field} ELSE @ \cup {field}]
             mark == Marked(e.valid, bad, EntrySane(e))
  <1>1. entry' = [e EXCEPT !.valid = mark] /\ refused' = bad
    BY DEF Given
  <1>2. EntryOK(e) /\ e.valid = entry.valid /\ e.coords = entry.coords
    BY DEF EntryInv, EntryOK, Numbers
  <1>3. /\ e.motion = IF field = "motion" THEN stored ELSE entry.motion
        /\ e.parallax = IF field = "parallax" THEN stored ELSE entry.parallax
        /\ e.velocity = IF field = "velocity" THEN stored ELSE entry.velocity
    BY DEF EntryInv, EntryOK
  <1>4. mark \in BOOLEAN /\ (mark <=> ~bad /\ (entry.valid \/ EntrySane(e)))
    BY <1>2 DEF Marked, EntrySane, EntryInv, EntryOK
  <1>5. mark => NearlySane(e)
    BY <1>2, <1>3, <1>4 DEF EntryInv, NearlySane, EntrySane, EntryOK, Numbers
  <1> HIDE DEF e, mark
  <1>6. EntryOK(entry') /\ entry'.valid = mark
    BY <1>1, <1>2, <1>4 DEF EntryOK
  <1>7. (NearlySane(entry') <=> NearlySane(e)) /\ (EntrySane(entry') <=> EntrySane(e))
    BY <1>1, <1>2 DEF EntryOK, NearlySane, EntrySane
  <1> QED
    BY <1>1, <1>4, <1>5, <1>6, <1>7 DEF EntryInv

LEMMA EntryStep == EntryInv /\ EntryNext => EntryInv'
  <1> SUFFICES ASSUME EntryInv, EntryNext PROVE EntryInv'
    OBVIOUS
  <1>1. CASE NameEntry
    <2>1. PICK coords \in {"some", "nan"}, short \in BOOLEAN :
            entry' = NewEntry(coords, short) /\ refused' = ~entry'.valid
      BY <1>1 DEF NameEntry
    <2>2. EntryOK(entry')
      BY <2>1 DEF NewEntry, EntryOK, Numbers
    <2> QED
      BY <2>1, <2>2 DEF NewEntry, EntryInv, NearlySane, EntrySane
  <1>2. CASE ImportEntry
    <2>1. PICK coords \in {"some", "nan"}, parallax \in Numbers, velocity \in {"some", "fast", "nan"} :
            /\ entry' = LET e == [NewEntry(coords, TRUE) EXCEPT !.parallax = parallax, !.velocity = velocity]
                        IN  [e EXCEPT !.valid = EntrySane(e)]
            /\ refused' = ~entry'.valid
      BY <1>2 DEF ImportEntry
    <2> QED
      BY <2>1 DEF NewEntry, EntryInv, EntryOK, NearlySane, EntrySane, Numbers
  <1>3. CASE ProperMotion
    BY <1>3, GivenTrue DEF ProperMotion
  <1>4. CASE Parallax
    <2>1. PICK value \in Numbers : Given("parallax", value, StoredParallax(value), value \in {"negative", "nan"})
      BY <1>4 DEF Parallax
    <2>2. StoredParallax(value) \in Numbers /\ (StoredParallax(value) \in {"negative", "nan"} => value = "nan")
      BY DEF StoredParallax, Numbers
    <2> DEFINE stored == StoredParallax(value)
               bad    == value \in {"negative", "nan"}
    <2>3. Given("parallax", value, stored, bad) /\ bad \in BOOLEAN /\ (stored \in {"negative", "nan"} => bad)
      BY <2>1, <2>2
    <2> HIDE DEF stored, bad
    <2>4. stored \in Numbers
      BY <2>2 DEF stored
    <2> QED
      BY <2>3, <2>4, GivenTrue
  <1>5. CASE Distance
    <2>1. PICK value \in Numbers, reciprocal \in Numbers \cup {"infinite"} :
            /\ reciprocal = IF value = "zero" THEN "infinite" ELSE value
            /\ Given("parallax", reciprocal, StoredParallax(reciprocal), value \in {"negative", "nan"})
      BY <1>5 DEF Distance
    <2>2. /\ StoredParallax(reciprocal) \in Numbers \cup {"infinite"}
          /\ StoredParallax(reciprocal) \in {"negative", "nan"} => value = "nan"
      BY <2>1 DEF StoredParallax, Numbers
    <2> DEFINE stored == StoredParallax(reciprocal)
               bad    == value \in {"negative", "nan"}
    <2>3. Given("parallax", reciprocal, stored, bad) /\ bad \in BOOLEAN /\ (stored \in {"negative", "nan"} => bad)
      BY <2>1, <2>2
    <2> HIDE DEF stored, bad
    <2>4. stored \in Numbers \cup {"infinite"}
      BY <2>2 DEF stored
    <2> QED
      BY <2>3, <2>4, GivenTrue
  <1>6. entry.velocity \in {"some", "zero", "swift", "fast", "nan"}
    BY DEF EntryInv, EntryOK
  <1>7. CASE RadialVelocity
    BY <1>6, <1>7, GivenTrue DEF RadialVelocity, StoredVelocity
  <1>8. CASE VLsr
    <2>1. PICK value \in {"some", "swift", "fast", "nan"} :
            Given("velocity", value, StoredVelocity(value), value \in {"fast", "nan"})
      BY <1>8 DEF VLsr
    <2>2. StoredVelocity(value) \in {value, entry.velocity} /\ (StoredVelocity(value) # entry.velocity => value # "swift")
      BY DEF StoredVelocity
    <2> DEFINE stored == StoredVelocity(value)
               bad    == value \in {"fast", "nan"}
    <2>3. Given("velocity", value, stored, bad) /\ bad \in BOOLEAN
      BY <2>1
    <2>4. stored \in {"some", "zero", "swift", "fast", "nan"} /\ (stored = "nan" => bad \/ stored = entry.velocity)
      BY <1>6, <2>2
    <2> HIDE DEF stored, bad
    <2> QED
      BY <2>3, <2>4, GivenTrue
  <1>9. CASE Redshift
    BY <1>6, <1>9, GivenTrue DEF Redshift
  <1> QED
    BY <1>1, <1>2, <1>3, <1>4, <1>5, <1>7, <1>8, <1>9 DEF EntryNext

LEMMA FormedTrue ==
    ASSUME OrbitInv, NEW field \in {"shape", "tilt", "apsis", "node"}, NEW value \in Numbers,
           NEW bad \in BOOLEAN, bad <=> value # "some", Formed(field, value, bad)
    PROVE  OrbitInv'
  <1> DEFINE o == [orbital EXCEPT ![field] = value]
             mark == Marked(o.valid, bad, OrbitSane(o))
  <1>1. orbital' = [o EXCEPT !.valid = mark] /\ system' = system
    BY DEF Formed
  <1>2. /\ o \in [system : OrbitSystems, size : Numbers, shape : Numbers, tilt : Numbers, apsis : Numbers,
                  node : Numbers, valid : BOOLEAN]
        /\ o.valid = orbital.valid /\ o.system = orbital.system /\ o.size = orbital.size
    BY DEF OrbitInv
  <1>3. /\ o.shape = IF field = "shape" THEN value ELSE orbital.shape
        /\ o.tilt = IF field = "tilt" THEN value ELSE orbital.tilt
        /\ o.apsis = IF field = "apsis" THEN value ELSE orbital.apsis
        /\ o.node = IF field = "node" THEN value ELSE orbital.node
    BY DEF OrbitInv
  <1>4. mark \in BOOLEAN /\ (mark <=> ~bad /\ (orbital.valid \/ OrbitSane(o)))
    BY <1>2 DEF Marked, OrbitSane, SystemSane, OrbitInv
  <1>5. mark <=> OrbitSane(o)
    BY <1>2, <1>3, <1>4 DEF OrbitInv, OrbitIsSane, OrbitSane
  <1> HIDE DEF o, mark
  <1>6. OrbitSane(orbital') <=> OrbitSane(o)
    BY <1>1, <1>2 DEF OrbitSane
  <1> QED
    BY <1>1, <1>2, <1>4, <1>5, <1>6 DEF OrbitInv, OrbitIsSane

LEMMA NewOrbitalTrue ==
    ASSUME NEW s \in OrbitSystems, NEW size \in Numbers
    PROVE  /\ NewOrbital(s, size) \in [system : OrbitSystems, size : Numbers, shape : Numbers, tilt : Numbers,
                                        apsis : Numbers, node : Numbers, valid : BOOLEAN]
           /\ NewOrbital(s, size).valid <=> OrbitSane(NewOrbital(s, size))
  BY DEF NewOrbital, OrbitSane, SystemSane, Numbers

LEMMA OrbitStep == OrbitInv /\ OrbitNext => OrbitInv'
  <1> SUFFICES ASSUME OrbitInv, OrbitNext PROVE OrbitInv'
    OBVIOUS
  <1>1. CASE MakeSystem
    BY <1>1 DEF MakeSystem, OrbitInv, OrbitSystems, OrbitIsSane
  <1>2. CASE Orientation
    BY <1>2 DEF Orientation, OrbitInv, OrbitSystems, OrbitIsSane
  <1>3. CASE MakeOrbital
    BY <1>3, NewOrbitalTrue DEF MakeOrbital, OrbitInv, OrbitIsSane
  <1>4. CASE Eccentricity
    BY <1>4, FormedTrue DEF Eccentricity, Numbers
  <1>5. CASE Inclination
    BY <1>5, FormedTrue DEF Inclination, Numbers
  <1>6. CASE ApsisPeriod
    BY <1>6, FormedTrue DEF ApsisPeriod, Numbers
  <1>7. CASE NodePeriod
    BY <1>7, FormedTrue DEF NodePeriod, Numbers
  <1> QED
    BY <1>1, <1>2, <1>3, <1>4, <1>5, <1>6, <1>7 DEF OrbitNext

\* The marks of CatalogEntry and Orbital tell what they have got, after any chain of calls.
THEOREM MarksTrue == BuilderSpec => []MarksAreTrue
  <1>1. BuilderInit => EntryInv /\ OrbitInv
    <2> SUFFICES ASSUME BuilderInit PROVE EntryInv /\ OrbitInv
      OBVIOUS
    <2>1. EntryInv
      BY DEF BuilderInit, NewEntry, EntryInv, EntryOK, NearlySane, EntrySane, Numbers
    <2>2. system \in OrbitSystems /\ orbital = NewOrbital(system, "some")
      BY DEF BuilderInit, OrbitSystems
    <2> QED
      BY <2>1, <2>2, NewOrbitalTrue DEF OrbitInv, OrbitIsSane, Numbers
  <1>2. EntryInv /\ OrbitInv /\ [EntryNext \/ OrbitNext]_builderVars => (EntryInv /\ OrbitInv)'
    <2> SUFFICES ASSUME EntryInv, OrbitInv, [EntryNext \/ OrbitNext]_builderVars PROVE (EntryInv /\ OrbitInv)'
      OBVIOUS
    <2>1. CASE EntryNext
      <3>1. UNCHANGED <<system, orbital>>
        BY <2>1 DEF EntryNext, NameEntry, ImportEntry, ProperMotion, Parallax, Distance, RadialVelocity, VLsr,
                    Redshift, Given
      <3> QED
        BY <2>1, <3>1, EntryStep DEF OrbitInv, OrbitIsSane
    <2>2. CASE OrbitNext
      <3>1. UNCHANGED <<entry, refused>>
        BY <2>2 DEF OrbitNext, MakeSystem, Orientation, MakeOrbital, Eccentricity, Inclination, ApsisPeriod,
                    NodePeriod, Formed
      <3> QED
        BY <2>2, <3>1, OrbitStep DEF EntryInv
    <2>3. CASE UNCHANGED builderVars
      BY <2>3 DEF builderVars, EntryInv, OrbitInv, OrbitIsSane
    <2> QED
      BY <2>1, <2>2, <2>3
  <1>3. EntryInv /\ OrbitInv => MarksAreTrue
    BY NearlySaneIs DEF EntryInv, OrbitInv, MarksAreTrue, EntryIsSane
  <1> QED
    BY <1>1, <1>2, <1>3, PTL DEF BuilderSpec

-----------------------------------------------------------------------------
\* Searches for sources that stay in place.

\* Catalog sources stay where they are while they are searched for, and a turn has
\* more ticks than CrossesAt looks at.
StaysInPlace == \A s \in Distant, t \in Int : Ra(s, t) = Ra(s, 0) /\ HalfArc(s, t) = HalfArc(s, 0)

FineTicks == 4 <= TurnTicks

\* The hours that are left until a source is due.
Left(due, t) == Remainder(due - Lst(t), TurnTicks)

\* Hours to an event that comes at a time, modulo turns.
LEMMA HoursTo ==
    ASSUME NEW c \in Int, NEW at \in Int, NEW u \in Int, NEW j \in Int, at = c + TurnTicks * j
    PROVE  /\ Left(c, u) \in Int /\ -TurnTicks <= 2 * Left(c, u) /\ 2 * Left(c, u) <= TurnTicks
           /\ \E k \in Int : Left(c, u) = at - u - TurnTicks * k
  <1>1. TurnTicks \in Nat \ {0}
    BY CrossingAssumption
  <1>2. PICK i \in Int : Lst(u) = u - TurnTicks * i
    BY <1>1, ModIs DEF Lst
  <1>3. c - Lst(u) \in Int
    <2>1. TurnTicks * i \in Int
      BY <1>1, SMT
    <2> QED
      BY <1>2, <2>1
  <1>4. PICK k \in Int : Remainder(c - Lst(u), TurnTicks) = c - Lst(u) - TurnTicks * k
    BY <1>1, <1>3, RemainderIs
  <1>5. c - Lst(u) - TurnTicks * k = at - u - TurnTicks * (j + k - i)
    <2>1. TurnTicks * (j + k - i) = TurnTicks * j + TurnTicks * k - TurnTicks * i
      BY <1>1, SMT
    <2>2. TurnTicks * j \in Int /\ TurnTicks * k \in Int /\ TurnTicks * i \in Int
      BY <1>1, SMT
    <2> QED
      BY <1>2, <2>1, <2>2
  <1>6. j + k - i \in Int
    OBVIOUS
  <1> QED
    BY <1>1, <1>3, <1>4, <1>5, <1>6, RemainderBounds DEF Left

LEMMA DistantHours ==
    ASSUME MovesOn, StaysInPlace, NEW s \in Distant, NEW sign \in -1 .. 1, NEW v \in Int, NEW u \in Int,
           Arc(s, sign, v) # NoArc
    PROVE  Due(s, sign, v) \in Int /\ Hours(s, sign, u) = Left(Due(s, sign, v), u)
  <1> DEFINE ra == Ra(s, v)
             arc == sign * Arc(s, sign, v)
             lst == Lst(u)
  <1>1. Ra(s, u) = Ra(s, v) /\ Arc(s, sign, u) = Arc(s, sign, v)
    BY DEF StaysInPlace, Arc
  <1>2. Hours(s, sign, u) = Remainder((ra + arc) - lst, TurnTicks)
    BY <1>1 DEF Hours, Due
  <1>3. Ra(s, v) \in Int /\ Arc(s, sign, v) \in Int
    BY CrossingAssumption DEF MovesOn, Arc
  <1>4. ra \in Int /\ arc \in Int /\ lst \in Int
    BY <1>3, CrossingAssumption DEF Lst
  <1>5. Due(s, sign, v) = ra + arc
    BY DEF Due
  <1> HIDE DEF ra, arc, lst
  <1>6. Left(Due(s, sign, v), u) = Remainder((ra + arc) - lst, TurnTicks)
    BY <1>5 DEF Left, lst
  <1> QED
    BY <1>2, <1>4, <1>5, <1>6

\* A multiple of a turn that is less than one is none.
LEMMA NoTurn ==
    ASSUME NEW k \in Int, FineTicks, -TurnTicks < TurnTicks * k, TurnTicks * k < TurnTicks
    PROVE  TurnTicks * k = 0
  <1>1. TurnTicks \in Nat \ {0} /\ TurnTicks * k \in Int
    BY CrossingAssumption, SMT
  <1>2. k >= 1 => TurnTicks * k >= TurnTicks
    BY <1>1, SMT
  <1>3. k <= -1 => TurnTicks * k <= -TurnTicks
    <2>1. k <= -1 => TurnTicks * (-k) >= TurnTicks
      BY <1>1, SMT
    <2>2. TurnTicks * (-k) = -(TurnTicks * k)
      BY <1>1, SMT
    <2> QED
      BY <1>1, <2>1, <2>2
  <1>4. k = 0 => TurnTicks * k = 0
    BY <1>1
  <1> QED
    BY <1>1, <1>2, <1>3, <1>4

\* What stays in place crosses when its hours are over, and not within the turn before.
LEMMA NextOfDistant ==
    ASSUME MovesOn, StaysInPlace, FineTicks,
           NEW search, search.goal \in Distant, search.sign \in -1 .. 1, search.from \in Int,
           Arc(search.goal, search.sign, search.from) # NoArc,
           NEW at \in Int, search.from <= at, at < search.from + TurnTicks,
           NEW j \in Int, at = search.from + Hours(search.goal, search.sign, search.from) + TurnTicks * j
    PROVE  IsNextCrossing(search, at)
  <1> DEFINE s == search.goal
             sign == search.sign
             arc == Arc(s, sign, search.from)
             c == Due(s, sign, search.from)
             left(u) == Left(c, u)
  <1>1. s \in Sources /\ TurnTicks \in Nat \ {0} /\ Tolerance \in Nat /\ 4 <= TurnTicks
    BY CrossingAssumption DEF FineTicks
  <1>2. \A u \in Int : Arc(s, sign, u) = arc
    BY DEF StaysInPlace, Arc
  <1>3. arc \in Int /\ Ra(s, search.from) \in Int /\ arc # NoArc
    BY <1>1 DEF MovesOn, Arc
  <1>4. c \in Int
    BY <1>3, DistantHours
  <1>5. \A u \in Int : Hours(s, sign, u) = left(u)
    BY <1>3, DistantHours
  <1> HIDE DEF arc, s, sign
  <1> HIDE DEF c
  <1>6. \E i \in Int : at = c + TurnTicks * i
    <2>1. \E k \in Int : left(search.from) = c - search.from - TurnTicks * k
      <3>1. c = c + TurnTicks * 0
        BY <1>1, <1>4
      <3> QED
        BY <1>4, <3>1, HoursTo
    <2>2. PICK k \in Int : left(search.from) = c - search.from - TurnTicks * k
      BY <2>1
    <2>3. at = search.from + left(search.from) + TurnTicks * j
      BY <1>5 DEF s, sign
    <2>4. TurnTicks * (j - k) = TurnTicks * j - TurnTicks * k /\ TurnTicks * j \in Int /\ TurnTicks * k \in Int
      BY <1>1, SMT
    <2>5. at = c + TurnTicks * (j - k)
      BY <1>4, <2>2, <2>3, <2>4
    <2> QED
      BY <2>5
  <1>7. \A u \in Int : /\ left(u) \in Int /\ -TurnTicks <= 2 * left(u) /\ 2 * left(u) <= TurnTicks
                      /\ \E k \in Int : left(u) = at - u - TurnTicks * k
    BY <1>4, <1>6, HoursTo
  <1> HIDE DEF left
  <1>8. ASSUME NEW u \in Int, at - u \in -1 .. 0 PROVE left(u) = at - u
    <2>1. PICK k \in Int : left(u) = at - u - TurnTicks * k
      BY <1>7
    <2>2. /\ TurnTicks * k \in Int /\ left(u) \in Int
          /\ -TurnTicks <= 2 * left(u) /\ 2 * left(u) <= TurnTicks
      <3>1. TurnTicks * k \in Int
        BY <1>1, SMT
      <3> QED
        BY <1>7, <3>1
    <2>3. -TurnTicks < TurnTicks * k /\ TurnTicks * k < TurnTicks
      BY <1>1, <1>8, <2>1, <2>2, SMT
    <2>4. TurnTicks * k = 0
      BY <2>3, NoTurn
    <2> QED
      BY <2>1, <2>4
  <1>9. CrossesAt(s, sign, at)
    <2>1. left(at) = 0 /\ left(at + 1) = -1
      BY <1>8
    <2>2. Hours(s, sign, at) = 0 /\ Hours(s, sign, at + 1) = -1
      BY <1>5, <2>1
    <2>3. Arc(s, sign, at) # NoArc /\ Arc(s, sign, at + 1) # NoArc
      BY <1>2, <1>3
    <2> QED
      BY <2>2, <2>3 DEF CrossesAt
  <1>10. ASSUME NEW u \in search.from .. at - Slack - 1, CrossesAt(s, sign, u) PROVE FALSE
    <2>1. u \in Int /\ u + 1 \in Int /\ 1 <= at - u /\ at - u < TurnTicks
      BY <1>1 DEF Slack
    <2>2. left(u) \in 0 .. 2 /\ left(u + 1) \in -2 .. -1
      BY <1>5, <1>10, <2>1 DEF CrossesAt
    <2>3. PICK k \in Int : left(u) = at - u - TurnTicks * k
      BY <1>7, <2>1
    <2>4. PICK l \in Int : left(u + 1) = at - (u + 1) - TurnTicks * l
      BY <1>7, <2>1
    <2>5. TurnTicks * k \in Int /\ TurnTicks * l \in Int
      BY <1>1, SMT
    <2>6. TurnTicks * k = 0
      <3>1. -TurnTicks < TurnTicks * k /\ TurnTicks * k < TurnTicks
        BY <1>1, <2>1, <2>2, <2>3, <2>5
      <3> QED
        BY <3>1, NoTurn
    <2>7. at - u \in 1 .. 2
      BY <2>1, <2>2, <2>3, <2>6
    <2>8. TurnTicks * l \in 1 .. 3
      BY <2>1, <2>2, <2>4, <2>5, <2>7
    <2>9. TurnTicks * l = 0
      BY <1>1, <2>8, NoTurn
    <2> QED
      BY <2>8, <2>9
  <1>11. at \in at - Slack .. at + Slack
    BY <1>1 DEF Slack
  <1> QED
    BY <1>9, <1>10, <1>11 DEF IsNextCrossing, s, sign

DistantInv ==
    /\ SearchInv
    /\ crossing.goal \in Distant =>
          /\ crossing.outcome = "searching" => crossing.time = crossing.from
          /\ CrossingIsNext

\* The one estimate for a distant source, from where the search begins.
LEMMA DistantEstimate ==
    ASSUME MovesOn, StaysInPlace, FineTicks, DistantInv, crossing.goal \in Distant, EstimateCrossing
    PROVE  crossing'.outcome = "found" /\ CrossingIsNext'
  <1> DEFINE hours == Hours(crossing.goal, crossing.sign, crossing.from)
             t == crossing.from + hours
  <1>1. /\ crossing.time = crossing.from /\ crossing.from \in Int /\ crossing.sign \in -1 .. 1
        /\ crossing.goal \in Sources
        /\ Arc(crossing.goal, crossing.sign, crossing.from) # NoArc
    BY DEF DistantInv, EstimateCrossing, SearchInv
  <1>2. crossing' = Found(crossing, Later(crossing, t))
    BY <1>1 DEF EstimateCrossing
  <1>3. /\ crossing'.goal = crossing.goal /\ crossing'.sign = crossing.sign /\ crossing'.from = crossing.from
        /\ crossing'.time = Later(crossing, t) /\ crossing'.outcome = "found"
    BY <1>2 DEF Found, DistantInv, SearchInv
  <1>4. TurnTicks \in Nat \ {0} /\ SolarDay \in Nat /\ 4 <= TurnTicks
    BY CrossingAssumption DEF FineTicks
  <1>5. hours \in Int /\ -TurnTicks <= 2 * hours /\ 2 * hours <= TurnTicks
    <2>1. Arc(crossing.goal, crossing.sign, crossing.from) \in Int /\ Ra(crossing.goal, crossing.from) \in Int
      BY <1>1 DEF Arc, MovesOn
    <2>2. Lst(crossing.from) \in Int
      BY <1>1, <1>4 DEF Lst
    <2> DEFINE arc == Arc(crossing.goal, crossing.sign, crossing.from)
               toGo == Due(crossing.goal, crossing.sign, crossing.from) - Lst(crossing.from)
    <2>3. toGo \in Int
      <3>1. crossing.sign * arc \in Int
        <4>1. arc \in Int
          BY <2>1
        <4> HIDE DEF arc
        <4> QED
          BY <1>1, <4>1
      <3> QED
        BY <2>1, <2>2, <3>1 DEF Due
    <2>4. hours = Remainder(toGo, TurnTicks)
      BY DEF Hours
    <2> HIDE DEF toGo
    <2> QED
      BY <1>4, <2>3, <2>4, RemainderBounds
  <1>6. CASE hours >= 0
    <2>1. t \in Int /\ crossing.from <= t /\ t < crossing.from + TurnTicks /\ crossing'.time = t
      <3> HIDE DEF hours
      <3> QED
        BY <1>1, <1>3, <1>4, <1>5, <1>6 DEF Later
    <2>2. t = crossing.from + hours + TurnTicks * 0
      BY <1>1, <1>4, <1>5
    <2> HIDE DEF t
    <2>3. t = crossing'.from + Hours(crossing'.goal, crossing'.sign, crossing'.from) + TurnTicks * 0
      BY <1>3, <2>2
    <2>4. IsNextCrossing(crossing', t)
      BY <1>1, <1>3, <2>1, <2>3, NextOfDistant
    <2> QED
      BY <1>3, <2>1, <2>4 DEF CrossingIsNext, IsNextCrossing, CrossesAt
  <1>7. CASE hours < 0
    <2> DEFINE at == t + TurnTicks
    <2>1. /\ at \in Int /\ crossing.from <= at /\ at < crossing.from + TurnTicks
          /\ crossing'.time - (SolarDay - TurnTicks) = at
      <3> HIDE DEF hours
      <3> QED
        BY <1>1, <1>3, <1>4, <1>5, <1>7 DEF Later
    <2>2. at = crossing.from + hours + TurnTicks * 1
      BY <1>1, <1>4, <1>5
    <2> HIDE DEF at
    <2>3. at = crossing'.from + Hours(crossing'.goal, crossing'.sign, crossing'.from) + TurnTicks * 1
      BY <1>3, <2>2
    <2>4. IsNextCrossing(crossing', at)
      BY <1>1, <1>3, <2>1, <2>3, NextOfDistant
    <2> QED
      BY <1>3, <2>1, <2>4 DEF CrossingIsNext, IsNextCrossing, CrossesAt
  <1> QED
    BY <1>3, <1>5, <1>6, <1>7

LEMMA DistantStep ==
    MovesOn /\ StaysInPlace /\ FineTicks /\ DistantInv /\ [CrossingNext]_searchVars => DistantInv'
  <1> SUFFICES ASSUME MovesOn, StaysInPlace, FineTicks, DistantInv, [CrossingNext]_searchVars
               PROVE  DistantInv'
    OBVIOUS
  <1>1. SearchInv /\ SearchInv'
    BY SearchStep DEF DistantInv
  <1>2. CASE EstimateCrossing
    <2>1. crossing'.goal = crossing.goal
      BY <1>1, <1>2 DEF EstimateCrossing, Found, GoesOn, SearchInv
    <2> QED
      BY <1>1, <1>2, <2>1, DistantEstimate DEF DistantInv
  <1>3. CASE NeverCrosses \/ CrossingFails
    BY <1>1, <1>3 DEF NeverCrosses, CrossingFails, Ends, SearchInv, DistantInv, CrossingIsNext
  <1>4. CASE SeekAgain
    BY <1>1, <1>4 DEF SeekAgain, Search, DistantInv, CrossingIsNext
  <1>5. CASE UNCHANGED searchVars
    BY <1>5 DEF searchVars, DistantInv, SearchInv, CrossingIsNext
  <1> QED
    BY <1>2, <1>3, <1>4, <1>5 DEF CrossingNext

\* For stars and other catalog sources novas_cross_el_date() finds the next time that
\* they rise, set or transit in one estimate, wherever they are and for any length of
\* the day; but for the solar day, in place of a turn of the sky, by which it puts off an
\* event that was before the time of the frame.
THEOREM DistantCrossings ==
    ASSUME MovesOn, StaysInPlace, FineTicks
    PROVE  CrossingSpec => [](crossing.goal \in Distant => CrossingIsNext)
  <1>1. SearchInit => DistantInv
    BY CrossingAssumption DEF SearchInit, Search, SearchInv, DistantInv, CrossingIsNext
  <1>2. DistantInv => (crossing.goal \in Distant => CrossingIsNext)
    BY DEF DistantInv
  <1> QED
    BY <1>1, <1>2, DistantStep, PTL DEF CrossingSpec

-----------------------------------------------------------------------------
\* Aims that are taken again, at what goes on at about the rate it was taken to.

\* A set that has 0, and with a number the next, has all of them.
LEMMA NatSet ==
    ASSUME NEW S, 0 \in S, \A n \in Nat : n \in S => n + 1 \in S
    PROVE  Nat \subseteq S
<1> DEFINE Out == Nat \ S
           R == {ss \in Nat \X Nat : ss[1] < ss[2]}
<1>1. IsWellFoundedOn(R, Nat)
  BY NatLessThanWellFounded, Zenon DEF OpToRel
<1>2. SUFFICES ASSUME Out # {} PROVE FALSE
  OBVIOUS
<1>3. Out \subseteq Nat
  OBVIOUS
<1> HIDE DEF Out, R
<1>4. PICK x \in Out : \A y \in Out : <<y, x>> \notin R
  BY <1>1, <1>2, <1>3, WFMin
<1> USE DEF Out, R
<1>5. x \in Nat /\ x # 0 /\ x - 1 \in Nat
  OBVIOUS
<1>6. x - 1 \in S
  <2>1. <<x - 1, x>> \in R
    BY <1>5
  <2> QED
    BY <1>4, <1>5, <2>1
<1> QED
  BY <1>5, <1>6

\* What goes on at half the rate of time or more, and at most half again as fast,
\* in whole ticks.
Paced(f) ==
    /\ f \in [Int -> Int]
    /\ \A t, u \in Int : t <= u => 2 * (f[u] - f[t]) \in (u - t) - 1 .. 3 * (u - t) + 1

LEMMA PaceOf ==
    ASSUME NEW f, Paced(f), NEW t \in Int, NEW u \in Int, t <= u
    PROVE  /\ f[t] \in Int /\ f[u] \in Int
           /\ u - t - 1 <= 2 * (f[u] - f[t]) /\ 2 * (f[u] - f[t]) <= 3 * (u - t) + 1
  <1>1. 2 * (f[u] - f[t]) \in (u - t) - 1 .. 3 * (u - t) + 1
    BY DEF Paced
  <1>2. f[t] \in Int /\ f[u] \in Int
    BY DEF Paced
  <1> QED
    BY <1>1, <1>2

\* It reaches a goal between a tick and the next, which it was not at before and is at later.
LEMMA Passes ==
    ASSUME NEW f \in [Int -> Int], NEW g \in Int, NEW a \in Int, NEW n \in Nat,
           f[a] <= g, g < f[a + n]
    PROVE  \E u \in a .. a + n - 1 : f[u] <= g /\ g < f[u + 1]
  <1> DEFINE S == {m \in Nat : g < f[a + m] => \E u \in a .. a + m - 1 : f[u] <= g /\ g < f[u + 1]}
  <1>1. 0 \in S
    BY DEF S
  <1>2. ASSUME NEW m \in Nat, m \in S PROVE m + 1 \in S
    <2> SUFFICES ASSUME g < f[a + (m + 1)]
                 PROVE  \E u \in a .. a + (m + 1) - 1 : f[u] <= g /\ g < f[u + 1]
      OBVIOUS
    <2>1. CASE g < f[a + m]
      <3>1. PICK u \in a .. a + m - 1 : f[u] <= g /\ g < f[u + 1]
        BY <1>2, <2>1
      <3>2. u \in a .. a + (m + 1) - 1
        OBVIOUS
      <3> QED
        BY <3>1, <3>2
    <2>2. CASE f[a + m] <= g
      <3>1. a + m \in a .. a + (m + 1) - 1 /\ (a + m) + 1 = a + (m + 1)
        OBVIOUS
      <3> QED
        BY <2>2, <3>1
    <2>3. f[a + m] \in Int
      OBVIOUS
    <2> QED
      BY <2>1, <2>2, <2>3
  <1>3. n \in S
    <2> HIDE DEF S
    <2> QED
      BY <1>1, <1>2, NatSet
  <1> QED
    BY <1>3

\* Once aimed at, the goal is at most half as far off as it was.
LEMMA Halves ==
    ASSUME NEW f, Paced(f), NEW g \in Int, NEW t \in Int, NEW u \in Int, u = t + (g - f[t])
    PROVE  2 * Magnitude(g - f[u]) <= Magnitude(g - f[t]) + 1
  <1>1. f[t] \in Int /\ f[u] \in Int
    BY DEF Paced
  <1>2. CASE t <= u
    <2>1. u - t - 1 <= 2 * (f[u] - f[t]) /\ 2 * (f[u] - f[t]) <= 3 * (u - t) + 1
      BY <1>2, PaceOf
    <2> QED
      BY <1>1, <1>2, <2>1 DEF Magnitude
  <1>3. CASE u <= t
    <2>1. t - u - 1 <= 2 * (f[t] - f[u]) /\ 2 * (f[t] - f[u]) <= 3 * (t - u) + 1
      BY <1>3, PaceOf
    <2> QED
      BY <1>1, <1>3, <2>1 DEF Magnitude
  <1> QED
    BY <1>1, <1>2, <1>3

\* The tick in which the goal is reached, with what is left of the way at its ends.
Reached(f, g, u) == g - f[u] \in 0 .. 1 /\ g - f[u + 1] \in -2 .. -1

LEMMA ReachedIn ==
    ASSUME NEW f, Paced(f), NEW g \in Int, NEW a \in Int, NEW b \in Int, f[a] <= g, g < f[b + 1], a <= b
    PROVE  \E u \in a .. b : Reached(f, g, u)
  <1>1. f \in [Int -> Int]
    BY DEF Paced
  <1>2. b + 1 - a \in Nat /\ a + (b + 1 - a) = b + 1 /\ a + (b + 1 - a) - 1 = b
    OBVIOUS
  <1> DEFINE n == b + 1 - a
  <1>3. n \in Nat /\ a + n = b + 1 /\ a + n - 1 = b
    BY <1>2
  <1> HIDE DEF n
  <1>4. g < f[a + n]
    BY <1>3
  <1>5. PICK u \in a .. a + n - 1 : f[u] <= g /\ g < f[u + 1]
    BY <1>1, <1>3, <1>4, Passes
  <1>6. u \in a .. b /\ u \in Int /\ u + 1 \in Int /\ u <= u + 1
    BY <1>3
  <1>7. f[u] \in Int /\ f[u + 1] \in Int /\ 2 * (f[u + 1] - f[u]) <= 3 * ((u + 1) - u) + 1
    BY <1>6, PaceOf
  <1>8. Reached(f, g, u)
    BY <1>5, <1>6, <1>7 DEF Reached
  <1> QED
    BY <1>6, <1>8

\* Where the goal is no further off than the tolerance, it is reached about then.
LEMMA ReachedAbout ==
    ASSUME NEW f, Paced(f), NEW g \in Int, NEW at \in Int, NEW tol \in Nat, Magnitude(g - f[at]) <= tol
    PROVE  \E u \in at - (2 * tol + 1) .. at + (2 * tol + 1) : Reached(f, g, u)
  <1> DEFINE a == at - (2 * tol + 1)
             b == at + (2 * tol + 1)
  <1>1. a \in Int /\ b \in Int /\ b + 1 \in Int /\ a <= at /\ at <= b + 1 /\ a <= b
        /\ at - a = 2 * tol + 1 /\ (b + 1) - at = 2 * tol + 2
    OBVIOUS
  <1> HIDE DEF a, b
  <1>2. f[a] \in Int /\ f[at] \in Int /\ at - a - 1 <= 2 * (f[at] - f[a])
    BY <1>1, PaceOf
  <1>3. f[b + 1] \in Int /\ (b + 1) - at - 1 <= 2 * (f[b + 1] - f[at])
    BY <1>1, PaceOf
  <1>4. f[a] <= g /\ g < f[b + 1]
    BY <1>1, <1>2, <1>3 DEF Magnitude
  <1>5. \E u \in a .. b : Reached(f, g, u)
    BY <1>1, <1>4, ReachedIn
  <1> QED
    BY <1>5 DEF a, b

\* Aims taken from before the goal was reached, or not much longer after than it took
\* to get there, do not lead back to before the beginning.
LEMMA StaysAfter ==
    ASSUME NEW f, Paced(f), NEW g \in Int, NEW from \in Int, NEW root \in Int, from < root, Reached(f, g, root),
           NEW t \in from .. 2 * root - from + 1
    PROVE  t + (g - f[t]) \in from .. 2 * root - from + 1
  <1>1. f[t] \in Int /\ f[root] \in Int /\ t \in Int
    BY DEF Paced
  <1>2. g - f[root] \in 0 .. 1
    BY DEF Reached
  <1>3. CASE t <= root
    <2>1. root - t - 1 <= 2 * (f[root] - f[t]) /\ 2 * (f[root] - f[t]) <= 3 * (root - t) + 1
      BY <1>1, <1>3, PaceOf
    <2> QED
      BY <1>1, <1>2, <1>3, <2>1
  <1>4. CASE root <= t
    <2>1. t - root - 1 <= 2 * (f[t] - f[root]) /\ 2 * (f[t] - f[root]) <= 3 * (t - root) + 1
      BY <1>1, <1>4, PaceOf
    <2> QED
      BY <1>1, <1>2, <1>4, <2>1
  <1> QED
    BY <1>1, <1>3, <1>4
\* Only no multiple of a period is smaller than it.
LEMMA SmallMultiple ==
    ASSUME NEW d \in Nat \ {0}, NEW k \in Int, -d < d * k, d * k < d
    PROVE  k = 0
  <1>1. ASSUME k >= 1 PROVE FALSE
    <2>1. d * k >= d
      BY <1>1
    <2> QED
      BY <2>1
  <1>2. ASSUME k <= -1 PROVE FALSE
    <2>1. d * k <= -d
      BY <1>2
    <2> QED
      BY <2>1
  <1> QED
    BY <1>1, <1>2

\* What is left of the way to the goal or to one a number of periods from it, by the
\* shortest way.
Leaves(left, f, g, d) ==
    /\ left \in [Int -> Int]
    /\ \A t \in Int : /\ -d <= 2 * left[t] /\ 2 * left[t] <= d
                      /\ \E k \in Int : left[t] = (g - f[t]) - d * k

LEMMA LeftIs ==
    ASSUME NEW f \in [Int -> Int], NEW g \in Int, NEW d \in Nat \ {0}, NEW left, Leaves(left, f, g, d),
           NEW t \in Int, 2 * Magnitude(g - f[t]) < d
    PROVE  left[t] = g - f[t]
  <1>1. PICK k \in Int : left[t] = (g - f[t]) - d * k
    BY DEF Leaves
  <1>2. left[t] \in Int /\ f[t] \in Int /\ -d <= 2 * left[t] /\ 2 * left[t] <= d
    BY DEF Leaves
  <1> DEFINE p == d * k
  <1>3. p \in Int
    OBVIOUS
  <1> HIDE DEF p
  <1>4. left[t] = (g - f[t]) - p
    BY <1>1 DEF p
  <1>5. -d < p /\ p < d
    BY <1>2, <1>3, <1>4 DEF Magnitude
  <1>6. k = 0
    BY <1>5, SmallMultiple DEF p
  <1>7. p = 0
    BY <1>6 DEF p
  <1> QED
    BY <1>2, <1>4, <1>7

\* What is left passes nothing, and not by going once round.
Passed(left, u) == left[u] \in 0 .. 2 /\ left[u + 1] \in -2 .. -1

LEMMA PassedIsNext ==
    ASSUME NEW f, Paced(f), NEW g \in Int, NEW d \in Nat, 4 < d, NEW left, Leaves(left, f, g, d),
           NEW from \in Int, NEW at \in Int, NEW tol \in Nat, Magnitude(g - f[at]) <= tol, g < f[from] + d
    PROVE  /\ \E u \in at - (2 * tol + 1) .. at + (2 * tol + 1) : Passed(left, u)
           /\ \A u \in from .. at - (2 * tol + 1) - 1 : ~Passed(left, u)
  <1>1. f \in [Int -> Int] /\ d \in Nat \ {0}
    <2>1. f \in [Int -> Int]
      BY DEF Paced
    <2> QED
      BY <2>1
  <1>2. \E u \in at - (2 * tol + 1) .. at + (2 * tol + 1) : Passed(left, u)
    <2>1. PICK u \in at - (2 * tol + 1) .. at + (2 * tol + 1) : Reached(f, g, u)
      BY ReachedAbout
    <2>2. u \in Int /\ u + 1 \in Int /\ f[u] \in Int /\ f[u + 1] \in Int
      BY <1>1
    <2>3. 2 * Magnitude(g - f[u]) < d /\ 2 * Magnitude(g - f[u + 1]) < d
      BY <2>1, <2>2 DEF Magnitude, Reached
    <2>4. left[u] = g - f[u] /\ left[u + 1] = g - f[u + 1]
      BY <1>1, <2>2, <2>3, LeftIs
    <2> QED
      BY <2>1, <2>4 DEF Passed, Reached
  <1>3. ASSUME NEW u \in from .. at - (2 * tol + 1) - 1, Passed(left, u) PROVE FALSE
    <2>1. u \in Int /\ u + 1 \in Int /\ from <= u /\ u <= u + 1 /\ u + 1 <= at /\ 2 * tol + 1 <= at - (u + 1)
      OBVIOUS
    <2>2. PICK j \in Int : left[u] = (g - f[u]) - d * j
      BY <2>1 DEF Leaves
    <2>3. PICK k \in Int : left[u + 1] = (g - f[u + 1]) - d * k
      BY <2>1 DEF Leaves
    <2>4. PICK p \in Int, q \in Int : p = d * j /\ q = d * k /\ q - p = d * (k - j) /\ k - j \in Int
      <3>1. d * j \in Int /\ d * k \in Int /\ d * k - d * j = d * (k - j) /\ k - j \in Int
        OBVIOUS
      <3> QED
        BY <3>1
    <2>5. left[u] = (g - f[u]) - p /\ left[u + 1] = (g - f[u + 1]) - q
      BY <2>2, <2>3, <2>4
    <2>6. /\ f[from] \in Int /\ f[u] \in Int /\ f[u + 1] \in Int /\ f[at] \in Int
          /\ (u - from) - 1 <= 2 * (f[u] - f[from])
          /\ (u + 1 - u) - 1 <= 2 * (f[u + 1] - f[u]) /\ 2 * (f[u + 1] - f[u]) <= 3 * (u + 1 - u) + 1
          /\ (at - (u + 1)) - 1 <= 2 * (f[at] - f[u + 1])
      <3>1. 2 * (f[u] - f[from]) \in (u - from) - 1 .. 3 * (u - from) + 1
        BY <2>1 DEF Paced
      <3>2. 2 * (f[u + 1] - f[u]) \in ((u + 1) - u) - 1 .. 3 * ((u + 1) - u) + 1
        BY <2>1 DEF Paced
      <3>3. 2 * (f[at] - f[u + 1]) \in (at - (u + 1)) - 1 .. 3 * (at - (u + 1)) + 1
        BY <2>1 DEF Paced
      <3> QED
        BY <1>1, <2>1, <3>1, <3>2, <3>3
    <2>7. left[u] \in 0 .. 2 /\ left[u + 1] \in -2 .. -1
      BY <1>3 DEF Passed
    <2>8. -d < q - p /\ q - p < d
      BY <2>1, <2>5, <2>6, <2>7
    <2>9. k - j = 0
      BY <1>1, <2>4, <2>8, SmallMultiple
    <2>10. p = q
      BY <2>4, <2>9
    <2>11. 2 * tol <= 2 * (f[at] - f[u + 1])
      BY <2>1, <2>6
    <2>12. 0 < q
      BY <2>5, <2>6, <2>7, <2>11 DEF Magnitude
    <2>13. q >= d
      <3>1. ASSUME k <= 0 PROVE FALSE
        <4>1. d * k <= 0
          BY <3>1
        <4> QED
          BY <2>4, <2>12, <4>1
      <3>2. ASSUME k >= 1 PROVE d * k >= d
        BY <3>2
      <3> QED
        BY <2>4, <3>1, <3>2
    <2>14. f[from] <= f[u]
      BY <2>1, <2>6
    <2> QED
      BY <2>5, <2>6, <2>7, <2>10, <2>13, <2>14
  <1> QED
    BY <1>2, <1>3

\* An estimate after so many is off by so much.
LEMMA OffBy ==
    ASSUME NEW a \in Int, NEW b \in Int, NEW m \in Nat, NEW n \in Nat,
           2 * Magnitude(b) <= Magnitude(a) + 1, Magnitude(a) <= m, m <= 2 * n
    PROVE  Magnitude(b) <= n
  <1>1. Magnitude(a) \in Int /\ Magnitude(b) \in Int
    BY DEF Magnitude
  <1> QED
    BY <1>1

\* The same is left of the way to another of these goals.
LEMMA LeavesOthers ==
    ASSUME NEW f \in [Int -> Int], NEW g \in Int, NEW d \in Nat \ {0}, NEW left, Leaves(left, f, g, d),
           NEW j \in Int, NEW h \in Int, h = g + d * j
    PROVE  Leaves(left, f, h, d)
  <1> SUFFICES ASSUME NEW t \in Int PROVE \E k \in Int : left[t] = (h - f[t]) - d * k
    BY DEF Leaves
  <1>1. PICK k \in Int : left[t] = (g - f[t]) - d * k
    BY DEF Leaves
  <1>2. d * (k + j) = d * k + d * j /\ d * k \in Int /\ d * j \in Int /\ k + j \in Int
    OBVIOUS
  <1> DEFINE p == d * k
             q == d * j
             r == d * (k + j)
  <1>3. r = p + q /\ p \in Int /\ q \in Int
    BY <1>2
  <1>4. left[t] = (g - f[t]) - p /\ h = g + q
    BY <1>1
  <1> HIDE DEF p, q, r
  <1>5. left[t] = (h - f[t]) - r
    BY <1>3, <1>4
  <1> QED
    BY <1>2, <1>5 DEF r

\* What is left now leads to a goal.
LEMMA LeadsToGoal ==
    ASSUME NEW f \in [Int -> Int], NEW g \in Int, NEW d \in Nat \ {0}, NEW left, Leaves(left, f, g, d), NEW t \in Int
    PROVE  Leaves(left, f, f[t] + left[t], d) /\ Leaves(left, f, f[t] + left[t] + d, d)
  <1>1. PICK k \in Int : left[t] = (g - f[t]) - d * k
    BY DEF Leaves
  <1>2. d * k \in Int /\ d * (-k) = -(d * k) /\ d * (1 - k) = d - d * k
    OBVIOUS
  <1>3. left[t] \in Int /\ f[t] \in Int
    BY DEF Leaves
  <1> DEFINE p == d * k
             q == d * (-k)
             r == d * (1 - k)
             a == f[t] + left[t]
             b == f[t] + left[t] + d
  <1>4. q = -p /\ r = d - p /\ p \in Int /\ left[t] = (g - f[t]) - p
    BY <1>1, <1>2
  <1> HIDE DEF p, q, r
  <1>5. a = g + q /\ b = g + r /\ a \in Int /\ b \in Int
    BY <1>3, <1>4
  <1> HIDE DEF a, b
  <1>6. a = g + d * (-k) /\ b = g + d * (1 - k) /\ -k \in Int /\ 1 - k \in Int
    BY <1>5 DEF q, r
  <1>7. Leaves(left, f, a, d) /\ Leaves(left, f, b, d)
    BY <1>5, <1>6, LeavesOthers
  <1> QED
    BY <1>7 DEF a, b

-----------------------------------------------------------------------------
\* Searches for phases of the Moon.

\* The Moon is at whole ticks, of which a lunation has more than IsPhaseAt looks at.
FineMonth == 4 < Lunation /\ 1 <= Tolerance /\ Phases \subseteq Int /\ \A t \in Int : Elongation(t) \in Int

MoonMoves == FineMonth /\ KeepsPace(Int)

Moon == [t \in Int |-> Elongation(t)]
PhaseLeft(phase) == [t \in Int |-> Ahead(phase, t)]

LEMMA MoonIs ==
    ASSUME MoonMoves
    PROVE  /\ Paced(Moon) /\ Moon \in [Int -> Int] /\ \A t \in Int : Moon[t] = Elongation(t)
           /\ \A phase \in Phases : /\ phase \in Int
                                    /\ Leaves(PhaseLeft(phase), Moon, phase, Lunation)
                                    /\ \A t \in Int : PhaseLeft(phase)[t] = Ahead(phase, t)
           /\ Lunation \in Nat /\ Lunation \in Nat \ {0} /\ 4 < Lunation
           /\ Tolerance \in Nat /\ 1 <= Tolerance /\ MaxIter \in Nat \ {0}
  <1>1. Moon \in [Int -> Int] /\ \A t \in Int : Moon[t] = Elongation(t)
    BY DEF Moon, MoonMoves, FineMonth
  <1>2. Paced(Moon)
    BY <1>1 DEF Paced, MoonMoves, KeepsPace
  <1>3. /\ Lunation \in Nat /\ Lunation \in Nat \ {0} /\ 4 < Lunation
        /\ Tolerance \in Nat /\ 1 <= Tolerance /\ MaxIter \in Nat \ {0}
    BY CrossingAssumption DEF MoonMoves, FineMonth
  <1>4. ASSUME NEW phase \in Phases
        PROVE  /\ phase \in Int
               /\ Leaves(PhaseLeft(phase), Moon, phase, Lunation)
               /\ \A t \in Int : PhaseLeft(phase)[t] = Ahead(phase, t)
    <2>1. phase \in Int
      BY DEF MoonMoves, FineMonth
    <2>2. \A t \in Int : PhaseLeft(phase)[t] = Remainder(phase - Moon[t], Lunation)
      BY <1>1 DEF PhaseLeft, Ahead
    <2>3. ASSUME NEW t \in Int
          PROVE  /\ PhaseLeft(phase)[t] \in Int
                 /\ -Lunation <= 2 * PhaseLeft(phase)[t] /\ 2 * PhaseLeft(phase)[t] <= Lunation
                 /\ \E k \in Int : PhaseLeft(phase)[t] = (phase - Moon[t]) - Lunation * k
      <3> DEFINE way == phase - Moon[t]
      <3>1. way \in Int
        BY <1>1, <2>1
      <3>2. PhaseLeft(phase)[t] = Remainder(way, Lunation)
        BY <2>2
      <3>3. \E k \in Int : Remainder(way, Lunation) = way - Lunation * k
        <4> HIDE DEF way
        <4> QED
          BY <1>3, <3>1, RemainderIs
      <3>4. /\ Remainder(way, Lunation) \in Int
            /\ -Lunation <= 2 * Remainder(way, Lunation) /\ 2 * Remainder(way, Lunation) <= Lunation
        <4> HIDE DEF way
        <4> QED
          BY <1>3, <3>1, RemainderBounds
      <3> QED
        BY <3>2, <3>3, <3>4
    <2>4. PhaseLeft(phase) \in [Int -> Int]
      BY <2>3 DEF PhaseLeft
    <2>5. Leaves(PhaseLeft(phase), Moon, phase, Lunation)
      BY <2>3, <2>4 DEF Leaves
    <2> QED
      BY <2>1, <2>5 DEF PhaseLeft
  <1> QED
    BY <1>1, <1>2, <1>3, <1>4

\* A search on its way to a goal that is the first after its beginning.
Aims(left, f, g, d, from, at, by) ==
    /\ Leaves(left, f, g, d)
    /\ f[from] <= g /\ g < f[from] + d
    /\ 2 * Magnitude(g - f[at]) < d /\ Magnitude(g - f[at]) <= by

PhaseFound(goal, from, at) ==
    /\ from <= at
    /\ \E t \in at - Slack .. at + Slack : IsPhaseAt(goal, t)
    /\ \A t \in from .. at - Slack - 1 : ~IsPhaseAt(goal, t)

PhaseInv(off) ==
    /\ lunar = [goal |-> lunar.goal, sign |-> lunar.sign, from |-> lunar.from, time |-> lunar.time,
                tries |-> lunar.tries, outcome |-> lunar.outcome]
    /\ lunar.goal \in Phases /\ lunar.from \in Int /\ lunar.time \in Int
    /\ lunar.outcome # "cancelled"
    /\ lunar.outcome = "searching" =>
          /\ lunar.tries \in 0 .. MaxIter - 1
          /\ lunar.tries = 0 => lunar.time = lunar.from
          /\ lunar.tries # 0 =>
                \E g \in Int :
                   /\ Aims(PhaseLeft(lunar.goal), Moon, g, Lunation, lunar.from, lunar.time, off[lunar.tries])
                   /\ Moon[lunar.from] + Tolerance < g
    /\ lunar.outcome = "found" => PhaseFound(lunar.goal, lunar.from, lunar.time)

\* A time within the tolerance of a goal that is the first after another time.
LEMMA PhaseIsFound ==
    ASSUME MoonMoves, NEW goal \in Phases, NEW from \in Int, NEW at \in Int, from <= at, NEW g \in Int,
           Leaves(PhaseLeft(goal), Moon, g, Lunation), Magnitude(g - Moon[at]) <= Tolerance,
           g < Moon[from] + Lunation
    PROVE  PhaseFound(goal, from, at)
  <1> DEFINE left == PhaseLeft(goal)
  <1>1. /\ \E u \in at - (2 * Tolerance + 1) .. at + (2 * Tolerance + 1) : Passed(left, u)
        /\ \A u \in from .. at - (2 * Tolerance + 1) - 1 : ~Passed(left, u)
    <2>1. Leaves(left, Moon, g, Lunation)
      OBVIOUS
    <2> HIDE DEF left
    <2> QED
      BY <2>1, MoonIs, PassedIsNext
  <1>2. Tolerance \in Nat /\ \A t \in Int : left[t] = Ahead(goal, t)
    BY MoonIs
  <1> HIDE DEF left
  <1>3. \A u \in Int : Passed(left, u) <=> IsPhaseAt(goal, u)
    BY <1>2 DEF Passed, IsPhaseAt
  <1>4. Slack = 2 * Tolerance + 1 /\ Slack \in Int
    BY <1>2 DEF Slack
  <1> QED
    BY <1>1, <1>3, <1>4 DEF PhaseFound

\* What an estimate does to a search.
LEMMA PhaseMoves ==
    ASSUME NEW off, PhaseInv(off), EstimatePhase, NEW phi, phi = Ahead(lunar.goal, lunar.time)
    PROVE  /\ lunar'.goal = lunar.goal /\ lunar'.from = lunar.from
           /\ lunar' = [goal |-> lunar'.goal, sign |-> lunar'.sign, from |-> lunar'.from, time |-> lunar'.time,
                        tries |-> lunar'.tries, outcome |-> lunar'.outcome]
           /\ IsNear(phi) => lunar'.outcome = "found" /\ lunar'.time = lunar.time
           /\ ~IsNear(phi) =>
                 /\ lunar'.time = lunar.time + FirstForward(lunar, phi)
                 /\ lunar'.tries = lunar.tries + 1
                 /\ lunar'.outcome = IF lunar.tries + 1 = MaxIter THEN "cancelled" ELSE "searching"
  BY DEF PhaseInv, EstimatePhase, Found, GoesOn

\* The first estimate ends the search where it begins, or takes it to half a lunation
\* or nearer to the next time of the phase.
LEMMA FirstEstimate ==
    ASSUME MoonMoves, NEW off, Halving(off, Lunation), PhaseInv(off), EstimatePhase, lunar.tries = 0
    PROVE  PhaseInv(off)'
  <1> DEFINE goal == lunar.goal
             from == lunar.from
             left == PhaseLeft(goal)
             phi == left[from]
             way == FirstForward(lunar, phi)
             g == Moon[from] + way
             at == from + way
  <1>1. /\ goal \in Phases /\ from \in Int /\ lunar.time = from /\ lunar.outcome = "searching"
    BY DEF PhaseInv, EstimatePhase
  <1>2. /\ Paced(Moon) /\ Moon \in [Int -> Int] /\ goal \in Int /\ Leaves(left, Moon, goal, Lunation)
        /\ Lunation \in Nat \ {0} /\ 4 < Lunation
        /\ Tolerance \in Nat /\ 1 <= Tolerance /\ MaxIter \in Nat \ {0}
    BY <1>1, MoonIs
  <1>3. phi = Ahead(goal, lunar.time)
    BY <1>1, MoonIs
  <1>4. phi \in Int /\ -Lunation <= 2 * phi /\ 2 * phi <= Lunation /\ Moon[from] \in Int
    BY <1>1, <1>2 DEF Leaves
  <1>5. Leaves(left, Moon, Moon[from] + phi, Lunation) /\ Leaves(left, Moon, Moon[from] + phi + Lunation, Lunation)
    <2>1. from \in Int
      BY <1>1
    <2> HIDE DEF left, from, goal
    <2> QED
      BY <1>2, <2>1, LeadsToGoal
  <1>6. /\ lunar'.goal = goal /\ lunar'.from = from
        /\ lunar' = [goal |-> lunar'.goal, sign |-> lunar'.sign, from |-> lunar'.from, time |-> lunar'.time,
                     tries |-> lunar'.tries, outcome |-> lunar'.outcome]
        /\ IsNear(phi) => lunar'.outcome = "found" /\ lunar'.time = from
        /\ ~IsNear(phi) =>
              /\ lunar'.time = at
              /\ lunar'.tries = 1
              /\ lunar'.outcome = IF MaxIter = 1 THEN "cancelled" ELSE "searching"
    <2>1. lunar.tries + 1 = 1
      OBVIOUS
    <2> HIDE DEF left
    <2> QED
      BY <1>1, <1>3, <2>1, PhaseMoves
  <1>7. CASE IsNear(phi)
    <2>1. lunar'.outcome = "found" /\ lunar'.time = from
      BY <1>6, <1>7
    <2>2. Magnitude((Moon[from] + phi) - Moon[from]) <= Tolerance
      BY <1>2, <1>4, <1>7 DEF IsNear, Magnitude
    <2>3. Moon[from] + phi < Moon[from] + Lunation /\ from <= from /\ Moon[from] + phi \in Int
      BY <1>1, <1>2, <1>4
    <2>4. PhaseFound(goal, from, from)
      <3> HIDE DEF phi, from, goal
      <3> QED
        BY <1>1, <1>5, <2>2, <2>3, PhaseIsFound DEF left
    <2> QED
      BY <1>1, <1>6, <2>1, <2>4 DEF PhaseInv
  <1>8. CASE ~IsNear(phi)
    <2>1. way \in Int /\ Tolerance < way /\ way + Tolerance < Lunation
      <3>1. phi > Tolerance \/ phi < -Tolerance
        BY <1>2, <1>4, <1>8 DEF IsNear
      <3> HIDE DEF phi
      <3> QED
        BY <1>2, <1>4, <3>1 DEF FirstForward
    <2>2. Leaves(left, Moon, g, Lunation)
      <3>1. g = Moon[from] + phi \/ g = Moon[from] + phi + Lunation
        <4>1. way = phi \/ way = phi + Lunation
          BY DEF FirstForward
        <4> HIDE DEF phi, way
        <4> QED
          BY <1>2, <1>4, <2>1, <4>1
      <3> HIDE DEF g, phi
      <3> QED
        BY <1>5, <3>1
    <2> HIDE DEF phi, way
    <2>3. g \in Int /\ at \in Int /\ at = from + (g - Moon[from])
      BY <1>1, <1>4, <2>1
    <2>4. Moon[from] <= g /\ g < Moon[from] + Lunation /\ Moon[from] + Tolerance < g
          /\ Magnitude(g - Moon[from]) = way
      BY <1>2, <1>4, <2>1 DEF Magnitude
    <2> HIDE DEF g, at
    <2>5. 2 * Magnitude(g - Moon[at]) <= Magnitude(g - Moon[from]) + 1
      BY <1>1, <1>2, <2>3, Halves
    <2>6. Magnitude(g - Moon[at]) \in Int
      BY <1>2, <2>3 DEF Magnitude
    <2>7. 2 * Magnitude(g - Moon[at]) < Lunation
      BY <1>2, <2>1, <2>4, <2>5, <2>6
    <2>8. off[0] = Lunation /\ off[MaxIter - 1] <= Tolerance /\ MaxIter # 1
          /\ off[1] \in Nat /\ off[0] <= 2 * off[1]
      <3>1. off[0] = Lunation /\ off[MaxIter - 1] <= Tolerance
        BY DEF Halving
      <3>2. MaxIter # 1
        BY <1>2, <2>1, <3>1
      <3>3. 1 \in 0 .. MaxIter - 1 /\ 1 \in 1 .. MaxIter - 1 /\ 1 - 1 = 0
        BY <1>2, <3>2
      <3> QED
        BY <3>1, <3>2, <3>3 DEF Halving
    <2>9. Magnitude(g - Moon[at]) <= off[1]
      BY <1>2, <2>6, <2>7, <2>8
    <2>10. Aims(left, Moon, g, Lunation, from, at, off[1])
      BY <2>2, <2>4, <2>7, <2>9 DEF Aims
    <2>11. lunar'.time = at /\ lunar'.tries = 1 /\ lunar'.outcome = "searching" /\ 1 \in 0 .. MaxIter - 1
      BY <1>2, <1>6, <1>8, <2>8
    <2>12. \E h \in Int : /\ Aims(PhaseLeft(lunar'.goal), Moon, h, Lunation, lunar'.from, lunar'.time, off[lunar'.tries])
                          /\ Moon[lunar'.from] + Tolerance < h
      BY <1>6, <2>3, <2>4, <2>10, <2>11
    <2> QED
      BY <1>1, <1>6, <2>3, <2>11, <2>12 DEF PhaseInv
  <1> QED
    BY <1>7, <1>8

\* Any other ends it near its goal, or takes it there by half of what was left.
LEMMA OtherEstimate ==
    ASSUME MoonMoves, NEW off, Halving(off, Lunation), PhaseInv(off), EstimatePhase, lunar.tries # 0
    PROVE  PhaseInv(off)'
  <1> DEFINE goal == lunar.goal
             from == lunar.from
             left == PhaseLeft(goal)
             time == lunar.time
             n == lunar.tries
  <1>1. /\ goal \in Phases /\ from \in Int /\ time \in Int /\ lunar.outcome = "searching"
        /\ n \in 0 .. MaxIter - 1 /\ n # 0
    BY DEF PhaseInv, EstimatePhase
  <1>2. PICK g \in Int : Aims(left, Moon, g, Lunation, from, time, off[n]) /\ Moon[from] + Tolerance < g
    BY DEF PhaseInv, EstimatePhase
  <1>3. /\ Paced(Moon) /\ Moon \in [Int -> Int] /\ \A t \in Int : left[t] = Ahead(goal, t)
        /\ Lunation \in Nat \ {0} /\ 4 < Lunation
        /\ Tolerance \in Nat /\ 1 <= Tolerance /\ MaxIter \in Nat \ {0}
    BY <1>1, MoonIs
  <1> DEFINE phi == g - Moon[time]
             at == time + phi
  <1>4. /\ Leaves(left, Moon, g, Lunation) /\ Moon[from] <= g /\ g < Moon[from] + Lunation
        /\ 2 * Magnitude(phi) < Lunation /\ Magnitude(phi) <= off[n]
    BY <1>2 DEF Aims
  <1>5. Moon[time] \in Int /\ Moon[from] \in Int /\ phi \in Int
    BY <1>1, <1>2, <1>3
  <1>6. phi = Ahead(goal, time)
    <2>1. left[time] = g - Moon[time]
      <3> HIDE DEF left, time
      <3> QED
        BY <1>1, <1>2, <1>3, <1>4, LeftIs
    <2> QED
      BY <1>1, <1>3, <2>1
  <1>7. FirstForward(lunar, phi) = phi
    BY <1>1 DEF FirstForward
  <1>8. /\ lunar'.goal = goal /\ lunar'.from = from
        /\ lunar' = [goal |-> lunar'.goal, sign |-> lunar'.sign, from |-> lunar'.from, time |-> lunar'.time,
                     tries |-> lunar'.tries, outcome |-> lunar'.outcome]
        /\ IsNear(phi) => lunar'.outcome = "found" /\ lunar'.time = time
        /\ ~IsNear(phi) =>
              /\ lunar'.time = at
              /\ lunar'.tries = n + 1
              /\ lunar'.outcome = IF n + 1 = MaxIter THEN "cancelled" ELSE "searching"
    <2> HIDE DEF left
    <2> QED
      BY <1>6, <1>7, PhaseMoves
  <1>9. IsNear(phi) <=> Magnitude(phi) <= Tolerance
    <2> HIDE DEF phi
    <2> QED
      BY <1>3, <1>5 DEF IsNear, Magnitude
  <1>10. CASE IsNear(phi)
    <2>1. lunar'.outcome = "found" /\ lunar'.time = time
      BY <1>8, <1>10
    <2>2. Magnitude(phi) <= Tolerance
      BY <1>9, <1>10
    <2>3. from <= time
      <3>1. ASSUME time < from PROVE FALSE
        <4>1. (from - time) - 1 <= 2 * (Moon[from] - Moon[time])
          <5>1. from \in Int /\ time \in Int /\ time <= from
            BY <1>1, <3>1
          <5> HIDE DEF from, time
          <5>2. from - time - 1 <= 2 * (Moon[from] - Moon[time])
            BY <1>3, <5>1, PaceOf
          <5> QED
            BY <1>5, <5>1, <5>2
        <4>2. g - Moon[time] <= Tolerance
          BY <1>3, <1>5, <2>2 DEF Magnitude
        <4> QED
          BY <1>1, <1>2, <1>3, <1>5, <3>1, <4>1, <4>2
      <3> QED
        BY <1>1, <3>1
    <2>4. PhaseFound(goal, from, time)
      BY <1>1, <1>2, <1>4, <2>2, <2>3, PhaseIsFound
    <2> QED
      BY <1>1, <1>8, <2>1, <2>4 DEF PhaseInv
  <1>11. CASE ~IsNear(phi)
    <2>1. at \in Int /\ at = time + (g - Moon[time]) /\ Moon[at] \in Int
      BY <1>1, <1>3, <1>5
    <2>2. n + 1 # MaxIter
      <3>1. off[MaxIter - 1] <= Tolerance /\ off[MaxIter - 1] \in Nat
        BY <1>3 DEF Halving
      <3>2. n + 1 = MaxIter => n = MaxIter - 1
        BY <1>1, <1>3
      <3>3. Magnitude(phi) \in Int
        BY <1>5 DEF Magnitude
      <3> QED
        BY <1>3, <1>4, <1>9, <1>11, <3>1, <3>2, <3>3
    <2>3. n + 1 \in 1 .. MaxIter - 1
      BY <1>1, <1>3, <2>2
    <2>4. off[n] \in Nat /\ off[n + 1] \in Nat /\ off[n] <= 2 * off[n + 1]
      <3>1. (n + 1) - 1 = n
        BY <1>1
      <3> QED
        BY <1>1, <2>3, <3>1 DEF Halving
    <2> HIDE DEF at
    <2>5. 2 * Magnitude(g - Moon[at]) <= Magnitude(g - Moon[time]) + 1
      <3> HIDE DEF time
      <3> QED
        BY <1>1, <1>2, <1>3, <2>1, Halves
    <2>6. Magnitude(g - Moon[at]) <= off[n + 1]
      <3> DEFINE b == g - Moon[at]
      <3>1. b \in Int /\ 2 * Magnitude(b) <= Magnitude(phi) + 1
        BY <1>2, <2>1, <2>5
      <3> HIDE DEF b, phi
      <3>2. Magnitude(b) <= off[n + 1]
        BY <1>4, <1>5, <2>4, <3>1, OffBy
      <3> QED
        BY <3>2 DEF b
    <2>7. 2 * Magnitude(g - Moon[at]) < Lunation
      <3>1. Magnitude(g - Moon[at]) \in Int /\ Magnitude(phi) \in Int
        BY <1>2, <1>5, <2>1 DEF Magnitude
      <3> QED
        BY <1>3, <1>4, <2>5, <3>1
    <2>8. Aims(left, Moon, g, Lunation, from, at, off[n + 1])
      BY <1>4, <2>6, <2>7 DEF Aims
    <2>9. lunar'.time = at /\ lunar'.tries = n + 1 /\ lunar'.outcome = "searching"
          /\ n + 1 \in 0 .. MaxIter - 1 /\ n + 1 # 0
      BY <1>1, <1>3, <1>8, <1>11, <2>2, <2>3 DEF at
    <2>10. \E h \in Int : /\ Aims(PhaseLeft(lunar'.goal), Moon, h, Lunation, lunar'.from, lunar'.time, off[lunar'.tries])
                          /\ Moon[lunar'.from] + Tolerance < h
      BY <1>2, <1>8, <2>8, <2>9
    <2> QED
      BY <1>1, <1>8, <2>1, <2>9, <2>10 DEF PhaseInv
  <1> QED
    BY <1>10, <1>11

LEMMA PhaseStep ==
    ASSUME MoonMoves, NEW off, Halving(off, Lunation), PhaseInv(off), [PhaseNext]_searchVars
    PROVE  PhaseInv(off)'
  <1>1. CASE EstimatePhase
    BY <1>1, FirstEstimate, OtherEstimate
  <1>2. CASE PhaseFails
    BY <1>2 DEF PhaseFails, Ends, PhaseInv
  <1>3. CASE PhaseAgain
    <2>1. PICK from \in Starts : lunar' = Search(lunar.goal, 0, from)
      BY <1>3 DEF PhaseAgain
    <2>2. from \in Int /\ MaxIter \in Nat \ {0}
      BY CrossingAssumption
    <2> QED
      BY <2>1, <2>2 DEF Search, PhaseInv
  <1>4. CASE UNCHANGED searchVars
    BY <1>4 DEF searchVars, PhaseInv
  <1> QED
    BY <1>1, <1>2, <1>3, <1>4 DEF PhaseNext

\* Whatever phase it is asked for, and from whenever, novas_next_moon_phase() finds the
\* next time of it, and within novas_inv_max_iter estimates, although these go by the
\* mean lunation: if the Moon goes at half its mean rate or more and at most half again
\* as fast, which its eccentric orbit does not take it near.
THEOREM PhasesAreNext ==
    ASSUME MoonMoves, EnoughTries(Lunation) PROVE PhaseSpec => []PhaseIsNext
  <1>1. PICK off : Halving(off, Lunation)
    BY DEF EnoughTries
  <1>2. SearchInit => PhaseInv(off)
    <2> SUFFICES ASSUME SearchInit PROVE PhaseInv(off)
      OBVIOUS
    <2>1. PICK phase \in Phases, from \in Starts : lunar = Search(phase, 0, from)
      BY DEF SearchInit
    <2>2. from \in Int /\ MaxIter \in Nat \ {0}
      BY CrossingAssumption
    <2> QED
      BY <2>1, <2>2 DEF Search, PhaseInv
  <1>3. PhaseInv(off) /\ [PhaseNext]_searchVars => PhaseInv(off)'
    BY <1>1, PhaseStep
  <1>4. PhaseInv(off) => PhaseIsNext
    BY DEF PhaseInv, PhaseIsNext, PhaseFound
  <1> QED
    BY <1>2, <1>3, <1>4, PTL DEF PhaseSpec

-----------------------------------------------------------------------------
\* Searches for crossings of sources that move.

\* A turn has more ticks than CrossesAt looks at, of which the tolerance is less than
\* half; and the day is not much longer than it.
FineTurn ==
    /\ 4 < TurnTicks /\ 1 <= Tolerance /\ 2 * Tolerance < TurnTicks
    /\ 6 * (SolarDay - TurnTicks) + 5 <= TurnTicks

SourcesMove == FineTurn /\ MovesOn /\ AreSlow(Int)

\* The time since a source was due, and the hours to when it is.
Since(s, sign) == [t \in Int |-> t - Due(s, sign, t)]
HoursLeft(s, sign) == [t \in Int |-> Hours(s, sign, t)]

LEMMA FineTurnIs ==
    ASSUME FineTurn
    PROVE  /\ TurnTicks \in Nat /\ TurnTicks \in Nat \ {0} /\ 4 < TurnTicks
           /\ Tolerance \in Nat /\ 1 <= Tolerance /\ 2 * Tolerance < TurnTicks
           /\ SolarDay \in Nat /\ SolarDay - TurnTicks >= 1
           /\ 6 * (SolarDay - TurnTicks) + 5 <= TurnTicks
           /\ MaxIter \in Nat \ {0}
  <1>1. TurnTicks \in Nat \ {0} /\ Tolerance \in Nat /\ SolarDay \in Nat /\ TurnTicks < SolarDay /\ MaxIter \in Nat \ {0}
    BY CrossingAssumption
  <1> QED
    BY <1>1 DEF FineTurn

LEMMA SinceIs ==
    ASSUME SourcesMove, NEW s \in Sources, NEW sign \in -1 .. 1, NEW v \in Int, Arc(s, sign, v) # NoArc
    PROVE  /\ \A t \in Int : Arc(s, sign, t) # NoArc
           /\ Since(s, sign) \in [Int -> Int] /\ Paced(Since(s, sign))
           /\ \A t, u \in Int : t <= u =>
                 4 * (Since(s, sign)[u] - Since(s, sign)[t]) \in 3 * (u - t) - 3 .. 5 * (u - t) + 3
           /\ Leaves(HoursLeft(s, sign), Since(s, sign), 0, TurnTicks)
           /\ \A t \in Int : HoursLeft(s, sign)[t] = Hours(s, sign, t)
  <1> DEFINE f == Since(s, sign)
             left == HoursLeft(s, sign)
             due(t) == Due(s, sign, t)
  <1>1. \A t, u \in Int :
           /\ Arc(s, sign, t) # NoArc
           /\ t <= u => 4 * (Due(s, sign, u) - Due(s, sign, t)) \in -(u - t) - 3 .. (u - t) + 3
    BY DEF SourcesMove, AreSlow
  <1>2. \A t \in Int : Arc(s, sign, t) # NoArc
    BY <1>1, Zenon
  <1>3. ASSUME NEW t \in Int PROVE due(t) \in Int
    <2>1. Ra(s, t) \in Int /\ Arc(s, sign, t) \in Int
      BY <1>2 DEF SourcesMove, MovesOn, Arc
    <2>2. sign * Arc(s, sign, t) \in Int
      <3> DEFINE arc == Arc(s, sign, t)
      <3>1. arc \in Int
        BY <2>1
      <3> HIDE DEF arc
      <3>2. sign * arc \in Int
        BY <3>1
      <3> QED
        BY <3>2 DEF arc
    <2> QED
      BY <2>1, <2>2 DEF Due
  <1> HIDE DEF due
  <1>4. f \in [Int -> Int] /\ \A t \in Int : f[t] = t - due(t)
    BY <1>3 DEF Since, due
  <1>5. \A t \in Int : left[t] = Hours(s, sign, t)
    BY DEF HoursLeft
  <1> HIDE DEF f
  <1>6. ASSUME NEW t \in Int, NEW u \in Int, t <= u
        PROVE  /\ 4 * (f[u] - f[t]) \in 3 * (u - t) - 3 .. 5 * (u - t) + 3
               /\ 2 * (f[u] - f[t]) \in (u - t) - 1 .. 3 * (u - t) + 1
    <2>1. due(t) \in Int /\ due(u) \in Int /\ f[t] = t - due(t) /\ f[u] = u - due(u)
      BY <1>3, <1>4
    <2>2. 4 * (due(u) - due(t)) \in -(u - t) - 3 .. (u - t) + 3
      BY <1>1, <1>6, Zenon DEF due
    <2> QED
      BY <1>6, <2>1, <2>2
  <1>7. Paced(f)
    BY <1>4, <1>6 DEF Paced
  <1>8. ASSUME NEW t \in Int
        PROVE  /\ left[t] \in Int /\ -TurnTicks <= 2 * left[t] /\ 2 * left[t] <= TurnTicks
               /\ \E k \in Int : left[t] = (0 - f[t]) - TurnTicks * k
    <2>1. due(t) \in Int /\ TurnTicks \in Nat \ {0}
      BY <1>3, FineTurnIs DEF SourcesMove
    <2>2. PICK i \in Int : Lst(t) = t - TurnTicks * i
      BY <2>1, ModIs DEF Lst
    <2> DEFINE way == due(t) - Lst(t)
    <2>3. TurnTicks * i \in Int
      BY <2>1, SMT
    <2>4. way \in Int
      BY <2>1, <2>2, <2>3
    <2>5. left[t] = Remainder(way, TurnTicks)
      BY <1>5 DEF Hours, due
    <2> HIDE DEF way
    <2>6. /\ Remainder(way, TurnTicks) \in Int
          /\ -TurnTicks <= 2 * Remainder(way, TurnTicks) /\ 2 * Remainder(way, TurnTicks) <= TurnTicks
      BY <2>1, <2>4, RemainderBounds
    <2>7. PICK k \in Int : Remainder(way, TurnTicks) = way - TurnTicks * k
      BY <2>1, <2>4, RemainderIs
    <2>8. TurnTicks * (k - i) = TurnTicks * k - TurnTicks * i /\ TurnTicks * k \in Int /\ k - i \in Int
      BY <2>1, SMT
    <2> DEFINE p == TurnTicks * i
               q == TurnTicks * k
               r == TurnTicks * (k - i)
    <2>9. r = q - p /\ p \in Int /\ q \in Int
      BY <2>3, <2>8
    <2>10. left[t] = way - q /\ Lst(t) = t - p
      BY <2>2, <2>5, <2>7
    <2> HIDE DEF p, q, r
    <2>11. left[t] = (0 - f[t]) - r
      BY <1>4, <2>1, <2>9, <2>10 DEF way
    <2> QED
      BY <2>5, <2>6, <2>8, <2>11 DEF r
  <1>9. left \in [Int -> Int]
    BY <1>8 DEF HoursLeft
  <1>10. Leaves(left, f, 0, TurnTicks)
    BY <1>8, <1>9 DEF Leaves
  <1> QED
    BY <1>2, <1>4, <1>5, <1>6, <1>7, <1>10 DEF f

\* A time within the tolerance of a goal that is the first after another time.
LEMMA CrossingIsFound ==
    ASSUME SourcesMove, NEW search, search.goal \in Sources, search.sign \in -1 .. 1, search.from \in Int,
           Arc(search.goal, search.sign, search.from) # NoArc, NEW at \in Int, NEW g \in Int,
           Leaves(HoursLeft(search.goal, search.sign), Since(search.goal, search.sign), g, TurnTicks),
           Magnitude(g - Since(search.goal, search.sign)[at]) <= Tolerance,
           g < Since(search.goal, search.sign)[search.from] + TurnTicks
    PROVE  IsNextCrossing(search, at)
  <1> DEFINE left == HoursLeft(search.goal, search.sign)
             f == Since(search.goal, search.sign)
             from == search.from
  <1>1. /\ \A t \in Int : Arc(search.goal, search.sign, t) # NoArc
        /\ \A t \in Int : left[t] = Hours(search.goal, search.sign, t)
        /\ Paced(f)
    BY SinceIs
  <1>2. TurnTicks \in Nat /\ 4 < TurnTicks /\ Tolerance \in Nat
    BY FineTurnIs DEF SourcesMove
  <1>3. /\ \E u \in at - (2 * Tolerance + 1) .. at + (2 * Tolerance + 1) : Passed(left, u)
        /\ \A u \in from .. at - (2 * Tolerance + 1) - 1 : ~Passed(left, u)
    <2>1. Leaves(left, f, g, TurnTicks) /\ from \in Int /\ Magnitude(g - f[at]) <= Tolerance /\ g < f[from] + TurnTicks
      OBVIOUS
    <2> HIDE DEF left, f, from
    <2> QED
      BY <1>1, <1>2, <2>1, PassedIsNext
  <1> HIDE DEF left
  <1>4. \A u \in Int : Passed(left, u) <=> CrossesAt(search.goal, search.sign, u)
    BY <1>1 DEF Passed, CrossesAt
  <1>5. Slack = 2 * Tolerance + 1 /\ Slack \in Int
    BY <1>2 DEF Slack
  <1> QED
    BY <1>2, <1>3, <1>4, <1>5 DEF IsNextCrossing

\* The goal is reached after the beginning, if it is not there.
LEMMA RootAfter ==
    ASSUME NEW f, Paced(f), NEW from \in Int, NEW way \in Nat, 2 <= way
    PROVE  \E root \in Int : from < root /\ Reached(f, f[from] + way, root)
  <1> DEFINE b == from + 2 * way + 1
             g == f[from] + way
  <1>1. f[from] \in Int /\ g \in Int /\ b \in Int /\ b + 1 \in Int /\ from <= b + 1 /\ from <= b
        /\ (b + 1) - from = 2 * way + 2
    BY DEF Paced
  <1> HIDE DEF b
  <1>2. f[b + 1] \in Int /\ (b + 1) - from - 1 <= 2 * (f[b + 1] - f[from])
    BY <1>1, PaceOf
  <1>3. f[from] <= g /\ g < f[b + 1]
    BY <1>1, <1>2
  <1> HIDE DEF g
  <1>4. PICK root \in from .. b : Reached(f, g, root)
    BY <1>1, <1>3, ReachedIn
  <1>5. root # from
    BY <1>1, <1>4 DEF Reached, g
  <1> QED
    BY <1>1, <1>4, <1>5 DEF g

\* A search that is on its way, and will not look before its beginning.
OnItsWay(search, g, root, by) ==
    LET f == Since(search.goal, search.sign)
    IN  /\ Aims(HoursLeft(search.goal, search.sign), f, g, TurnTicks, search.from, search.time, by)
        /\ search.from < root /\ Reached(f, g, root)
        /\ search.time \in search.from .. 2 * root - search.from + 1

MoverInv(off) ==
    /\ SearchInv
    /\ crossing.goal \notin Distant =>
          /\ crossing.outcome # "cancelled"
          /\ crossing.outcome = "searching" =>
                /\ crossing.tries \in 0 .. MaxIter - 1
                /\ crossing.tries = 0 => crossing.time = crossing.from
                /\ crossing.tries # 0 =>
                      /\ Arc(crossing.goal, crossing.sign, crossing.from) # NoArc
                      /\ \E g, root \in Int : OnItsWay(crossing, g, root, off[crossing.tries])
          /\ crossing.outcome = "found" => IsNextCrossing(crossing, crossing.time)

\* What an estimate does to a search.
LEMMA CrossingMoves ==
    ASSUME SearchInv, EstimateCrossing, crossing.goal \notin Distant, NEW hours,
           hours = Hours(crossing.goal, crossing.sign, crossing.time),
           NEW t, t = crossing.time + hours,
           NEW moved, moved = IF t < crossing.from THEN hours + TurnTicks ELSE hours
    PROVE  /\ crossing'.goal = crossing.goal /\ crossing'.from = crossing.from /\ crossing'.sign = crossing.sign
           /\ crossing'.time = Later(crossing, t)
           /\ IsNear(moved) => crossing'.outcome = "found"
           /\ ~IsNear(moved) =>
                 /\ crossing'.tries = crossing.tries + 1
                 /\ crossing'.outcome = IF crossing.tries + 1 = MaxIter THEN "cancelled" ELSE "searching"
  <1>1. MovedHours(crossing, t) = moved
    BY DEF MovedHours
  <1>2. crossing.outcome = "searching"
    BY DEF EstimateCrossing
  <1>3. crossing' = IF IsNear(moved) THEN Found(crossing, Later(crossing, t)) ELSE GoesOn(crossing, Later(crossing, t))
    BY <1>1 DEF EstimateCrossing
  <1>4. CASE IsNear(moved)
    BY <1>3, <1>4 DEF Found, SearchInv
  <1>5. CASE ~IsNear(moved)
    BY <1>2, <1>3, <1>5 DEF GoesOn, SearchInv
  <1> QED
    BY <1>4, <1>5

\* What there is to know of a search at the beginning of an estimate.
LEMMA MoverIs ==
    ASSUME SourcesMove, NEW off, MoverInv(off), EstimateCrossing, crossing.goal \notin Distant
    PROVE  /\ crossing.goal \in Sources /\ crossing.sign \in -1 .. 1 /\ crossing.from \in Int /\ crossing.time \in Int
           /\ crossing.outcome = "searching" /\ crossing.tries \in 0 .. MaxIter - 1
           /\ Arc(crossing.goal, crossing.sign, crossing.from) # NoArc
           /\ Since(crossing.goal, crossing.sign) \in [Int -> Int] /\ Paced(Since(crossing.goal, crossing.sign))
           /\ Leaves(HoursLeft(crossing.goal, crossing.sign), Since(crossing.goal, crossing.sign), 0, TurnTicks)
           /\ HoursLeft(crossing.goal, crossing.sign)[crossing.time]
                 = Hours(crossing.goal, crossing.sign, crossing.time)
  <1>1. /\ crossing.goal \in Sources /\ crossing.sign \in -1 .. 1 /\ crossing.from \in Int /\ crossing.time \in Int
        /\ crossing.outcome = "searching" /\ crossing.tries \in 0 .. MaxIter - 1
        /\ Arc(crossing.goal, crossing.sign, crossing.time) # NoArc
        /\ crossing.tries = 0 => crossing.time = crossing.from
    BY DEF MoverInv, SearchInv, EstimateCrossing
  <1>2. Arc(crossing.goal, crossing.sign, crossing.from) # NoArc
    BY <1>1 DEF MoverInv
  <1> QED
    BY <1>1, <1>2, SinceIs

\* The estimates come closer.
LEMMA TriesSuffice ==
    ASSUME FineTurn, NEW off, NEW range, Halving(off, range), NEW n \in 0 .. MaxIter - 1, NEW way \in Int,
           Magnitude(way) <= off[n], Magnitude(way) > Tolerance
    PROVE  n + 1 # MaxIter /\ n + 1 \in 1 .. MaxIter - 1 /\ off[n] \in Nat /\ off[n + 1] \in Nat /\ off[n] <= 2 * off[n + 1]
  <1>1. MaxIter \in Nat \ {0} /\ Tolerance \in Nat
    BY CrossingAssumption
  <1>2. off[MaxIter - 1] <= Tolerance /\ off[MaxIter - 1] \in Nat /\ off[n] \in Nat
    BY <1>1 DEF Halving
  <1>3. n + 1 # MaxIter
    <2>1. n + 1 = MaxIter => n = MaxIter - 1
      BY <1>1
    <2>2. Magnitude(way) \in Int
      BY DEF Magnitude
    <2> QED
      BY <1>1, <1>2, <2>1, <2>2
  <1>4. n + 1 \in 1 .. MaxIter - 1 /\ n + 1 \in 0 .. MaxIter - 1 /\ (n + 1) - 1 = n
    BY <1>1, <1>3
  <1>5. off[n + 1] \in Nat /\ off[n] <= 2 * off[n + 1]
    BY <1>4 DEF Halving
  <1> QED
    BY <1>2, <1>3, <1>4, <1>5

\* The first estimate, to a time that is not before the one given.
LEMMA FirstAhead ==
    ASSUME SourcesMove, NEW off, Halving(off, TurnTicks), MoverInv(off), EstimateCrossing,
           crossing.goal \notin Distant, crossing.tries = 0,
           Hours(crossing.goal, crossing.sign, crossing.time) >= 0
    PROVE  MoverInv(off)'
  <1> DEFINE goal == crossing.goal
             sign == crossing.sign
             from == crossing.from
             left == HoursLeft(goal, sign)
             f == Since(goal, sign)
             hours == Hours(goal, sign, crossing.time)
             at == from + hours
             g == f[from] + hours
  <1>1. /\ goal \in Sources /\ sign \in -1 .. 1 /\ from \in Int /\ crossing.time = from
        /\ Arc(goal, sign, from) # NoArc
        /\ f \in [Int -> Int] /\ Paced(f) /\ Leaves(left, f, 0, TurnTicks) /\ left[from] = hours
    <2>1. crossing.time = from
      BY DEF MoverInv, EstimateCrossing
    <2> QED
      BY <2>1, MoverIs
  <1>2. /\ TurnTicks \in Nat \ {0} /\ 4 < TurnTicks /\ Tolerance \in Nat /\ 1 <= Tolerance /\ MaxIter \in Nat \ {0}
    BY FineTurnIs DEF SourcesMove
  <1>3. hours \in Int /\ hours >= 0 /\ 2 * hours <= TurnTicks /\ f[from] \in Int
    <2>1. left[from] \in Int /\ 2 * left[from] <= TurnTicks
      BY <1>1 DEF Leaves
    <2> QED
      BY <1>1, <2>1
  <1>4. Leaves(left, f, g, TurnTicks)
    <2>1. left[from] = hours
      BY <1>1
    <2> HIDE DEF left, f, from, hours
    <2>2. Leaves(left, f, f[from] + left[from], TurnTicks)
      BY <1>1, <1>2, LeadsToGoal
    <2> QED
      BY <2>1, <2>2
  <1>5. at \in Int /\ ~(at < from) /\ at = from + (g - f[from]) /\ g \in Int /\ g - f[from] = hours
        /\ f[from] <= g /\ g < f[from] + TurnTicks /\ Magnitude(g - f[from]) = hours
    <2> HIDE DEF hours, f, from
    <2> QED
      BY <1>1, <1>2, <1>3 DEF Magnitude
  <1>6. SearchInv /\ SearchInv'
    BY SearchStep DEF MoverInv, CrossingNext, SourcesMove
  <1>7. /\ crossing'.goal = goal /\ crossing'.from = from /\ crossing'.sign = sign /\ crossing'.time = at
        /\ IsNear(hours) => crossing'.outcome = "found"
        /\ ~IsNear(hours) =>
              /\ crossing'.tries = 1
              /\ crossing'.outcome = IF MaxIter = 1 THEN "cancelled" ELSE "searching"
    <2>1. crossing.tries + 1 = 1 /\ at = crossing.time + hours /\ hours = IF at < from THEN hours + TurnTicks ELSE hours
      BY <1>1, <1>5
    <2>2. Later(crossing, at) = at
      BY <1>5 DEF Later
    <2> QED
      BY <1>6, <2>1, <2>2, CrossingMoves
  <1>8. 2 * Magnitude(g - f[at]) <= Magnitude(g - f[from]) + 1
    <2> HIDE DEF f, from, at, g
    <2> QED
      BY <1>1, <1>5, Halves
  <1> DEFINE rest == g - f[at]
  <1>9. rest \in Int /\ 2 * Magnitude(rest) <= hours + 1 /\ Magnitude(rest) \in Nat
    <2>1. f[at] \in Int
      BY <1>1, <1>5
    <2>2. rest \in Int
      BY <1>5, <2>1
    <2> HIDE DEF g, f, at, hours, from
    <2> QED
      BY <1>5, <1>8, <2>2 DEF Magnitude
  <1>10. CASE IsNear(hours)
    <2>1. Magnitude(rest) <= Tolerance
      <3> HIDE DEF hours, rest
      <3> QED
        BY <1>2, <1>3, <1>9, <1>10 DEF IsNear
    <2>2. IsNextCrossing(crossing', at)
      <3>1. /\ crossing'.goal \in Sources /\ crossing'.sign \in -1 .. 1 /\ crossing'.from \in Int
            /\ Arc(crossing'.goal, crossing'.sign, crossing'.from) # NoArc
            /\ Leaves(HoursLeft(crossing'.goal, crossing'.sign), Since(crossing'.goal, crossing'.sign), g, TurnTicks)
            /\ Magnitude(g - Since(crossing'.goal, crossing'.sign)[at]) <= Tolerance
            /\ g < Since(crossing'.goal, crossing'.sign)[crossing'.from] + TurnTicks
        BY <1>1, <1>4, <1>5, <1>7, <2>1
      <3> HIDE DEF at, g
      <3> QED
        BY <1>5, <3>1, CrossingIsFound
    <2>3. IsNextCrossing(crossing', crossing'.time)
      BY <1>7, <2>2
    <2> QED
      BY <1>6, <1>7, <1>10, <2>3 DEF MoverInv
  <1>11. CASE ~IsNear(hours)
    <2>1. hours \in Nat /\ hours > Tolerance /\ 2 <= hours
      <3> HIDE DEF hours
      <3> QED
        BY <1>2, <1>3, <1>11 DEF IsNear
    <2>2. off[0] = TurnTicks /\ 0 \in 0 .. MaxIter - 1
      BY <1>2 DEF Halving
    <2>3. 0 + 1 # MaxIter /\ off[1] \in Nat /\ off[0] <= 2 * off[1]
      <3>1. Magnitude(hours) = hours
        BY <1>3 DEF Magnitude
      <3>2. Magnitude(hours) <= off[0] /\ Magnitude(hours) > Tolerance
        <4> HIDE DEF hours
        <4> QED
          BY <1>2, <1>3, <2>1, <2>2, <3>1
      <3>3. FineTurn
        BY DEF SourcesMove
      <3>4. 0 + 1 = 1
        OBVIOUS
      <3> HIDE DEF hours
      <3> QED
        BY <1>3, <2>2, <3>2, <3>3, <3>4, TriesSuffice
    <2>4. Magnitude(rest) <= off[1] /\ 2 * Magnitude(rest) < TurnTicks
      <3> HIDE DEF rest, hours
      <3> QED
        BY <1>2, <1>3, <1>9, <2>2, <2>3
    <2>5. PICK root \in Int : from < root /\ Reached(f, g, root)
      <3> HIDE DEF f, from, hours
      <3> QED
        BY <1>1, <2>1, RootAfter
    <2>6. at \in from .. 2 * root - from + 1
      <3>1. from \in from .. 2 * root - from + 1
        BY <1>1, <2>5
      <3> HIDE DEF f, from, at, g
      <3>2. from + (g - f[from]) \in from .. 2 * root - from + 1
        BY <1>1, <1>5, <2>5, <3>1, StaysAfter
      <3> QED
        BY <1>5, <3>2
    <2>7. Aims(left, f, g, TurnTicks, from, at, off[1])
      BY <1>4, <1>5, <2>4 DEF Aims
    <2>8. crossing'.tries = 1 /\ crossing'.outcome = "searching" /\ 1 \in 0 .. MaxIter - 1
      BY <1>2, <1>7, <1>11, <2>3
    <2>9. OnItsWay(crossing', g, root, off[crossing'.tries])
      BY <1>7, <2>5, <2>6, <2>7, <2>8 DEF OnItsWay
    <2>10. \E h, r \in Int : OnItsWay(crossing', h, r, off[crossing'.tries])
      BY <1>5, <2>5, <2>9
    <2>11. Arc(crossing'.goal, crossing'.sign, crossing'.from) # NoArc
      BY <1>1, <1>7
    <2> QED
      BY <1>6, <2>8, <2>10, <2>11 DEF MoverInv
  <1> QED
    BY <1>10, <1>11

\* The first estimate, when the source has crossed before the time given and does so
\* again on the next day.  That is put off by a day, not by a turn.
LEMMA FirstBehind ==
    ASSUME SourcesMove, NEW off, Halving(off, TurnTicks), MoverInv(off), EstimateCrossing,
           crossing.goal \notin Distant, crossing.tries = 0,
           Hours(crossing.goal, crossing.sign, crossing.time) < 0
    PROVE  MoverInv(off)'
  <1> DEFINE goal == crossing.goal
             sign == crossing.sign
             from == crossing.from
             left == HoursLeft(goal, sign)
             f == Since(goal, sign)
             hours == Hours(goal, sign, crossing.time)
             way == hours + TurnTicks
             mean == from + way
             more == SolarDay - TurnTicks
             at == mean + more
             g == f[from] + way
  <1>1. /\ goal \in Sources /\ sign \in -1 .. 1 /\ from \in Int /\ crossing.time = from
        /\ Arc(goal, sign, from) # NoArc
        /\ f \in [Int -> Int] /\ Paced(f) /\ Leaves(left, f, 0, TurnTicks) /\ left[from] = hours
    <2>1. crossing.time = from
      BY DEF MoverInv, EstimateCrossing
    <2> QED
      BY <2>1, MoverIs
  <1>2. /\ TurnTicks \in Nat \ {0} /\ 4 < TurnTicks /\ Tolerance \in Nat /\ 1 <= Tolerance
        /\ 2 * Tolerance < TurnTicks /\ MaxIter \in Nat \ {0}
        /\ SolarDay \in Nat /\ more \in Nat /\ more >= 1 /\ 6 * more + 5 <= TurnTicks
    BY FineTurnIs DEF SourcesMove
  <1>3. hours \in Int /\ hours < 0 /\ -TurnTicks <= 2 * hours /\ f[from] \in Int
    <2>1. left[from] \in Int /\ -TurnTicks <= 2 * left[from]
      BY <1>1 DEF Leaves
    <2> QED
      BY <1>1, <2>1
  <1>4. /\ way \in Nat /\ 2 <= way /\ TurnTicks <= 2 * way /\ way < TurnTicks /\ way > Tolerance
        /\ g \in Int /\ g - f[from] = way /\ mean \in Int /\ from <= mean /\ mean - from = way
        /\ at \in Int /\ at = from + hours + SolarDay /\ at = mean + more /\ mean <= at /\ g = f[from] + way
    <2> HIDE DEF hours, f, from
    <2> QED
      BY <1>1, <1>2, <1>3
  <1>5. Leaves(left, f, g, TurnTicks)
    <2>1. g = f[from] + left[from] + TurnTicks
      <3> HIDE DEF left, f, from, hours
      <3> QED
        BY <1>1, <1>2, <1>3
    <2> HIDE DEF left, f, from, g
    <2>2. Leaves(left, f, f[from] + left[from] + TurnTicks, TurnTicks)
      BY <1>1, <1>2, LeadsToGoal
    <2> QED
      BY <2>1, <2>2
  <1>6. SearchInv /\ SearchInv'
    BY SearchStep DEF MoverInv, CrossingNext, SourcesMove
  <1>7. ~IsNear(way)
    <2> HIDE DEF way
    <2> QED
      BY <1>2, <1>4 DEF IsNear
  <1>8. /\ crossing'.goal = goal /\ crossing'.from = from /\ crossing'.sign = sign /\ crossing'.time = at
        /\ crossing'.tries = 1
        /\ crossing'.outcome = IF MaxIter = 1 THEN "cancelled" ELSE "searching"
    <2> DEFINE t == crossing.time + hours
    <2>1. t < from
      BY <1>1, <1>3
    <2>2. crossing.tries + 1 = 1 /\ way = IF t < from THEN hours + TurnTicks ELSE hours
      BY <2>1
    <2>3. Later(crossing, t) = at
      <3>1. Later(crossing, t) = t + SolarDay
        BY <2>1 DEF Later
      <3> HIDE DEF hours
      <3> QED
        BY <1>1, <1>4, <3>1
    <2> HIDE DEF t, way, hours
    <2> QED
      BY <1>6, <1>7, <2>2, <2>3, CrossingMoves DEF t, hours
  <1>9. \A t, u \in Int : t <= u => 4 * (f[u] - f[t]) \in 3 * (u - t) - 3 .. 5 * (u - t) + 3
    BY <1>1, SinceIs
  <1>10. PICK root \in Int : from < root /\ Reached(f, g, root)
    <2> HIDE DEF f, from, way
    <2> QED
      BY <1>1, <1>4, RootAfter
  <1> HIDE DEF f, from, way, mean, more, at, g
  <1>11. f[mean] \in Int /\ f[at] \in Int /\ f[root + 1] \in Int /\ root + 1 \in Int
    BY <1>1, <1>4
  <1>12. 4 * (f[mean] - f[from]) \in 3 * way - 3 .. 5 * way + 3
    <2>1. 4 * (f[mean] - f[from]) \in 3 * (mean - from) - 3 .. 5 * (mean - from) + 3
      BY <1>1, <1>4, <1>9
    <2> QED
      BY <1>4, <2>1
  <1>13. 4 * (f[at] - f[mean]) \in 3 * more - 3 .. 5 * more + 3
    <2>1. 4 * (f[at] - f[mean]) \in 3 * (at - mean) - 3 .. 5 * (at - mean) + 3
      BY <1>4, <1>9
    <2>2. at - mean = more
      BY <1>2, <1>4
    <2> QED
      BY <2>1, <2>2
  <1>14. 2 * Magnitude(g - f[at]) < TurnTicks /\ Magnitude(g - f[at]) \in Nat
    BY <1>2, <1>3, <1>4, <1>11, <1>12, <1>13 DEF Magnitude
  <1>15. at \in from .. 2 * root - from + 1
    <2>1. 4 * (f[root + 1] - f[from]) \in 3 * ((root + 1) - from) - 3 .. 5 * ((root + 1) - from) + 3
      BY <1>1, <1>9, <1>10, <1>11
    <2>2. f[root + 1] > g
      BY <1>4, <1>10, <1>11 DEF Reached
    <2> QED
      BY <1>1, <1>2, <1>3, <1>4, <1>10, <1>11, <2>1, <2>2
  <1>16. off[0] = TurnTicks /\ 0 \in 0 .. MaxIter - 1 /\ 1 # MaxIter /\ off[1] \in Nat /\ off[0] <= 2 * off[1]
    <2>1. off[0] = TurnTicks /\ 0 \in 0 .. MaxIter - 1
      BY <1>2 DEF Halving
    <2>2. Magnitude(way) <= off[0] /\ Magnitude(way) > Tolerance /\ way \in Int
      BY <1>2, <1>4, <2>1 DEF Magnitude
    <2>3. FineTurn
      BY DEF SourcesMove
    <2>4. 0 + 1 = 1
      OBVIOUS
    <2> QED
      BY <2>1, <2>2, <2>3, <2>4, TriesSuffice
  <1>17. Aims(left, f, g, TurnTicks, from, at, off[1])
    <2>1. Magnitude(g - f[at]) <= off[1]
      BY <1>2, <1>14, <1>16
    <2>2. f[from] <= g /\ g < f[from] + TurnTicks
      BY <1>2, <1>3, <1>4
    <2> QED
      BY <1>5, <1>14, <2>1, <2>2 DEF Aims
  <1>18. crossing'.tries = 1 /\ crossing'.outcome = "searching" /\ 1 \in 0 .. MaxIter - 1
    BY <1>2, <1>8, <1>16
  <1>19. OnItsWay(crossing', g, root, off[crossing'.tries])
    BY <1>8, <1>10, <1>15, <1>17, <1>18 DEF OnItsWay, f, from
  <1>20. \E h, r \in Int : OnItsWay(crossing', h, r, off[crossing'.tries])
    BY <1>4, <1>10, <1>19
  <1>21. Arc(crossing'.goal, crossing'.sign, crossing'.from) # NoArc
    BY <1>1, <1>8
  <1> QED
    BY <1>6, <1>18, <1>20, <1>21 DEF MoverInv

\* Any other ends the search near its goal, or takes it there by half of what was left;
\* and never to before the time given.
LEMMA OtherCrossing ==
    ASSUME SourcesMove, NEW off, Halving(off, TurnTicks), MoverInv(off), EstimateCrossing,
           crossing.goal \notin Distant, crossing.tries # 0
    PROVE  MoverInv(off)'
  <1> DEFINE goal == crossing.goal
             sign == crossing.sign
             from == crossing.from
             time == crossing.time
             n == crossing.tries
             left == HoursLeft(goal, sign)
             f == Since(goal, sign)
  <1>1. /\ goal \in Sources /\ sign \in -1 .. 1 /\ from \in Int /\ time \in Int /\ n \in 0 .. MaxIter - 1
        /\ Arc(goal, sign, from) # NoArc
        /\ f \in [Int -> Int] /\ Paced(f) /\ left[time] = Hours(goal, sign, time)
    BY MoverIs
  <1>2. /\ TurnTicks \in Nat \ {0} /\ 4 < TurnTicks /\ Tolerance \in Nat /\ 1 <= Tolerance /\ MaxIter \in Nat \ {0}
    BY FineTurnIs DEF SourcesMove
  <1>3. PICK g, root \in Int : OnItsWay(crossing, g, root, off[n])
    BY DEF MoverInv, EstimateCrossing
  <1> DEFINE hours == g - f[time]
             at == time + hours
             rest == g - f[at]
  <1>4. /\ Leaves(left, f, g, TurnTicks) /\ f[from] <= g /\ g < f[from] + TurnTicks
        /\ 2 * Magnitude(hours) < TurnTicks /\ Magnitude(hours) <= off[n]
        /\ from < root /\ Reached(f, g, root) /\ time \in from .. 2 * root - from + 1
    BY <1>3 DEF OnItsWay, Aims
  <1>5. hours = Hours(goal, sign, time)
    <2>1. left[time] = g - f[time]
      <3> HIDE DEF left, f, time
      <3> QED
        BY <1>1, <1>2, <1>3, <1>4, LeftIs
    <2> QED
      BY <1>1, <2>1
  <1>6. at \in from .. 2 * root - from + 1
    <2> HIDE DEF f, from, time
    <2> QED
      BY <1>1, <1>4, StaysAfter
  <1>7. at \in Int /\ ~(at < from) /\ hours \in Int /\ f[at] \in Int /\ rest \in Int /\ at = time + (g - f[time])
    <2>1. f[time] \in Int
      BY <1>1
    <2>2. at \in Int /\ ~(at < from)
      <3> HIDE DEF at
      <3> QED
        BY <1>1, <1>6
    <2>3. f[at] \in Int
      BY <1>1, <2>2
    <2> QED
      BY <2>1, <2>2, <2>3
  <1>8. SearchInv /\ SearchInv'
    BY SearchStep DEF MoverInv, CrossingNext, SourcesMove
  <1>9. /\ crossing'.goal = goal /\ crossing'.from = from /\ crossing'.sign = sign /\ crossing'.time = at
        /\ IsNear(hours) => crossing'.outcome = "found"
        /\ ~IsNear(hours) =>
              /\ crossing'.tries = n + 1
              /\ crossing'.outcome = IF n + 1 = MaxIter THEN "cancelled" ELSE "searching"
    <2>1. hours = IF at < from THEN hours + TurnTicks ELSE hours
      BY <1>7
    <2>2. Later(crossing, at) = at
      BY <1>7 DEF Later
    <2>3. at = time + hours
      OBVIOUS
    <2> HIDE DEF hours, at
    <2> QED
      BY <1>5, <1>8, <2>1, <2>2, <2>3, CrossingMoves
  <1>10. 2 * Magnitude(rest) <= Magnitude(hours) + 1
    <2> HIDE DEF f, time, at
    <2> QED
      BY <1>1, <1>7, Halves
  <1>11. IsNear(hours) <=> Magnitude(hours) <= Tolerance
    <2> HIDE DEF hours
    <2> QED
      BY <1>2, <1>7 DEF IsNear, Magnitude
  <1>12. CASE IsNear(hours)
    <2>1. Magnitude(rest) <= Tolerance
      <3>1. Tolerance <= 2 * Tolerance /\ Magnitude(hours) <= Tolerance
        BY <1>2, <1>11, <1>12
      <3> HIDE DEF hours, rest
      <3> QED
        BY <1>2, <1>7, <1>10, <3>1, OffBy
    <2>2. IsNextCrossing(crossing', at)
      <3>1. /\ crossing'.goal \in Sources /\ crossing'.sign \in -1 .. 1 /\ crossing'.from \in Int
            /\ Arc(crossing'.goal, crossing'.sign, crossing'.from) # NoArc
            /\ Leaves(HoursLeft(crossing'.goal, crossing'.sign), Since(crossing'.goal, crossing'.sign), g, TurnTicks)
            /\ Magnitude(g - Since(crossing'.goal, crossing'.sign)[at]) <= Tolerance
            /\ g < Since(crossing'.goal, crossing'.sign)[crossing'.from] + TurnTicks
        BY <1>1, <1>4, <1>9, <2>1
      <3> HIDE DEF at
      <3> QED
        BY <1>7, <3>1, CrossingIsFound
    <2>3. IsNextCrossing(crossing', crossing'.time)
      BY <1>9, <2>2
    <2> QED
      BY <1>8, <1>9, <1>12, <2>3 DEF MoverInv
  <1>13. CASE ~IsNear(hours)
    <2>1. /\ n + 1 # MaxIter /\ n + 1 \in 1 .. MaxIter - 1
          /\ off[n] \in Nat /\ off[n + 1] \in Nat /\ off[n] <= 2 * off[n + 1]
      <3>1. Magnitude(hours) > Tolerance
        <4>1. Magnitude(hours) \in Int
          BY <1>7 DEF Magnitude
        <4> HIDE DEF hours
        <4> QED
          BY <1>2, <1>11, <1>13, <4>1
      <3>2. FineTurn
        BY DEF SourcesMove
      <3> HIDE DEF hours, n
      <3> QED
        BY <1>1, <1>4, <1>7, <3>1, <3>2, TriesSuffice
    <2>2. Magnitude(rest) <= off[n + 1]
      <3> HIDE DEF hours, rest, n
      <3> QED
        BY <1>4, <1>7, <1>10, <2>1, OffBy
    <2>3. 2 * Magnitude(rest) < TurnTicks
      <3>1. Magnitude(rest) \in Int /\ Magnitude(hours) \in Int
        BY <1>7 DEF Magnitude
      <3> HIDE DEF hours, rest
      <3> QED
        BY <1>2, <1>4, <1>10, <3>1
    <2>4. Aims(left, f, g, TurnTicks, from, at, off[n + 1])
      BY <1>4, <2>2, <2>3 DEF Aims
    <2>5. /\ crossing'.tries = n + 1 /\ crossing'.outcome = "searching"
          /\ n + 1 \in 0 .. MaxIter - 1 /\ n + 1 # 0
      <3>1. n + 1 \in 0 .. MaxIter - 1 /\ n + 1 # 0
        BY <1>1, <1>2, <2>1
      <3> QED
        BY <1>9, <1>13, <2>1, <3>1
    <2>6. OnItsWay(crossing', g, root, off[crossing'.tries])
      BY <1>4, <1>6, <1>9, <2>4, <2>5 DEF OnItsWay
    <2>7. \E h, r \in Int : OnItsWay(crossing', h, r, off[crossing'.tries])
      BY <1>3, <2>6
    <2>8. Arc(crossing'.goal, crossing'.sign, crossing'.from) # NoArc
      BY <1>1, <1>9
    <2> QED
      BY <1>8, <2>5, <2>7, <2>8 DEF MoverInv
  <1> QED
    BY <1>12, <1>13

LEMMA MoverStep ==
    ASSUME SourcesMove, NEW off, Halving(off, TurnTicks), MoverInv(off), [CrossingNext]_searchVars
    PROVE  MoverInv(off)'
  <1>1. SearchInv /\ SearchInv'
    BY SearchStep DEF MoverInv, SourcesMove
  <1>2. CASE EstimateCrossing
    <2>1. CASE crossing.goal \in Distant
      <3>1. crossing'.goal = crossing.goal
        BY <1>1, <1>2 DEF EstimateCrossing, Found, GoesOn, SearchInv
      <3> QED
        BY <1>1, <2>1, <3>1 DEF MoverInv
    <2>2. CASE crossing.goal \notin Distant /\ crossing.tries = 0
      <3>1. Hours(crossing.goal, crossing.sign, crossing.time) \in Int
        <4>1. /\ Leaves(HoursLeft(crossing.goal, crossing.sign), Since(crossing.goal, crossing.sign), 0, TurnTicks)
              /\ HoursLeft(crossing.goal, crossing.sign)[crossing.time]
                    = Hours(crossing.goal, crossing.sign, crossing.time)
              /\ crossing.time \in Int
          BY <1>2, <2>2, MoverIs
        <4> QED
          BY <4>1 DEF Leaves
      <3> QED
        BY <1>2, <2>2, <3>1, FirstAhead, FirstBehind
    <2>3. CASE crossing.goal \notin Distant /\ crossing.tries # 0
      BY <1>2, <2>3, OtherCrossing
    <2> QED
      BY <2>1, <2>2, <2>3
  <1>3. CASE NeverCrosses \/ CrossingFails
    BY <1>1, <1>3 DEF NeverCrosses, CrossingFails, Ends, SearchInv, MoverInv
  <1>4. CASE SeekAgain
    <2>1. PICK from \in Starts : crossing' = Search(crossing.goal, crossing.sign, from)
      BY <1>4 DEF SeekAgain
    <2>2. MaxIter \in Nat \ {0}
      BY CrossingAssumption
    <2> QED
      BY <1>1, <2>1, <2>2 DEF Search, MoverInv
  <1>5. CASE UNCHANGED searchVars
    BY <1>1, <1>5 DEF searchVars, MoverInv, IsNextCrossing, CrossesAt
  <1> QED
    BY <1>2, <1>3, <1>4, <1>5 DEF CrossingNext

\* Whatever rises, sets or transits, from whenever, and however it moves meanwhile,
\* novas_cross_el_date() finds the next time that it does, and within novas_inv_max_iter
\* estimates, although each takes it to stay where it is.  It has to cross each time,
\* and to be due later or earlier by at most a quarter of what has passed, as even the
\* Moon is but near the poles; and a day is not much longer than a turn.  What moves is
\* found on time even on the next day, what stays in place is not.
THEOREM CrossingsAreNext ==
    ASSUME SourcesMove, StaysInPlace, EnoughTries(TurnTicks)
    PROVE  CrossingSpec => [](CrossingIsNext /\ (crossing.goal \notin Distant => CrossingIsOnTime))
  <1>1. PICK off : Halving(off, TurnTicks)
    BY DEF EnoughTries
  <1>2. MovesOn /\ StaysInPlace /\ FineTicks
    <2>1. 4 <= TurnTicks
      BY FineTurnIs DEF SourcesMove
    <2> QED
      BY <2>1 DEF SourcesMove, FineTicks
  <1>3. SearchInit => DistantInv /\ MoverInv(off)
    <2> SUFFICES ASSUME SearchInit PROVE DistantInv /\ MoverInv(off)
      OBVIOUS
    <2>1. PICK s \in Sources, sign \in -1 .. 1, from \in Starts : crossing = Search(s, sign, from)
      BY DEF SearchInit
    <2>2. from \in Int /\ MaxIter \in Nat \ {0}
      BY CrossingAssumption
    <2>3. SearchInv /\ crossing.outcome = "searching" /\ crossing.time = crossing.from /\ crossing.tries = 0
      BY <2>1, <2>2 DEF Search, SearchInv
    <2> QED
      BY <2>2, <2>3 DEF DistantInv, CrossingIsNext, MoverInv
  <1>4. DistantInv /\ [CrossingNext]_searchVars => DistantInv'
    BY <1>2, DistantStep
  <1>5. MoverInv(off) /\ [CrossingNext]_searchVars => MoverInv(off)'
    BY <1>1, MoverStep
  <1>6. DistantInv /\ MoverInv(off) =>
           CrossingIsNext /\ (crossing.goal \notin Distant => CrossingIsOnTime)
    BY DEF DistantInv, MoverInv, CrossingIsNext, CrossingIsOnTime
  <1> QED
    BY <1>3, <1>4, <1>5, <1>6, PTL DEF CrossingSpec

-----------------------------------------------------------------------------
\* Texts of angles and times of day.

LEMMA QuotientRest ==
    ASSUME NEW a \in Int, NEW d \in Nat \ {0}
    PROVE  /\ a \div d \in Int /\ a % d \in 0 .. d - 1
           /\ a = (a \div d) * d + (a % d)
  BY SMT

LEMMA OnlyQuotient ==
    ASSUME NEW q \in Int, NEW d \in Nat \ {0}, NEW r \in 0 .. d - 1
    PROVE  (q * d + r) \div d = q
  <1> DEFINE a == q * d + r
             p == a \div d
             s == a % d
  <1>1. a \in Int /\ p \in Int /\ s \in 0 .. d - 1 /\ a = p * d + s
    BY QuotientRest, SMT
  <1> HIDE DEF p, s, a
  <1>2. (q - p) * d = s - r
    BY <1>1, SMT DEF a
  <1>3. ASSUME q - p >= 1 PROVE FALSE
    <2>1. (q - p) * d >= d
      BY <1>1, <1>3, SMT
    <2> QED
      BY <1>1, <1>2, <2>1, SMT
  <1>4. ASSUME q - p <= -1 PROVE FALSE
    <2>1. (q - p) * d <= -d
      BY <1>1, <1>4, SMT
    <2> QED
      BY <1>1, <1>2, <2>1, SMT
  <1> QED
    BY <1>1, <1>3, <1>4, SMT DEF p, a

\* To divide by a product is to divide twice.
LEMMA DivideTwice ==
    ASSUME NEW a \in Int, NEW b \in Nat \ {0}, NEW c \in Nat \ {0}
    PROVE  a \div (c * b) = (a \div b) \div c
  <1> DEFINE q == a \div b
             r == a % b
             p == q \div c
             s == q % c
  <1>1. q \in Int /\ r \in 0 .. b - 1 /\ a = q * b + r
    BY QuotientRest
  <1> HIDE DEF q, r
  <1>2. p \in Int /\ s \in 0 .. c - 1 /\ q = p * c + s
    BY <1>1, QuotientRest
  <1> HIDE DEF p, s
  <1>3. a = p * (c * b) + (s * b + r)
    BY <1>1, <1>2, SMT
  <1>4. s * b + r \in 0 .. c * b - 1
    <2>1. s * b <= (c - 1) * b /\ 0 <= s * b
      BY <1>2, SMT
    <2>2. (c - 1) * b = c * b - b
      BY SMT
    <2> QED
      BY <1>1, <1>2, <2>1, <2>2, SMT
  <1>5. c * b \in Nat \ {0}
    BY SMT
  <1>6. (p * (c * b) + (s * b + r)) \div (c * b) = p
    BY <1>2, <1>4, <1>5, OnlyQuotient
  <1> QED
    BY <1>3, <1>6 DEF p, q

Parts == [d : Nat, m : 0 .. Sixty - 1, s : 0 .. Sixty - 1, ss : 0 .. Mult - 1]

LEMMA PartsMade ==
    ASSUME NEW d \in Nat, NEW m \in 0 .. Sixty - 1, NEW s \in 0 .. Sixty - 1, NEW ss \in 0 .. Mult - 1
    PROVE  [d |-> d, m |-> m, s |-> s, ss |-> ss] \in Parts
  BY DEF Parts

UnitsInDegree == Sixty * Sixty * Mult

LEMMA DegreeIs ==
    /\ UnitsInDegree \in Nat \ {0} /\ Degree = UnitsInDegree * Digit /\ Degree \in Nat \ {0}
  BY SexagesimalAssumption, SMT DEF UnitsInDegree, Degree

\* Parts of a number of units of the last digit.
LEMMA PartsOf ==
    ASSUME NEW n \in Nat, NEW parts,
           parts = [d |-> n \div (Sixty * Sixty * Mult), m |-> (n \div (Sixty * Mult)) % Sixty,
                    s |-> (n \div Mult) % Sixty, ss |-> n % Mult]
    PROVE  parts \in Parts /\ Size(parts) = n * Digit /\ (parts.d = 0 <=> n < UnitsInDegree)
  <1> USE SexagesimalAssumption
  <1> DEFINE q == n \div Mult
             p == q \div Sixty
             d == p \div Sixty
             m == p % Sixty
             s == q % Sixty
             ss == n % Mult
  <1>0. Mult \in Nat \ {0} /\ Sixty \in Nat \ {0} /\ Digit \in Nat \ {0}
    OBVIOUS
  <1>1. q \in Int /\ ss \in 0 .. Mult - 1 /\ n = q * Mult + ss
    BY <1>0, QuotientRest
  <1>2. p \in Int /\ s \in 0 .. Sixty - 1 /\ q = p * Sixty + s
    BY <1>1, QuotientRest
  <1>3. d \in Int /\ m \in 0 .. Sixty - 1 /\ p = d * Sixty + m
    BY <1>2, QuotientRest
  <1>4. n \div (Sixty * Mult) = p
    BY DivideTwice
  <1>5. n \div (Sixty * Sixty * Mult) = d
    <2>1. Sixty * Sixty \in Nat \ {0}
      BY SMT
    <2>2. n \div (Sixty * Sixty * Mult) = q \div (Sixty * Sixty)
      BY <2>1, DivideTwice
    <2>3. q \div (Sixty * Sixty) = d
      BY <1>1, DivideTwice
    <2> QED
      BY <2>2, <2>3
  <1>6. parts = [d |-> d, m |-> m, s |-> s, ss |-> ss]
    BY <1>4, <1>5
  <1> HIDE DEF d, m, s, ss, p, q
  <1>7. Size(parts) = n * Digit
    BY <1>1, <1>2, <1>3, <1>6 DEF Size
  <1> DEFINE rest == (m * Sixty + s) * Mult + ss
  <1>8. n = d * UnitsInDegree + rest
    <2>1. (d * Sixty + m) * Sixty + s = d * (Sixty * Sixty) + (m * Sixty + s)
      BY <1>2, <1>3, SMT
    <2>2. (d * (Sixty * Sixty) + (m * Sixty + s)) * Mult
            = d * (Sixty * Sixty * Mult) + (m * Sixty + s) * Mult
      BY <1>2, <1>3, SMT
    <2> QED
      BY <1>1, <1>2, <1>3, <2>1, <2>2, SMT DEF UnitsInDegree
  <1>9. rest \in 0 .. UnitsInDegree - 1
    <2>1. m * Sixty + s \in 0 .. Sixty * Sixty - 1
      <3>1. m * Sixty <= (Sixty - 1) * Sixty /\ 0 <= m * Sixty
        BY <1>3, SMT
      <3>2. (Sixty - 1) * Sixty = Sixty * Sixty - Sixty
        BY SMT
      <3> QED
        BY <1>2, <1>3, <3>1, <3>2, SMT
    <2>2. (m * Sixty + s) * Mult <= (Sixty * Sixty - 1) * Mult /\ 0 <= (m * Sixty + s) * Mult
      BY <2>1, SMT
    <2>3. (Sixty * Sixty - 1) * Mult = Sixty * Sixty * Mult - Mult
      BY SMT
    <2> QED
      BY <1>1, <2>1, <2>2, <2>3, SMT DEF UnitsInDegree
  <1> HIDE DEF rest
  <1>10. d >= 0
    <2>1. ASSUME d <= -1 PROVE FALSE
      <3>1. d * UnitsInDegree <= -UnitsInDegree
        BY <1>3, <2>1, DegreeIs, SMT
      <3> QED
        BY <1>3, <1>8, <1>9, <3>1, DegreeIs, SMT
    <2> QED
      BY <1>3, <2>1, SMT
  <1>11. d = 0 <=> n < UnitsInDegree
    <2>1. CASE d = 0
      BY <1>8, <1>9, <2>1, DegreeIs, SMT
    <2>2. CASE d >= 1
      <3>1. d * UnitsInDegree >= UnitsInDegree
        BY <1>3, <2>2, DegreeIs, SMT
      <3> QED
        BY <1>3, <1>8, <1>9, <2>2, <3>1, DegreeIs, SMT
    <2> QED
      BY <1>3, <1>10, <2>1, <2>2, SMT
  <1>12. parts \in Parts
    <2>1. d \in Nat
      BY <1>3, <1>10, SMT
    <2>2. m \in 0 .. Sixty - 1 /\ s \in 0 .. Sixty - 1 /\ ss \in 0 .. Mult - 1
      BY <1>1, <1>2, <1>3
    <2> QED
      BY <1>6, <2>1, <2>2, PartsMade
  <1>13. parts.d = d
    BY <1>6
  <1> QED
    BY <1>7, <1>11, <1>12, <1>13

\* breakdown() rounds to the nearest unit of the last digit, and nothing that
\* is already rounded.
LEMMA BreakdownIs ==
    ASSUME NEW value \in Nat
    PROVE  /\ Breakdown(value) \in Parts
           /\ Size(Breakdown(value)) \in Nat
           /\ 2 * (Size(Breakdown(value)) - value) \in -Digit .. Digit
           /\ \E j \in Int : Size(Breakdown(value)) = Digit * j
           /\ (\E j \in Int : value = Digit * j) => Size(Breakdown(value)) = value
           /\ Breakdown(value).d = 0 <=> Size(Breakdown(value)) < Degree
  <1> USE SexagesimalAssumption
  <1> DEFINE n == (2 * value + Digit) \div (2 * Digit)
             r == (2 * value + Digit) % (2 * Digit)
  <1>0. Digit \in Nat \ {0} /\ 2 * Digit \in Nat \ {0} /\ 2 * value + Digit \in Int
    BY SMT
  <1>1. n \in Int /\ r \in 0 .. 2 * Digit - 1 /\ 2 * value + Digit = n * (2 * Digit) + r
    BY <1>0, QuotientRest
  <1>2. n * (2 * Digit) = 2 * (n * Digit)
    BY <1>1, SMT
  <1>3. n \in Nat
    <2>1. ASSUME n <= -1 PROVE FALSE
      <3>1. (-n) * (2 * Digit) >= 2 * Digit
        BY <1>0, <1>1, <2>1, SMT
      <3>2. (-n) * (2 * Digit) = -(n * (2 * Digit)) /\ n * (2 * Digit) \in Int
        BY <1>0, <1>1, SMT
      <3> QED
        BY <1>0, <1>1, <3>1, <3>2, SMT
    <2> QED
      BY <1>1, <2>1, SMT
  <1>4. ASSUME NEW j \in Int, value = Digit * j PROVE n = j
    <2>1. 2 * value + Digit = j * (2 * Digit) + Digit
      BY <1>4, SMT
    <2>2. 2 * Digit \in Nat \ {0} /\ Digit \in 0 .. 2 * Digit - 1
      BY SMT
    <2> QED
      BY <2>1, <2>2, OnlyQuotient
  <1>5. Breakdown(value) = [d |-> n \div (Sixty * Sixty * Mult), m |-> (n \div (Sixty * Mult)) % Sixty,
                            s |-> (n \div Mult) % Sixty, ss |-> n % Mult]
    BY DEF Breakdown
  <1> HIDE DEF n, r
  <1>6. /\ Breakdown(value) \in Parts /\ Size(Breakdown(value)) = n * Digit
        /\ Breakdown(value).d = 0 <=> n < UnitsInDegree
    BY <1>3, <1>5, PartsOf
  <1>7. n * Digit \in Nat
    BY <1>3, SMT
  <1>8. 2 * (n * Digit - value) \in -Digit .. Digit
    BY <1>1, <1>2, <1>7, SMT
  <1>9. n < UnitsInDegree <=> n * Digit < Degree
    <2>1. ASSUME n < UnitsInDegree PROVE n * Digit < Degree
      <3>1. (UnitsInDegree - n) * Digit >= 1
        BY <1>3, <2>1, DegreeIs, SMT
      <3>2. (UnitsInDegree - n) * Digit = UnitsInDegree * Digit - n * Digit
        BY <1>3, DegreeIs, SMT
      <3> QED
        BY <1>7, <3>1, <3>2, DegreeIs, SMT
    <2>2. ASSUME n >= UnitsInDegree PROVE n * Digit >= Degree
      <3>1. (n - UnitsInDegree) * Digit >= 0
        BY <1>3, <2>2, DegreeIs, SMT
      <3>2. (n - UnitsInDegree) * Digit = n * Digit - UnitsInDegree * Digit
        BY <1>3, DegreeIs, SMT
      <3> QED
        BY <1>7, <3>1, <3>2, DegreeIs, SMT
    <2> QED
      BY <1>3, <1>7, <2>1, <2>2, DegreeIs, SMT
  <1>10. n * Digit = Digit * n
    BY <1>3, SMT
  <1> QED
    BY <1>3, <1>4, <1>6, <1>7, <1>8, <1>9, <1>10

\* The difference of v and w is, but for whole periods, at most half of the last digit.
Near(v, w, p) == \E k \in Int : 2 * (v - w - p * k) \in -Digit .. Digit

LEMMA NearIs ==
    ASSUME NEW v \in Int, NEW w \in Int, NEW p \in Nat \ {0}, Digit <= p
    PROVE  Near(v, w, p) <=> 2 * Remainder(v - w, p) \in -Digit .. Digit
  <1> DEFINE x == v - w
             r == Remainder(x, p)
  <1>1. x \in Int
    OBVIOUS
  <1>2. PICK j \in Int : r = x - p * j
    BY <1>1, RemainderIs
  <1>3. r \in Int /\ -p <= 2 * r /\ 2 * r <= p
    BY <1>1, RemainderBounds
  <1> HIDE DEF r
  <1>4. Digit \in Nat \ {0}
    BY SexagesimalAssumption
  <1>5. ASSUME NEW k \in Int, 2 * (x - p * k) \in -Digit .. Digit PROVE 2 * r \in -Digit .. Digit
    <2> DEFINE e == x - p * k
    <2>1. e \in Int /\ r - e = p * (k - j)
      BY <1>1, <1>2, SMT
    <2>2. k = j \/ k - j >= 1 \/ k - j <= -1
      OBVIOUS
    <2>3. CASE k = j
      BY <1>2, <1>5, <2>3
    <2>4. CASE k - j >= 1
      <3>1. p * (k - j) >= p
        BY <2>4, SMT
      <3>2. 2 * e \in -Digit .. Digit
        BY <1>5
      <3> HIDE DEF e
      <3> QED
        BY <1>3, <1>4, <2>1, <3>1, <3>2, SMT
    <2>5. CASE k - j <= -1
      <3>1. p * (j - k) >= p /\ p * (j - k) = -(p * (k - j)) /\ p * (k - j) \in Int
        BY <2>5, SMT
      <3>2. 2 * e \in -Digit .. Digit
        BY <1>5
      <3> HIDE DEF e
      <3> QED
        BY <1>3, <1>4, <2>1, <3>1, <3>2, SMT
    <2> QED
      BY <2>2, <2>3, <2>4, <2>5
  <1>6. 2 * r \in -Digit .. Digit => \E k \in Int : 2 * (x - p * k) \in -Digit .. Digit
    BY <1>2
  <1> QED
    BY <1>5, <1>6 DEF Near, r

\* What differs from v by whole periods is as near.
LEMMA NearTurned ==
    ASSUME NEW v \in Int, NEW w \in Int, NEW p \in Nat \ {0}, NEW j \in Int, NEW x \in Int, Near(v, w, p)
    PROVE  /\ x = v - p * j => Near(x, w, p)
           /\ x = -(v - p * j) => Near(-x, w, p)
  <1>1. PICK k \in Int : 2 * (v - w - p * k) \in -Digit .. Digit
    BY DEF Near
  <1>2. v - p * j - w - p * (k - j) = v - w - p * k
    BY SMT
  <1>3. k - j \in Int
    OBVIOUS
  <1>4. Near(v - p * j, w, p)
    BY <1>1, <1>2, <1>3 DEF Near
  <1>5. x = -(v - p * j) => -x = v - p * j
    BY SMT
  <1> QED
    BY <1>4, <1>5

\* What is within half of the last digit of v is near w, if v differs from w by
\* whole periods.
LEMMA NearRounded ==
    ASSUME NEW x \in Int, NEW w \in Int, NEW p \in Nat \ {0}, NEW j \in Int,
           2 * (x - (w - p * j)) \in -Digit .. Digit
    PROVE  Near(x, w, p)
  <1>1. x - w - p * (-j) = x - (w - p * j)
    BY SMT
  <1>2. -j \in Int
    OBVIOUS
  <1> QED
    BY <1>1, <1>2 DEF Near

LEMMA NearNegated ==
    ASSUME NEW v \in Int, NEW w \in Int, NEW p \in Nat \ {0}
    PROVE  Near(-v, w, p) <=> Near(v, -w, p)
  <1>1. ASSUME NEW a \in Int, NEW b \in Int, Near(a, b, p) PROVE Near(-a, -b, p)
    <2>1. PICK k \in Int : 2 * (a - b - p * k) \in -Digit .. Digit
      BY <1>1 DEF Near
    <2>2. -a - (-b) - p * (-k) = -(a - b - p * k)
      BY SMT
    <2>3. 2 * (-(a - b - p * k)) \in -Digit .. Digit
      <3> DEFINE y == a - b - p * k
      <3>1. y \in Int
        BY SMT
      <3> HIDE DEF y
      <3>2. Digit \in Nat \ {0}
        BY SexagesimalAssumption
      <3>3. 2 * y \in -Digit .. Digit
        BY <2>1 DEF y
      <3>4. 2 * (-y) \in -Digit .. Digit
        BY <3>1, <3>2, <3>3, SMT
      <3> QED
        BY <3>4 DEF y
    <2>4. -k \in Int
      OBVIOUS
    <2> QED
      BY <2>2, <2>3, <2>4 DEF Near
  <1>2. -v \in Int /\ -w \in Int /\ -(-v) = v /\ -(-w) = w
    OBVIOUS
  <1> QED
    BY <1>1, <1>2

\* No period is nearer to a value than to what is left of it.
LEMMA RemainderLess ==
    ASSUME NEW v \in Int, NEW p \in Nat \ {0}
    PROVE  Magnitude(Remainder(v, p)) \in Nat /\ Magnitude(Remainder(v, p)) <= Magnitude(v)
  <1> DEFINE r == Remainder(v, p)
  <1>1. PICK k \in Int : r = v - p * k
    BY RemainderIs
  <1>2. r \in Int /\ -p <= 2 * r /\ 2 * r <= p
    BY RemainderBounds
  <1> HIDE DEF r
  <1>3. CASE k = 0
    BY <1>1, <1>2, <1>3 DEF Magnitude, r
  <1>4. CASE k >= 1
    <2>1. p * k >= p
      BY <1>4, SMT
    <2> QED
      BY <1>1, <1>2, <2>1, SMT DEF Magnitude, r
  <1>5. CASE k <= -1
    <2>1. p * (-k) >= p /\ p * (-k) = -(p * k) /\ p * k \in Int
      BY <1>5, SMT
    <2> QED
      BY <1>1, <1>2, <2>1, SMT DEF Magnitude, r
  <1> QED
    BY <1>3, <1>4, <1>5

LEMMA RestLess ==
    ASSUME NEW v \in Nat, NEW p \in Nat \ {0}
    PROVE  v % p <= v
  <1>1. v \div p \in Int /\ v % p \in 0 .. p - 1 /\ v = (v \div p) * p + (v % p)
    BY QuotientRest
  <1>2. v \div p >= 0
    BY SMT
  <1>3. (v \div p) * p >= 0
    BY <1>1, <1>2, SMT
  <1> QED
    BY <1>1, <1>3, SMT

\* A text is plain as long as no compass letter or word is given.  Then its sign is its
\* minus, which it has only with decimals or some degrees, and where it has neither
\* the sign of what was meant may be lost.  With a letter, the letter is right.
Shapes ==
    [form : {"dms", "hms", "decimal"}, minus : BOOLEAN, parts : Parts, unit : Units,
     lead : {"none", "north", "south"}, trail : {"none", "north", "south"}, gap : BOOLEAN]

Rounded(size) == size \in Nat /\ \E j \in Int : size = Digit * j

Plain(t) == t.lead = "none" /\ t.trail = "none"

Signed(t) ==
    IF t.minus /\ (t.form = "decimal" \/ t.parts.d # 0) THEN -Size(t.parts) ELSE Size(t.parts)

Lettered(t) == IF "south" \in {t.lead, t.trail} THEN -Size(t.parts) ELSE Size(t.parts)

PlainOK(t, w) ==
    \/ Near(Signed(t), w, Period(t.form))
    \/ t.form # "decimal" /\ t.parts.d = 0 /\ Near(-Signed(t), w, Period(t.form))

LetteredOK(t, w) ==
    /\ t.form # "hms" /\ ~t.minus
    /\ t.lead = "none" \/ t.trail = "none"
    /\ Near(Lettered(t), w, Period(t.form))

TextOK(t, w) ==
    /\ t \in Shapes
    /\ Rounded(Size(t.parts))
    /\ t.parts.d = 0 <=> Size(t.parts) < Degree
    /\ Plain(t) => PlainOK(t, w)
    /\ ~Plain(t) => LetteredOK(t, w)

TextInv == meant \in Int /\ TextOK(text, meant)

LEMMA PeriodIs ==
    ASSUME NEW form
    PROVE  /\ Period(form) \in Nat \ {0} /\ Digit \in Nat \ {0} /\ Digit <= Period(form)
           /\ Degree <= Period(form)
           /\ \E q \in Int : Period(form) = Digit * q
  <1> DEFINE c == IF form = "hms" THEN HoursInDay ELSE Circle
  <1>1. c \in Nat \ {0} /\ Digit \in Nat \ {0}
    BY SexagesimalAssumption
  <1>2. Period(form) = c * Degree
    BY DEF Period
  <1> HIDE DEF c
  <1>3. Degree <= c * Degree /\ c * Degree \in Nat \ {0}
    BY <1>1, DegreeIs, SMT
  <1>4. Digit <= UnitsInDegree * Digit
    BY <1>1, DegreeIs, SMT
  <1>5. c * (UnitsInDegree * Digit) = Digit * (c * UnitsInDegree) /\ c * UnitsInDegree \in Int
    BY <1>1, DegreeIs, SMT
  <1> QED
    BY <1>1, <1>2, <1>3, <1>4, <1>5, DegreeIs

LEMMA TextMade ==
    ASSUME NEW form \in {"dms", "hms", "decimal"}, NEW minus \in BOOLEAN, NEW parts \in Parts, NEW unit \in Units
    PROVE  /\ Text(form, minus, parts, unit) \in Shapes /\ Plain(Text(form, minus, parts, unit))
           /\ Text(form, minus, parts, unit).form = form /\ Text(form, minus, parts, unit).minus = minus
           /\ Text(form, minus, parts, unit).parts = parts
  BY DEF Text, Shapes, Plain

\* Whole periods more or less keep a value rounded.
LEMMA RoundedTurned ==
    ASSUME NEW form, NEW value \in Int, NEW k \in Int, \E j \in Int : value = Digit * j
    PROVE  /\ \E j \in Int : value - Period(form) * k = Digit * j
           /\ \E j \in Int : -(value - Period(form) * k) = Digit * j
  <1>1. PICK j \in Int : value = Digit * j
    OBVIOUS
  <1>2. PICK q \in Int : Period(form) = Digit * q
    BY PeriodIs
  <1>3. Digit \in Nat \ {0}
    BY PeriodIs
  <1>4. value - Period(form) * k = Digit * (j - q * k)
    <2>1. (Digit * q) * k = Digit * (q * k)
      BY <1>3, SMT
    <2>2. Digit * j - Digit * (q * k) = Digit * (j - q * k)
      BY <1>3, SMT
    <2> QED
      BY <1>1, <1>2, <2>1, <2>2
  <1>5. -(Digit * (j - q * k)) = Digit * (q * k - j)
    BY <1>3, SMT
  <1>6. j - q * k \in Int /\ q * k - j \in Int
    OBVIOUS
  <1> QED
    BY <1>4, <1>5, <1>6

\* The parts of the size of a value that differs from v by whole periods.
LEMMA PlainMade ==
    ASSUME NEW form \in {"dms", "hms", "decimal"}, NEW v \in Int, NEW k \in Int, NEW minus \in BOOLEAN,
           NEW unit \in Units, NEW w \in Int, NEW rest \in Int,
           rest = v - Period(form) * k,
           NEW t, t = Text(form, minus, Breakdown(Magnitude(rest)), unit),
           minus => rest < 0,
           rest < 0 => minus \/ (form # "decimal" /\ Breakdown(Magnitude(rest)).d = 0),
           \/ v = w
           \/ /\ \E j \in Int : v = Digit * j
              /\ \/ Near(v, w, Period(form))
                 \/ /\ form # "decimal" /\ Breakdown(Magnitude(rest)).d = 0
                    /\ Near(-v, w, Period(form))
    PROVE  TextOK(t, w)
  <1> DEFINE parts == Breakdown(Magnitude(rest))
             size == Size(parts)
             p == Period(form)
  <1>1. Magnitude(rest) \in Nat
    BY DEF Magnitude
  <1>2. /\ parts \in Parts /\ size \in Nat /\ Rounded(size)
        /\ 2 * (size - Magnitude(rest)) \in -Digit .. Digit
        /\ parts.d = 0 <=> size < Degree
        /\ (\E j \in Int : Magnitude(rest) = Digit * j) => size = Magnitude(rest)
    BY <1>1, BreakdownIs DEF Rounded
  <1>3. t \in Shapes /\ Plain(t) /\ t.form = form /\ t.minus = minus /\ t.parts = parts
    BY <1>2, TextMade
  <1>4. p \in Nat \ {0} /\ Digit \in Nat \ {0} /\ p * k \in Int
    <2>1. p \in Nat \ {0} /\ Digit \in Nat \ {0}
      BY PeriodIs
    <2> QED
      BY <2>1, SMT
  <1>5. \/ Signed(t) = size /\ rest >= 0
        \/ Signed(t) = -size /\ rest < 0
        \/ Signed(t) = size /\ rest < 0 /\ form # "decimal" /\ parts.d = 0
    BY <1>3 DEF Signed
  <1>6. Signed(t) \in Int
    BY <1>2, <1>5
  <1>7. CASE v = w
    <2>1. 2 * ((IF rest < 0 THEN -size ELSE size) - rest) \in -Digit .. Digit
      <3> HIDE DEF size
      <3>1. CASE rest < 0
        BY <1>2, <1>4, <3>1, SMT DEF Magnitude
      <3>2. CASE rest >= 0
        BY <1>2, <1>4, <3>2, SMT DEF Magnitude
      <3> QED
        BY <3>1, <3>2
    <2>2. (IF rest < 0 THEN -size ELSE size) \in Int
      BY <1>2
    <2>3. Near(IF rest < 0 THEN -size ELSE size, w, p)
      BY <1>4, <1>7, <2>1, <2>2, NearRounded
    <2>4. Near(Signed(t), w, p) \/ (form # "decimal" /\ parts.d = 0 /\ Near(-Signed(t), w, p))
      BY <1>5, <2>3
    <2> QED
      BY <1>2, <1>3, <2>4 DEF TextOK, PlainOK
  <1>8. CASE \E j \in Int : v = Digit * j
    <2>1. size = Magnitude(rest)
      <3>1. (\E j \in Int : rest = Digit * j) /\ (\E j \in Int : -rest = Digit * j)
        BY <1>8, RoundedTurned
      <3>2. \E j \in Int : Magnitude(rest) = Digit * j
        BY <3>1, Zenon DEF Magnitude
      <3> QED
        BY <1>2, <3>2
    <2>2. Near(v, w, p) => Near(rest, w, p)
      BY <1>4, NearTurned
    <2>3. Near(-v, w, p) => Near(-rest, w, p)
      <3>1. -v \in Int /\ -k \in Int /\ -rest = -v - p * (-k)
        BY <1>4, SMT
      <3>2. -rest \in Int
        OBVIOUS
      <3> QED
        BY <1>4, <3>1, <3>2, NearTurned
    <2>4. (IF rest < 0 THEN -size ELSE size) = rest
      BY <2>1 DEF Magnitude
    <2>5. Signed(t) = rest \/ (Signed(t) = -rest /\ form # "decimal" /\ parts.d = 0)
      BY <1>5, <2>1 DEF Magnitude
    <2>6. -(-rest) = rest
      OBVIOUS
    <2>7. CASE Near(v, w, p)
      <3>1. Near(Signed(t), w, p) \/ (form # "decimal" /\ parts.d = 0 /\ Near(-Signed(t), w, p))
        BY <2>2, <2>5, <2>6, <2>7
      <3> QED
        BY <1>2, <1>3, <3>1 DEF TextOK, PlainOK
    <2>8. CASE form # "decimal" /\ parts.d = 0 /\ Near(-v, w, p)
      <3>1. Near(Signed(t), w, p) \/ Near(-Signed(t), w, p)
        BY <2>3, <2>5, <2>8
      <3> QED
        BY <1>2, <1>3, <2>8, <3>1 DEF TextOK, PlainOK
    <2>9. v = w \/ Near(v, w, p) \/ (form # "decimal" /\ parts.d = 0 /\ Near(-v, w, p))
      OBVIOUS
    <2> QED
      BY <1>7, <2>7, <2>8, <2>9
  <1> QED
    BY <1>7, <1>8

\* What is printed is right, if the value is the one meant or what a right text says.
LEMMA PrintedDms ==
    ASSUME NEW v \in Int, NEW w \in Int, NEW unit \in Units,
           \/ v = w
           \/ /\ \E j \in Int : v = Digit * j
              /\ Near(v, w, Period("dms")) \/ (Magnitude(v) < Degree /\ Near(-v, w, Period("dms")))
    PROVE  TextOK(PrintDms(v, unit), w)
  <1> DEFINE deg == Remainder(v, Circle * Degree)
             parts == Breakdown(Magnitude(deg))
             minus == deg < 0 /\ parts.d # 0
  <1>1. Period("dms") = Circle * Degree /\ Circle * Degree \in Nat \ {0}
    <2>1. Period("dms") = Circle * Degree
      BY DEF Period
    <2>2. Period("dms") \in Nat \ {0}
      BY PeriodIs
    <2> QED
      BY <2>1, <2>2
  <1>2. PICK k \in Int : deg = v - Circle * Degree * k
    BY <1>1, RemainderIs
  <1>3. deg \in Int /\ Magnitude(deg) \in Nat /\ Magnitude(deg) <= Magnitude(v)
    BY <1>1, RemainderBounds, RemainderLess
  <1>4. PrintDms(v, unit) = Text("dms", minus, parts, unit)
    BY DEF PrintDms
  <1> HIDE DEF deg
  <1>5. ASSUME \E j \in Int : v = Digit * j, Magnitude(v) < Degree PROVE parts.d = 0
    <2>1. (\E j \in Int : deg = Digit * j) /\ (\E j \in Int : -deg = Digit * j)
      <3>1. deg = v - Period("dms") * k
        BY <1>1, <1>2
      <3> QED
        BY <1>5, <3>1, RoundedTurned
    <2>2. \E j \in Int : Magnitude(deg) = Digit * j
      BY <2>1, Zenon DEF Magnitude
    <2>3. Size(parts) = Magnitude(deg) /\ (parts.d = 0 <=> Size(parts) < Degree)
      BY <1>3, <2>2, BreakdownIs
    <2>4. Magnitude(v) \in Nat
      BY DEF Magnitude
    <2> QED
      BY <1>3, <1>5, <2>3, <2>4, DegreeIs
  <1>6. \/ v = w
        \/ /\ \E j \in Int : v = Digit * j
           /\ Near(v, w, Period("dms")) \/ (parts.d = 0 /\ Near(-v, w, Period("dms")))
    BY <1>5
  <1>7. minus \in BOOLEAN /\ (minus => deg < 0) /\ (deg < 0 => minus \/ parts.d = 0)
    OBVIOUS
  <1>8. deg = v - Period("dms") * k
    BY <1>1, <1>2
  <1> DEFINE t == PrintDms(v, unit)
  <1>9. t = Text("dms", minus, parts, unit)
    BY <1>4
  <1> HIDE DEF minus, t
  <1>10. TextOK(t, w)
    BY <1>3, <1>6, <1>7, <1>8, <1>9, PlainMade
  <1> QED
    BY <1>10 DEF t

LEMMA PrintedHms ==
    ASSUME NEW v \in Int, NEW w \in Int, NEW unit \in Units,
           \/ v = w
           \/ /\ \E j \in Int : v = Digit * j
              /\ Near(v, w, Period("hms")) \/ (v \in Nat /\ v < Degree /\ Near(-v, w, Period("hms")))
    PROVE  TextOK(PrintHms(v, unit), w)
  <1> DEFINE rest == v % (HoursInDay * Degree)
             parts == Breakdown(Magnitude(rest))
  <1>1. Period("hms") = HoursInDay * Degree /\ HoursInDay * Degree \in Nat \ {0}
    <2>1. Period("hms") = HoursInDay * Degree
      BY DEF Period
    <2>2. Period("hms") \in Nat \ {0}
      BY PeriodIs
    <2> QED
      BY <2>1, <2>2
  <1>2. PICK k \in Int : rest = v - HoursInDay * Degree * k
    BY <1>1, ModIs
  <1>3. rest \in Nat /\ Magnitude(rest) = rest
    <2>1. rest \in Nat
      BY <1>1, QuotientRest
    <2> QED
      BY <2>1 DEF Magnitude
  <1>4. v \in Nat => rest <= v
    BY <1>1, RestLess
  <1>5. PrintHms(v, unit) = Text("hms", FALSE, parts, unit)
    BY <1>3 DEF PrintHms
  <1> HIDE DEF rest
  <1>6. ASSUME \E j \in Int : v = Digit * j, v \in Nat, v < Degree PROVE parts.d = 0
    <2>1. \E j \in Int : Magnitude(rest) = Digit * j
      BY <1>1, <1>2, <1>3, <1>6, RoundedTurned
    <2>2. Size(parts) = rest /\ (parts.d = 0 <=> Size(parts) < Degree)
      BY <1>3, <2>1, BreakdownIs
    <2> QED
      BY <1>3, <1>4, <1>6, <2>2, DegreeIs
  <1>7. \/ v = w
        \/ /\ \E j \in Int : v = Digit * j
           /\ Near(v, w, Period("hms")) \/ (parts.d = 0 /\ Near(-v, w, Period("hms")))
    BY <1>6
  <1>8. rest = v - Period("hms") * k
    BY <1>1, <1>2
  <1> DEFINE t == PrintHms(v, unit)
  <1>9. t = Text("hms", FALSE, parts, unit)
    BY <1>5
  <1> HIDE DEF t
  <1>10. FALSE \in BOOLEAN /\ rest \in Int /\ ~(rest < 0)
    BY <1>3
  <1>11. TextOK(t, w)
    BY <1>7, <1>8, <1>9, <1>10, PlainMade
  <1> QED
    BY <1>11 DEF t

\* What a right text says.
LEMMA ReadIs ==
    ASSUME NEW t, NEW w \in Int, TextOK(t, w)
    PROVE  /\ Read(t).ok
           /\ Read(t).value \in Int /\ \E j \in Int : Read(t).value = Digit * j
           /\ Plain(t) => Read(t).value = Signed(t)
           /\ ~Plain(t) => Read(t).value = Lettered(t) \/ Read(t).rest
  <1> DEFINE size == Size(t.parts)
  <1>1. t \in Shapes /\ Rounded(size)
    BY DEF TextOK
  <1>2. PICK j \in Int : size = Digit * j
    BY <1>1 DEF Rounded
  <1>3. size \in Nat /\ Digit \in Nat \ {0}
    BY <1>1, PeriodIs DEF Rounded
  <1>4. -size = Digit * (-j) /\ -j \in Int
    BY <1>2, <1>3, SMT
  <1>5. InRange(t.parts)
    <2>1. t.parts \in Parts
      BY <1>1 DEF Shapes
    <2>2. t.parts.m \in 0 .. Sixty - 1 /\ t.parts.s \in 0 .. Sixty - 1
      BY <2>1 DEF Parts
    <2>3. Sixty \in Nat
      BY SexagesimalAssumption
    <2> QED
      BY <2>2, <2>3 DEF InRange
  <1>6. /\ Read(t).ok = (t.form = "decimal" \/ InRange(t.parts))
        /\ Read(t).value = (IF t.form # "hms" /\ IsSouth(t) THEN -Signed(t) ELSE Signed(t))
        /\ Read(t).rest = (Stuck(t) \/ (t.lead # "none" /\ t.trail # "none"))
    BY DEF Read, Signed
  <1>7. -(-size) = size
    BY <1>3
  <1>8. Read(t).value \in {size, -size}
    BY <1>6, <1>7 DEF Signed
  <1>9. Plain(t) => Read(t).value = Signed(t)
    BY <1>6 DEF Plain, IsSouth
  <1>10. ASSUME ~Plain(t) PROVE Read(t).value = Lettered(t) \/ Read(t).rest
    <2>1. t.form # "hms" /\ ~t.minus /\ (t.lead = "none" \/ t.trail = "none")
      BY <1>10 DEF TextOK, LetteredOK
    <2>2. Signed(t) = size
      BY <2>1 DEF Signed
    <2>3. CASE Stuck(t)
      BY <1>6, <2>3
    <2>4. CASE ~Stuck(t)
      <3>1. IsSouth(t) <=> "south" \in {t.lead, t.trail}
        BY <2>1, <2>4 DEF IsSouth
      <3> QED
        BY <1>6, <2>1, <2>2, <3>1 DEF Lettered
    <2> QED
      BY <2>3, <2>4
  <1> HIDE DEF size
  <1>11. Read(t).value \in Int /\ \E i \in Int : Read(t).value = Digit * i
    <2>1. size \in Int /\ -size \in Int
      BY <1>3
    <2>2. CASE Read(t).value = size
      BY <1>2, <2>1, <2>2
    <2>3. CASE Read(t).value = -size
      BY <1>4, <2>1, <2>3
    <2> QED
      BY <1>8, <2>2, <2>3
  <1>12. Read(t).ok
    BY <1>5, <1>6
  <1> QED
    BY <1>9, <1>10, <1>11, <1>12

-----------------------------------------------------------------------------
\* Each action of a program, or of who writes the text down.

LEMMA DisplayInv == TextInv /\ Display => TextInv'
  <1> SUFFICES ASSUME TextInv, Display PROVE TextInv'
    OBVIOUS
  <1>1. PICK unit \in {"", "s"} : text' \in {PrintDms(meant, unit), PrintHms(meant, unit)} /\ meant' = meant
    BY DEF Display
  <1>2. meant \in Int /\ unit \in Units
    BY DEF TextInv, Units
  <1>3. TextOK(PrintDms(meant, unit), meant) /\ TextOK(PrintHms(meant, unit), meant)
    BY <1>2, PrintedDms, PrintedHms
  <1> QED
    BY <1>1, <1>2, <1>3 DEF TextInv

LEMMA WriteInv == TextInv /\ Write => TextInv'
  <1> SUFFICES ASSUME TextInv, Write PROVE TextInv'
    OBVIOUS
  <1>1. PICK unit \in Units, form \in {"dms", "hms", "decimal"} :
            text' = Text(form, meant < 0, Breakdown(Magnitude(meant)), unit) /\ meant' = meant
    BY DEF Write
  <1>2. meant \in Int
    BY DEF TextInv
  <1> DEFINE minus == meant < 0
             t == Text(form, minus, Breakdown(Magnitude(meant)), unit)
  <1>3. minus \in BOOLEAN /\ (minus <=> meant < 0)
    OBVIOUS
  <1>4. meant = meant - Period(form) * 0
    BY <1>2, PeriodIs
  <1>5. text' = t /\ t = Text(form, minus, Breakdown(Magnitude(meant)), unit)
    BY <1>1
  <1> HIDE DEF minus, t
  <1>6. TextOK(t, meant)
    <2>1. 0 \in Int
      OBVIOUS
    <2> QED
      BY <1>2, <1>3, <1>4, <1>5, <2>1, PlainMade
  <1> QED
    BY <1>1, <1>2, <1>5, <1>6 DEF TextInv

\* Of angles of up to half a circle those that differ but for the sign, and for whole
\* circles, have the same size.
LEMMA SameSize ==
    ASSUME NEW size \in Nat, NEW v \in {size, -size}, NEW w \in Int, NEW p \in Nat \ {0},
           NEW r \in Int, NEW j \in Int, r = w - p * j,
           -p <= 2 * r, 2 * r <= p, 2 * size <= p, Digit <= p, Near(v, w, p)
    PROVE  Near(IF r < 0 THEN -size ELSE size, w, p)
  <1>1. PICK k \in Int : 2 * (v - w - p * k) \in -Digit .. Digit
    BY DEF Near
  <1> DEFINE i == k + j
             e == v - r - p * i
  <1>2. e = v - w - p * k
    <2>1. p * (k + j) = p * k + p * j /\ p * k \in Int /\ p * j \in Int
      BY SMT
    <2>2. v \in Int
      OBVIOUS
    <2> QED
      BY <2>1, <2>2
  <1>3. i \in Int /\ e \in Int /\ 2 * e \in -Digit .. Digit /\ v \in Int /\ v = r + p * i + e
    <2>1. p * i \in Int /\ v \in Int
      BY SMT
    <2> QED
      BY <1>1, <1>2, <2>1
  <1> HIDE DEF i, e
  <1>4. Digit \in Nat \ {0}
    BY SexagesimalAssumption
  <1> DEFINE u == IF r < 0 THEN -size ELSE size
  <1>5. 2 * (u - r) \in -Digit .. Digit
    <2>1. p * i \in Int /\ (i >= 1 => p * i >= p) /\ (i <= -1 => p * i <= -p) /\ (i = 0 => p * i = 0)
      <3>1. p * i \in Int /\ p * (-i) = -(p * i)
        BY <1>3, SMT
      <3>2. i >= 1 => p * i >= p
        BY <1>3, SMT
      <3>3. i <= -1 => p * (-i) >= p
        BY <1>3, SMT
      <3>4. i = 0 => p * i = 0
        BY SMT
      <3> QED
        BY <3>1, <3>2, <3>3, <3>4, SMT
    <2> DEFINE q == p * i
    <2> HIDE DEF q
    <2>2. q \in Int /\ (i >= 1 => q >= p) /\ (i <= -1 => q <= -p) /\ (i = 0 => q = 0) /\ v = r + q + e
      BY <1>3, <2>1 DEF q
    <2>3. CASE r < 0
      BY <1>3, <1>4, <2>2, <2>3, SMT
    <2>4. CASE r >= 0
      BY <1>3, <1>4, <2>2, <2>4, SMT
    <2> QED
      BY <2>3, <2>4
  <1>6. u \in Int
    OBVIOUS
  <1> HIDE DEF u
  <1>7. Near(u, w, p)
    BY <1>5, <1>6, NearRounded
  <1> QED
    BY <1>7 DEF u

LEMMA AnnotateInv == TextInv /\ Annotate => TextInv'
  <1> SUFFICES ASSUME TextInv, Annotate PROVE TextInv'
    OBVIOUS
  <1> DEFINE r == Remainder(meant, Period("dms"))
             to == IF r < 0 THEN "south" ELSE "north"
             size == Size(text.parts)
             p == Period("dms")
  <1>1. PICK side \in {"lead", "trail"}, gap \in BOOLEAN :
            /\ text.form \in {"dms", "decimal"}
            /\ text.lead = "none" /\ text.trail = "none"
            /\ size <= p \div 2
            /\ text' = [text EXCEPT ![side] = to, !.gap = gap, !.minus = FALSE]
            /\ meant' = meant
    BY DEF Annotate
  <1>2. meant \in Int /\ TextOK(text, meant) /\ Plain(text)
    BY <1>1 DEF TextInv, Plain
  <1>3. text \in Shapes /\ Rounded(size) /\ (text.parts.d = 0 <=> size < Degree) /\ PlainOK(text, meant)
    BY <1>2 DEF TextOK
  <1>4. size \in Nat
    BY <1>3 DEF Rounded
  <1>5. p \in Nat \ {0} /\ Digit <= p /\ Period(text.form) = p
    <2>1. p \in Nat \ {0} /\ Digit <= p
      BY PeriodIs
    <2>2. Period(text.form) = p
      BY <1>1 DEF Period
    <2> QED
      BY <2>1, <2>2
  <1>6. r \in Int /\ -p <= 2 * r /\ 2 * r <= p
    BY <1>2, <1>5, RemainderBounds
  <1>7. PICK j \in Int : r = meant - p * j
    BY <1>2, <1>5, RemainderIs
  <1>8. 2 * size <= p
    <2> DEFINE half == p \div 2
    <2>1. size <= half
      BY <1>1
    <2>2. p \in Int /\ 2 \in Nat \ {0}
      BY <1>5
    <2>3. half \in Int /\ p % 2 \in 0 .. 2 - 1 /\ p = half * 2 + (p % 2)
      BY <2>2, QuotientRest
    <2> HIDE DEF half, p, size
    <2> QED
      BY <1>4, <2>1, <2>2, <2>3, SMT
  <1>9. PICK v \in {size, -size} : Near(v, meant, p)
    <2>1. Signed(text) \in {size, -size}
      BY DEF Signed
    <2>2. -Signed(text) \in {size, -size}
      BY <1>4, <2>1
    <2> QED
      BY <1>3, <1>5, <2>1, <2>2 DEF PlainOK
  <1> HIDE DEF r, size, p
  <1>10. Near(IF r < 0 THEN -size ELSE size, meant, p)
    BY <1>2, <1>4, <1>5, <1>6, <1>7, <1>8, <1>9, SameSize
  <1>11. /\ text'.form = text.form /\ text'.parts = text.parts /\ ~text'.minus
         /\ \/ side = "lead" /\ text'.lead = to /\ text'.trail = "none"
            \/ side = "trail" /\ text'.lead = "none" /\ text'.trail = to
         /\ text' \in Shapes
    <2>1. to \in {"none", "north", "south"}
      OBVIOUS
    <2> HIDE DEF to
    <2>2. CASE side = "lead"
      BY <1>1, <1>3, <2>1, <2>2 DEF Shapes
    <2>3. CASE side = "trail"
      BY <1>1, <1>3, <2>1, <2>3 DEF Shapes
    <2> QED
      BY <2>2, <2>3
  <1>12. Lettered(text') = (IF r < 0 THEN -size ELSE size)
    BY <1>11 DEF Lettered, size
  <1>13. ~Plain(text') /\ (text'.lead = "none" \/ text'.trail = "none")
    BY <1>11 DEF Plain
  <1>14. LetteredOK(text', meant)
    BY <1>1, <1>5, <1>10, <1>11, <1>12, <1>13 DEF LetteredOK
  <1>15. TextOK(text', meant)
    BY <1>3, <1>11, <1>13, <1>14 DEF TextOK, size
  <1> QED
    BY <1>1, <1>2, <1>15 DEF TextInv

LEMMA OwnMagnitude == \A n \in Nat : Magnitude(n) = n
  BY DEF Magnitude

LEMMA ReprintInv == TextInv /\ Reprint => TextInv'
  <1> SUFFICES ASSUME TextInv, Reprint PROVE TextInv'
    OBVIOUS
  <1> DEFINE v == Read(text).value
  <1>1. PICK unit \in {"", "s"} :
            /\ ~Read(text).rest
            /\ text' = IF text.form = "hms" THEN PrintHms(v, unit) ELSE PrintDms(v, unit)
            /\ meant' = meant
    BY DEF Reprint
  <1>2. meant \in Int /\ TextOK(text, meant) /\ unit \in Units
    BY DEF TextInv, Units
  <1>3. /\ v \in Int /\ \E j \in Int : v = Digit * j
        /\ Plain(text) => v = Signed(text)
        /\ ~Plain(text) => v = Lettered(text)
    BY <1>1, <1>2, ReadIs
  <1> HIDE DEF v
  <1> DEFINE size == Size(text.parts)
  <1>4. /\ text \in Shapes /\ size \in Nat /\ (text.parts.d = 0 <=> size < Degree)
        /\ Plain(text) => PlainOK(text, meant)
        /\ ~Plain(text) => LetteredOK(text, meant)
    BY <1>2 DEF TextOK, Rounded
  <1> DEFINE p == Period(text.form)
  <1>5. Near(v, meant, p) \/ (text.form # "decimal" /\ v = size /\ v < Degree /\ Near(-v, meant, p))
    <2>1. CASE Plain(text)
      <3>1. CASE text.form # "decimal" /\ text.parts.d = 0
        <4>1. v = size
          BY <1>3, <2>1, <3>1 DEF Signed
        <4> QED
          BY <1>3, <1>4, <2>1, <3>1, <4>1 DEF PlainOK
      <3>2. CASE ~(text.form # "decimal" /\ text.parts.d = 0)
        BY <1>3, <1>4, <2>1, <3>2 DEF PlainOK
      <3> QED
        BY <3>1, <3>2
    <2>2. CASE ~Plain(text)
      BY <1>3, <1>4, <2>2 DEF LetteredOK
    <2> QED
      BY <2>1, <2>2
  <1>6. CASE text.form = "hms"
    <2>1. TextOK(PrintHms(v, unit), meant)
      BY <1>2, <1>3, <1>4, <1>5, <1>6, PrintedHms
    <2> QED
      BY <1>1, <1>2, <1>6, <2>1 DEF TextInv
  <1>7. CASE text.form # "hms"
    <2>1. p = Period("dms")
      BY <1>7 DEF Period
    <2>2. v = size => Magnitude(v) = v
      BY <1>4, OwnMagnitude
    <2>3. Near(v, meant, Period("dms")) \/ (Magnitude(v) < Degree /\ Near(-v, meant, Period("dms")))
      BY <1>5, <2>1, <2>2
    <2>4. TextOK(PrintDms(v, unit), meant)
      BY <1>2, <1>3, <2>3, PrintedDms
    <2> QED
      BY <1>1, <1>2, <1>7, <2>4 DEF TextInv
  <1> QED
    BY <1>6, <1>7

LEMMA TextStart == TextInit => TextInv
  <1> SUFFICES ASSUME TextInit PROVE TextInv
    OBVIOUS
  <1>1. meant \in Int /\ text = PrintDms(meant, "") /\ "" \in Units
    BY SexagesimalAssumption DEF TextInit, Units
  <1>2. TextOK(PrintDms(meant, ""), meant)
    BY <1>1, PrintedDms
  <1> QED
    BY <1>1, <1>2 DEF TextInv

LEMMA TextStep == TextInv /\ [TextNext]_textVars => TextInv'
  <1>1. ASSUME TextInv, UNCHANGED textVars PROVE TextInv'
    BY <1>1 DEF textVars, TextInv
  <1> QED
    BY <1>1, DisplayInv, WriteInv, AnnotateInv, ReprintInv DEF TextNext

\* A right text reads as what was meant, but for the two ways of losing a sign.
LEMMA TextRight == TextInv => TextsReadBack
  <1> SUFFICES ASSUME TextInv PROVE TextsReadBack
    OBVIOUS
  <1> DEFINE p == Period(text.form)
             v == Read(text).value
  <1>1. meant \in Int /\ TextOK(text, meant)
    BY DEF TextInv
  <1>2. /\ Read(text).ok /\ v \in Int
        /\ Plain(text) => v = Signed(text)
        /\ ~Plain(text) => v = Lettered(text) \/ Read(text).rest
    BY <1>1, ReadIs
  <1>3. p \in Nat \ {0} /\ Digit <= p
    BY PeriodIs
  <1> HIDE DEF v
  <1>4. Near(v, meant, p) => ReadsBack
    BY <1>1, <1>2, <1>3, NearIs DEF ReadsBack, Same, v
  <1>5. Near(-v, meant, p) => Same(v, -meant)
    <2>1. -meant \in Int
      BY <1>1
    <2>2. Near(-v, meant, p) => Near(v, -meant, p)
      BY <1>1, <1>2, <1>3, NearNegated
    <2> QED
      BY <1>2, <1>3, <2>1, <2>2, NearIs DEF Same
  <1>6. CASE Plain(text)
    <2>1. v = Signed(text) /\ PlainOK(text, meant)
      BY <1>1, <1>2, <1>6 DEF TextOK
    <2>2. CASE Near(Signed(text), meant, p)
      BY <1>4, <2>1, <2>2 DEF TextsReadBack
    <2>3. CASE text.form # "decimal" /\ text.parts.d = 0 /\ Near(-Signed(text), meant, p)
      <3>1. IsSignLost
        BY <1>5, <1>6, <2>1, <2>3 DEF IsSignLost, Plain, v
      <3> QED
        BY <3>1 DEF TextsReadBack
    <2> QED
      BY <2>1, <2>2, <2>3 DEF PlainOK
  <1>7. CASE ~Plain(text)
    <2>1. LetteredOK(text, meant)
      BY <1>1, <1>7 DEF TextOK
    <2>2. CASE v = Lettered(text)
      BY <1>4, <2>1, <2>2 DEF LetteredOK, TextsReadBack
    <2>3. CASE Read(text).rest /\ v # Lettered(text)
      <3>1. text.trail # "none"
        <4>1. ASSUME text.trail = "none" PROVE FALSE
          <5>1. text.form # "hms" /\ ~text.minus
            BY <2>1 DEF LetteredOK
          <5>2. v = IF IsSouth(text) THEN -Size(text.parts) ELSE Size(text.parts)
            BY <5>1 DEF v, Read
          <5>3. IsSouth(text) <=> text.lead = "south"
            BY <4>1 DEF IsSouth
          <5> QED
            BY <2>3, <4>1, <5>2, <5>3 DEF Lettered
        <4> QED
          BY <4>1
      <3> QED
        BY <2>3, <3>1 DEF TextsReadBack
    <2> QED
      BY <1>2, <1>7, <2>2, <2>3
  <1> QED
    BY <1>6, <1>7

\* Angles and times of day read back as they were meant whatever is done to their
\* texts: novas_print_dms() and novas_print_hms() write them, novas_str_degrees()
\* and novas_str_hours() read them, for any number of digits and any values, and
\* rounding is not carried wrongly nor added up.  What is lost is the sign of less
\* than a degree, which novas_print_dms() does not write, and what stands after a
\* unit, of which errno tells.
THEOREM TextsRight == TextSpec => []TextsReadBack
  <1>1. TextInv => TextsReadBack
    BY TextRight
  <1> QED
    BY <1>1, TextStart, TextStep, PTL DEF TextSpec

=============================================================================
