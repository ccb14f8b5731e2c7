------------------------------ MODULE Builders ------------------------------
(***************************************************************************)
(* Objects of the C++ API that are made by a chain of calls: entries of    *)
(* catalogs (CatalogEntry.cpp, with the functions of target.c that it      *)
(* calls) and orbits (Orbital.cpp).  A call with a value that cannot be    *)
(* takes the mark of validity away; a later one with a good value looks at *)
(* the whole object, and may give it back.                                 *)
(*                                                                         *)
(* A value is "some" or "zero", or one that should be refused: "negative", *)
(* "nan", "fast" (faster than light).  Others of a kind are left out, and  *)
(* infinite ones.                                                          *)
(***************************************************************************)

VARIABLES
    entry,          \* a CatalogEntry
    system,         \* an OrbitalSystem
    orbital,        \* an Orbital
    refused         \* the last call on the entry has set an error

builderVars == <<entry, system, orbital, refused>>

Numbers == {"some", "zero", "negative", "nan"}

MarkedByLastCall(valid, bad, sane) == ~bad      \* fault: an earlier value is forgotten

\* The mark after a call with a value that is bad or not, if what is there now is sane.
Marked(valid, bad, sane) == ~bad /\ (valid \/ sane)

-----------------------------------------------------------------------------
\* Entries of catalogs.

\* CatalogEntry::validate()
EntrySane(e) ==
    /\ e.coords = "some"
    /\ e.parallax \in {"some", "zero"}
    /\ e.motion # "nan" /\ e.velocity # "nan"

\* A value was given for a field and another stored, or the same.
Given(field, value, stored, bad) ==
    /\ entry' =
          LET e == [entry EXCEPT ![field] = stored,
                                 !.skipped = IF stored = value THEN @ \ {field} ELSE @ \cup {field}]
          IN  [e EXCEPT !.valid = Marked(@, bad, EntrySane(e))]
    /\ refused' = bad
    /\ UNCHANGED <<system, orbital>>

\* novas_set_parallax() drops the sign; of a distance it is given the reciprocal.
StoredParallax(value) == IF value = "negative" THEN "some" ELSE value

\* novas_set_ssb_vel() leaves the velocity that is there.
StoredVelocity(value) == IF value \in {"fast", "swift"} THEN entry.velocity ELSE value

ProperMotion == \E value \in {"some", "nan"} : Given("motion", value, value, value = "nan")

Parallax ==
    \E value \in Numbers :
        Given("parallax", value, StoredParallax(value), value \in {"negative", "nan"})

Distance ==
    \E value \in Numbers :
        LET reciprocal == IF value = "zero" THEN "infinite" ELSE value
        IN  Given("parallax", reciprocal, StoredParallax(reciprocal), value \in {"negative", "nan"})

RadialVelocity ==
    \E value \in {"some", "fast", "nan"} :
        Given("velocity", value, StoredVelocity(value), value # "some")

\* A velocity below that of light may be above it at the barycenter.
VLsr ==
    \E value \in {"some", "swift", "fast", "nan"} :
        Given("velocity", value, StoredVelocity(value), value \in {"fast", "nan"})

\* novas_set_redshift() stores none that it refuses.
Redshift ==
    \E z \in {"some", "negative", "nan"} :
        Given("velocity", z, IF z = "some" THEN z ELSE entry.velocity, z # "some")

\* CatalogEntry(name, coords): a name that is too long is cut.
NewEntry(coords, short) ==
    [coords |-> coords, motion |-> "zero", parallax |-> "zero", velocity |-> "zero",
     skipped |-> IF short THEN {} ELSE {"name"}, valid |-> short /\ coords = "some"]

NameEntry ==
    \E coords \in {"some", "nan"}, short \in BOOLEAN :
        /\ entry' = NewEntry(coords, short)
        /\ refused' = ~entry'.valid
        /\ UNCHANGED <<system, orbital>>

\* CatalogEntry(e, system)
ImportEntry ==
    \E coords \in {"some", "nan"}, parallax \in Numbers, velocity \in {"some", "fast", "nan"} :
        /\ entry' =
              LET e == [NewEntry(coords, TRUE) EXCEPT !.parallax = parallax, !.velocity = velocity]
              IN  [e EXCEPT !.valid = EntrySane(e)]
        /\ refused' = ~entry'.valid
        /\ UNCHANGED <<system, orbital>>

-----------------------------------------------------------------------------
\* Orbits.

\* OrbitalSystem(): only the number of the central body is looked at.
MakeSystem ==
    \E center \in {"some", "nan"} :
        /\ system' = [center |-> center, angles |-> "some", type |-> "some", valid |-> center = "some"]
        /\ UNCHANGED <<entry, orbital, refused>>

\* OrbitalSystem::orientation(): an equinox without a date has a type, but is invalid.
Orientation ==
    \E angles \in {"some", "nan"}, equinox \in {"some", "undated", "unknown"} :
        /\ system' =
              [system EXCEPT !.angles = angles,
                             !.type = IF equinox = "unknown" THEN "nan" ELSE "some",
                             !.valid = IF system.center = "some" THEN angles = "some" /\ equinox = "some" ELSE @]
        /\ UNCHANGED <<entry, orbital, refused>>

\* An orbit has the values of a system only, which it looks at itself.
SystemSane(s) == s.center = "some" /\ s.angles = "some" /\ s.type = "some"

\* Orbital::validate()
OrbitSane(o) ==
    /\ SystemSane(o.system)
    /\ o.size = "some" /\ o.shape = "some" /\ o.tilt = "some" /\ o.apsis = "some" /\ o.node = "some"

\* Its size is that of the semi-major axis, or the period.
NewOrbital(s, size) ==
    LET o == [system |-> s, size |-> size, shape |-> "some", tilt |-> "some",
              apsis |-> "some", node |-> "some", valid |-> FALSE]
    IN  [o EXCEPT !.valid = OrbitSane(o)]

MakeOrbital ==
    /\ \E size \in Numbers : orbital' = NewOrbital(system, size)
    /\ UNCHANGED <<entry, system, refused>>

\* A value given for a field of the orbit, and stored in any case.
Formed(field, value, bad) ==
    /\ orbital' =
          LET o == [orbital EXCEPT ![field] = value]
          IN  [o EXCEPT !.valid = Marked(@, bad, OrbitSane(o))]
    /\ UNCHANGED <<entry, system, refused>>

Eccentricity == \E e \in {"some", "negative", "nan"} : Formed("shape", e, e # "some")

Inclination == \E angles \in {"some", "nan"} : Formed("tilt", angles, angles = "nan")

\* Periods, or rates, of which that of zero has a period without end.
ApsisPeriod == \E period \in {"some", "nan"} : Formed("apsis", period, period = "nan")
NodePeriod  == \E period \in {"some", "nan"} : Formed("node", period, period = "nan")

BuilderInit ==
    /\ entry = NewEntry("some", TRUE) /\ refused = FALSE
    /\ system = [center |-> "some", angles |-> "some", type |-> "some", valid |-> TRUE]
    /\ orbital = NewOrbital(system, "some")

EntryNext ==
    \/ NameEntry \/ ImportEntry
    \/ ProperMotion \/ Parallax \/ Distance \/ RadialVelocity \/ VLsr \/ Redshift

OrbitNext ==
    \/ MakeSystem \/ Orientation \/ MakeOrbital
    \/ Eccentricity \/ Inclination \/ ApsisPeriod \/ NodePeriod

BuilderSpec == BuilderInit /\ [][EntryNext \/ OrbitNext]_builderVars

-----------------------------------------------------------------------------
\* An entry is valid, after any chain of calls, as soon as what it holds is and the
\* last call was not refused, and only then; but for the infinite parallax of a
\* source at no distance, which a valid entry may have.
EntryIsSane ==
    /\ entry.valid => EntrySane([entry EXCEPT !.parallax = IF @ = "infinite" THEN "some" ELSE @])
    /\ EntrySane(entry) /\ ~refused => entry.valid

\* It holds what it was last given for each field, and nothing that cannot be.
EntryIsAsGiven == entry.valid => entry.skipped = {} /\ entry.parallax # "infinite" /\ entry.velocity # "fast"

\* An orbit is valid, after any chain of calls, exactly if all that it holds is.
OrbitIsSane == orbital.valid <=> OrbitSane(orbital)

\* The marks of what CatalogEntry and Orbital build tell what they have got.
MarksAreTrue == EntryIsSane /\ OrbitIsSane

\* A valid orbit was made in a valid system.
OrbitOfValidSystem == orbital.valid => orbital.system.valid

=============================================================================
