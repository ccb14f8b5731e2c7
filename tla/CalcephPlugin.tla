--------------------------- MODULE CalcephPlugin ---------------------------
(***************************************************************************)
(* src/src/c99/solsys-calceph.c: threads ask for the positions of planets, *)
(* which come from one ephemeris, and of other bodies, which come from the *)
(* same one or from another, through the CALCEPH library.  An ephemeris    *)
(* that CALCEPH cannot use in parallel is guarded by the mutex of its use, *)
(* or of both its uses.  The ephemerides may be changed meanwhile.         *)
(* Unlocking a mutex leaves it free, whoever holds it.                     *)
(***************************************************************************)
EXTENDS Naturals

CONSTANTS
    Proc,           \* the threads of the calling program
    Ephem,          \* ephemerides that the program has opened
    ThreadSafe,     \* those for which calceph_isthreadsafe() is true
    QuietConfig,    \* TRUE if configuration calls never overlap other calls
    QuietNames,     \* TRUE if a lookup by name never overlaps another call
    None            \* the NULL ephemeris, no thread

ASSUME ConstantAssumption ==
    /\ ThreadSafe \subseteq Ephem
    /\ QuietConfig \in BOOLEAN
    /\ QuietNames \in BOOLEAN
    /\ None \notin Ephem \cup Proc

VARIABLES
    planets,        \* the ephemeris for the planets
    bodies,         \* the ephemeris for other bodies
    serialized,     \* serialized_calceph_queries
    planetMutex,    \* the owner of planet_mutex
    bodiesMutex,    \* the owner of bodies_mutex
    pc,             \* where each thread is
    eph,            \* the ephemeris read, or to be set, by the call in progress
    parallel,       \* the local of that name
    stolen,         \* history: a mutex was unlocked that another thread held, or none
    separate        \* history: novas_use_calceph_planets() was called by the program

vars == <<planets, bodies, serialized, planetMutex, bodiesMutex, pc, eph, parallel, stolen, separate>>
config == <<planets, bodies, serialized, separate>>

PlanetCall == {"planetLock", "planetRead", "planetBodies", "planetUse", "planetTest", "planetUnlock"}
BodyCall   == {"name", "bodyLock", "bodyRead", "bodyUse", "bodyUnlock"}
ConfigCall == {"setBodies", "testPlanets", "setPlanets"}

TypeOK ==
    /\ planets \in Ephem \cup {None}
    /\ bodies \in Ephem \cup {None}
    /\ serialized \in BOOLEAN
    /\ planetMutex \in Proc \cup {None}
    /\ bodiesMutex \in Proc \cup {None}
    /\ pc \in [Proc -> {"idle"} \cup PlanetCall \cup BodyCall \cup ConfigCall]
    /\ eph \in [Proc -> Ephem \cup {None}]
    /\ parallel \in [Proc -> BOOLEAN]
    /\ stolen \in BOOLEAN
    /\ separate \in BOOLEAN

Init ==
    /\ planets = None
    /\ bodies = None
    /\ serialized = TRUE
    /\ planetMutex = None
    /\ bodiesMutex = None
    /\ pc = [p \in Proc |-> "idle"]
    /\ eph = [p \in Proc |-> None]
    /\ parallel = [p \in Proc |-> FALSE]
    /\ stolen = FALSE
    /\ separate = FALSE

Goto(p, label) == pc' = [pc EXCEPT ![p] = label]

\* Configuration calls, and lookups by name, may be kept apart from other calls.
AllIdle   == \A q \in Proc : pc[q] = "idle"
MayCall   == /\ QuietConfig => \A q \in Proc : pc[q] \notin ConfigCall
             /\ QuietNames => \A q \in Proc : pc[q] # "name"
MayConfig == QuietConfig => AllIdle
MayName   == QuietNames => AllIdle

\* Whether a query of e needs no mutex.
Parallel(e) == ~serialized /\ e \in ThreadSafe

UnlockPlanets(p) == planetMutex' = None
UnlockBodies(p)  == bodiesMutex' = None

----------------------------------------------------------------------------
(* planet_calceph_hp(), which has been made the planet provider. *)

CallPlanet(p) ==
    /\ pc[p] = "idle" /\ MayCall
    /\ planets # None
    /\ Goto(p, "planetLock")
    /\ UNCHANGED <<config, planetMutex, bodiesMutex, eph, parallel, stolen>>

LockPlanets(p) ==
    /\ pc[p] = "planetLock"
    /\ planetMutex = None
    /\ planetMutex' = p
    /\ Goto(p, "planetRead")
    /\ UNCHANGED <<config, bodiesMutex, eph, parallel, stolen>>

ReadPlanets(p) ==
    /\ pc[p] = "planetRead"
    /\ eph' = [eph EXCEPT ![p] = planets]
    /\ parallel' = [parallel EXCEPT ![p] = Parallel(planets)]
    /\ \/ /\ Parallel(planets)
          /\ UnlockPlanets(p)
          /\ Goto(p, "planetUse")
       \/ /\ ~Parallel(planets)
          /\ Goto(p, IF planets = bodies THEN "planetBodies" ELSE "planetUse")
          /\ UNCHANGED planetMutex
    /\ UNCHANGED <<config, bodiesMutex, stolen>>

\* Fault: the ephemeris is not locked for its other use.
SkipBodies(p) ==
    /\ pc[p] = "planetBodies"
    /\ Goto(p, "planetUse")
    /\ UNCHANGED <<config, planetMutex, bodiesMutex, eph, parallel, stolen>>

LockSameBodies(p) ==
    /\ pc[p] = "planetBodies"
    /\ bodiesMutex = None
    /\ bodiesMutex' = p
    /\ Goto(p, "planetUse")
    /\ UNCHANGED <<config, planetMutex, eph, parallel, stolen>>

\* The query is under way while pc is "planetUse", and ends with this step.
UsePlanets(p) ==
    /\ pc[p] = "planetUse"
    /\ Goto(p, IF parallel[p] THEN "idle" ELSE "planetTest")
    /\ UNCHANGED <<config, planetMutex, bodiesMutex, eph, parallel, stolen>>

\* Fault: bodies_mutex is left locked.
TestNothing(p) ==
    /\ pc[p] = "planetTest"
    /\ Goto(p, "planetUnlock")
    /\ UNCHANGED <<config, planetMutex, bodiesMutex, eph, parallel, stolen>>

\* Whether bodies_mutex is to be unlocked is asked of bodies again.
TestSameBodies(p) ==
    /\ pc[p] = "planetTest"
    /\ Goto(p, "planetUnlock")
    /\ \/ /\ eph[p] = bodies
          /\ UnlockBodies(p)
          /\ stolen' = (stolen \/ bodiesMutex # p)
       \/ /\ eph[p] # bodies
          /\ UNCHANGED <<bodiesMutex, stolen>>
    /\ UNCHANGED <<config, planetMutex, eph, parallel>>

DonePlanets(p) ==
    /\ pc[p] = "planetUnlock"
    /\ UnlockPlanets(p)
    /\ stolen' = (stolen \/ planetMutex # p)
    /\ Goto(p, "idle")
    /\ UNCHANGED <<config, bodiesMutex, eph, parallel>>

----------------------------------------------------------------------------
(* novas_calceph(), which has been made the ephemeris provider. *)

CallBody(p) ==
    /\ pc[p] = "idle" /\ MayCall
    /\ bodies # None
    /\ \/ Goto(p, "bodyLock") /\ UNCHANGED eph
       \/ MayName /\ Goto(p, "name") /\ eph' = [eph EXCEPT ![p] = bodies]
    /\ UNCHANGED <<config, planetMutex, bodiesMutex, parallel, stolen>>

\* calceph_getidbyname() of the ephemeris, without a mutex.
FindName(p) ==
    /\ pc[p] = "name"
    /\ \E found \in BOOLEAN : Goto(p, IF found THEN "bodyLock" ELSE "idle")
    /\ UNCHANGED <<config, planetMutex, bodiesMutex, eph, parallel, stolen>>

LockBodies(p) ==
    /\ pc[p] = "bodyLock"
    /\ bodiesMutex = None
    /\ bodiesMutex' = p
    /\ Goto(p, "bodyRead")
    /\ UNCHANGED <<config, planetMutex, eph, parallel, stolen>>

ReadBodies(p) ==
    /\ pc[p] = "bodyRead"
    /\ eph' = [eph EXCEPT ![p] = bodies]
    /\ parallel' = [parallel EXCEPT ![p] = Parallel(bodies)]
    /\ Goto(p, "bodyUse")
    /\ \/ Parallel(bodies) /\ UnlockBodies(p)
       \/ ~Parallel(bodies) /\ UNCHANGED bodiesMutex
    /\ UNCHANGED <<config, planetMutex, stolen>>

UseBodies(p) ==
    /\ pc[p] = "bodyUse"
    /\ Goto(p, IF parallel[p] THEN "idle" ELSE "bodyUnlock")
    /\ UNCHANGED <<config, planetMutex, bodiesMutex, eph, parallel, stolen>>

DoneBodies(p) ==
    /\ pc[p] = "bodyUnlock"
    /\ UnlockBodies(p)
    /\ stolen' = (stolen \/ bodiesMutex # p)
    /\ Goto(p, "idle")
    /\ UNCHANGED <<config, planetMutex, eph, parallel>>

----------------------------------------------------------------------------
(* The configuration calls. *)

CallUseCalceph(p, e) ==
    /\ pc[p] = "idle" /\ MayConfig
    /\ Goto(p, "setBodies")
    /\ eph' = [eph EXCEPT ![p] = e]
    /\ UNCHANGED <<config, planetMutex, bodiesMutex, parallel, stolen>>

CallUseCalcephPlanets(p, e) ==
    /\ pc[p] = "idle" /\ MayConfig
    /\ Goto(p, "setPlanets")
    /\ eph' = [eph EXCEPT ![p] = e]
    /\ separate' = TRUE
    /\ UNCHANGED <<planets, bodies, serialized, planetMutex, bodiesMutex, parallel, stolen>>

\* Lock, set, unlock.
SetBodies(p) ==
    /\ pc[p] = "setBodies"
    /\ bodiesMutex = None
    /\ bodies' = eph[p]
    /\ Goto(p, "testPlanets")
    /\ UNCHANGED <<planets, serialized, planetMutex, bodiesMutex, eph, parallel, stolen, separate>>

\* The first ephemeris is used for the planets also.
TestPlanets(p) ==
    /\ pc[p] = "testPlanets"
    /\ Goto(p, IF planets = None THEN "setPlanets" ELSE "idle")
    /\ UNCHANGED <<config, planetMutex, bodiesMutex, eph, parallel, stolen>>

SetPlanets(p) ==
    /\ pc[p] = "setPlanets"
    /\ planetMutex = None
    /\ planets' = eph[p]
    /\ Goto(p, "idle")
    /\ UNCHANGED <<bodies, serialized, planetMutex, bodiesMutex, eph, parallel, stolen, separate>>

\* The program sets serialized_calceph_queries.
SetSerialized(p) ==
    /\ pc[p] = "idle" /\ MayConfig
    /\ serialized' = ~serialized
    /\ UNCHANGED <<planets, bodies, planetMutex, bodiesMutex, pc, eph, parallel, stolen, separate>>

----------------------------------------------------------------------------

Step(p) ==
    \/ LockPlanets(p) \/ ReadPlanets(p) \/ LockSameBodies(p) \/ UsePlanets(p)
    \/ TestSameBodies(p) \/ DonePlanets(p)
    \/ FindName(p) \/ LockBodies(p) \/ ReadBodies(p) \/ UseBodies(p) \/ DoneBodies(p)
    \/ SetBodies(p) \/ TestPlanets(p) \/ SetPlanets(p)

Next == \E p \in Proc : \/ Step(p) \/ CallPlanet(p) \/ CallBody(p) \/ SetSerialized(p)
                        \/ \E e \in Ephem : CallUseCalceph(p, e) \/ CallUseCalcephPlanets(p, e)

Spec == Init /\ [][Next]_vars

\* A call that can go on does, and a mutex that comes free again and again is
\* had in the end.
FairSpec == Spec /\ \A p \in Proc : SF_vars(Step(p))

----------------------------------------------------------------------------
(* Properties. *)

\* The ephemeris that each thread is inside CALCEPH with, of those that cannot
\* be used in parallel.
InUse == [p \in Proc |->
    IF pc[p] \in {"planetUse", "bodyUse", "name"} /\ eph[p] \notin ThreadSafe THEN eph[p] ELSE None]

Ephemerides == INSTANCE ExclusiveUse WITH
    Resource <- Ephem \ ThreadSafe, Nothing <- None, using <- InUse

\* An ephemeris that cannot be used in parallel is used by one thread at a
\* time, even if it is in use for planets and for bodies both.
SerialAccess == Ephemerides!Spec

\* The same as an invariant.
NoParallelUse == Ephemerides!Exclusive

\* A thread unlocks what it has locked.
UnlocksOwn == ~stolen

\* A mutex is free when no thread is in a call.
IdleUnlocked == AllIdle => planetMutex = None /\ bodiesMutex = None

\* As long as the program has not named a separate ephemeris for the planets,
\* they come from the one that it named last.
PlanetsFollow ==
    (\A p \in Proc : pc[p] \notin ConfigCall) /\ ~separate /\ bodies # None => planets = bodies

\* Every call returns: the two mutexes are never waited for in a circle.
CallReturns == \A p \in Proc : pc[p] # "idle" ~> pc[p] = "idle"

=============================================================================
