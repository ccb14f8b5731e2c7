------------------------- MODULE CalcephPluginProofs -------------------------
(***************************************************************************)
(* Proofs about CalcephPlugin, for any number of threads and ephemerides,  *)
(* if configuration calls and lookups by name are kept apart from other    *)
(* calls: an ephemeris that cannot be used in parallel is used by one      *)
(* thread at a time, and each mutex is unlocked by its owner.              *)
(***************************************************************************)
EXTENDS CalcephPlugin, TLAPS

\* The threads that hold each mutex.
HoldsPlanets(p) == \/ pc[p] \in {"planetRead", "planetBodies", "planetTest", "planetUnlock"}
                   \/ pc[p] = "planetUse" /\ ~parallel[p]
HoldsBodies(p)  == \/ pc[p] \in {"bodyRead", "bodyUnlock"}
                   \/ pc[p] = "bodyUse" /\ ~parallel[p]
                   \/ pc[p] \in {"planetUse", "planetTest"} /\ ~parallel[p] /\ eph[p] = bodies

Owners ==
    /\ \A p \in Proc : HoldsPlanets(p) <=> planetMutex = p
    /\ \A p \in Proc : HoldsBodies(p) <=> bodiesMutex = p

\* What each thread has read of the configuration is still so.
Current ==
    \A p \in Proc :
        /\ pc[p] \in PlanetCall => planets # None
        /\ pc[p] \in BodyCall => bodies # None
        /\ pc[p] \in {"planetBodies", "planetUse", "planetTest", "planetUnlock"} => eph[p] = planets
        /\ pc[p] \in {"name", "bodyUse", "bodyUnlock"} => eph[p] = bodies
        /\ pc[p] = "planetBodies" => planets = bodies
        /\ pc[p] \in {"planetBodies", "planetTest", "planetUnlock", "bodyUnlock"} => ~parallel[p]
        /\ pc[p] \in {"planetUse", "bodyUse"} /\ parallel[p] => eph[p] \in ThreadSafe

\* A thread that changes the configuration, or looks up a name, is alone.
Alone == \A p, q \in Proc : pc[p] \in ConfigCall \cup {"name"} /\ p # q => pc[q] = "idle"

CalcephInv == TypeOK /\ Owners /\ Current /\ Alone /\ UnlocksOwn

LEMMA CalcephInit == Init => CalcephInv
BY ConstantAssumption DEF Init, CalcephInv, TypeOK, Owners, HoldsPlanets, HoldsBodies, Current, Alone, UnlocksOwn,
                          PlanetCall, BodyCall, ConfigCall

LEMMA CalcephStep == ASSUME QuietConfig, QuietNames PROVE CalcephInv /\ [Next]_vars => CalcephInv'
<1> SUFFICES ASSUME CalcephInv, [Next]_vars PROVE CalcephInv'
  OBVIOUS
<1> USE ConstantAssumption DEF CalcephInv, TypeOK, PlanetCall, BodyCall, ConfigCall, Goto, config,
           Owners, HoldsPlanets, HoldsBodies, Current, Alone, UnlocksOwn
<1>1. ASSUME NEW p \in Proc, CallPlanet(p) PROVE CalcephInv'
  BY <1>1 DEF CallPlanet, MayCall
<1>2. ASSUME NEW p \in Proc, LockPlanets(p) PROVE CalcephInv'
  BY <1>2 DEF LockPlanets
<1>3. ASSUME NEW p \in Proc, ReadPlanets(p) PROVE CalcephInv'
  <2> USE <1>3 DEF ReadPlanets, UnlockPlanets, UnlockBodies
  <2>1. TypeOK'
    BY DEF Parallel
  <2>2. Alone' /\ UnlocksOwn'
    BY DEF Alone, UnlocksOwn
  <2>3. CASE Parallel(planets)
    <3> USE <2>3
    <3>1. \A q \in Proc : HoldsPlanets(q)' <=> planetMutex' = q
      BY DEF Owners, HoldsPlanets
    <3>2. \A q \in Proc : HoldsBodies(q)' <=> bodiesMutex' = q
      BY DEF Owners, HoldsBodies
    <3>3. Current'
      BY DEF Current, Parallel
    <3> QED
      BY <2>1, <2>2, <3>1, <3>2, <3>3 DEF Owners
  <2>4. CASE ~Parallel(planets)
    <3> USE <2>4
    <3>1. \A q \in Proc : HoldsPlanets(q)' <=> planetMutex' = q
      BY DEF Owners, HoldsPlanets
    <3>2. \A q \in Proc : HoldsBodies(q)' <=> bodiesMutex' = q
      BY DEF Owners, HoldsBodies
    <3>3. Current'
      BY DEF Current
    <3> QED
      BY <2>1, <2>2, <3>1, <3>2, <3>3 DEF Owners
  <2> QED
    BY <2>1, <2>2, <2>3, <2>4
<1>4. ASSUME NEW p \in Proc, LockSameBodies(p) PROVE CalcephInv'
  BY <1>4 DEF LockSameBodies
<1>5. ASSUME NEW p \in Proc, UsePlanets(p) PROVE CalcephInv'
  BY <1>5 DEF UsePlanets
<1>6. ASSUME NEW p \in Proc, TestSameBodies(p) PROVE CalcephInv'
  BY <1>6 DEF TestSameBodies, UnlockBodies
<1>7. ASSUME NEW p \in Proc, DonePlanets(p) PROVE CalcephInv'
  BY <1>7 DEF DonePlanets, UnlockPlanets
<1>8. ASSUME NEW p \in Proc, CallBody(p) PROVE CalcephInv'
  BY <1>8 DEF CallBody, MayCall, MayName, AllIdle
<1>9. ASSUME NEW p \in Proc, FindName(p) PROVE CalcephInv'
  BY <1>9 DEF FindName
<1>10. ASSUME NEW p \in Proc, LockBodies(p) PROVE CalcephInv'
  BY <1>10 DEF LockBodies
<1>11. ASSUME NEW p \in Proc, ReadBodies(p) PROVE CalcephInv'
  <2> USE <1>11 DEF ReadBodies, UnlockPlanets, UnlockBodies
  <2>1. TypeOK'
    BY DEF Parallel
  <2>2. Alone' /\ UnlocksOwn'
    BY DEF Alone, UnlocksOwn
  <2>3. CASE Parallel(bodies)
    <3> USE <2>3
    <3>1. \A q \in Proc : HoldsPlanets(q)' <=> planetMutex' = q
      BY DEF Owners, HoldsPlanets
    <3>2. \A q \in Proc : HoldsBodies(q)' <=> bodiesMutex' = q
      BY DEF Owners, HoldsBodies
    <3>3. Current'
      BY DEF Current, Parallel
    <3> QED
      BY <2>1, <2>2, <3>1, <3>2, <3>3 DEF Owners
  <2>4. CASE ~Parallel(bodies)
    <3> USE <2>4
    <3>1. \A q \in Proc : HoldsPlanets(q)' <=> planetMutex' = q
      BY DEF Owners, HoldsPlanets
    <3>2. \A q \in Proc : HoldsBodies(q)' <=> bodiesMutex' = q
      BY DEF Owners, HoldsBodies
    <3>3. Current'
      BY DEF Current
    <3> QED
      BY <2>1, <2>2, <3>1, <3>2, <3>3 DEF Owners
  <2> QED
    BY <2>1, <2>2, <2>3, <2>4
<1>12. ASSUME NEW p \in Proc, UseBodies(p) PROVE CalcephInv'
  BY <1>12 DEF UseBodies
<1>13. ASSUME NEW p \in Proc, DoneBodies(p) PROVE CalcephInv'
  BY <1>13 DEF DoneBodies, UnlockBodies
<1>14. ASSUME NEW p \in Proc, SetBodies(p) PROVE CalcephInv'
  BY <1>14 DEF SetBodies
<1>15. ASSUME NEW p \in Proc, TestPlanets(p) PROVE CalcephInv'
  BY <1>15 DEF TestPlanets
<1>16. ASSUME NEW p \in Proc, SetPlanets(p) PROVE CalcephInv'
  BY <1>16 DEF SetPlanets
<1>17. ASSUME NEW p \in Proc, SetSerialized(p) PROVE CalcephInv'
  BY <1>17 DEF SetSerialized, MayConfig, AllIdle
<1>18. ASSUME NEW p \in Proc, NEW e \in Ephem, CallUseCalceph(p, e) PROVE CalcephInv'
  BY <1>18 DEF CallUseCalceph, MayConfig, AllIdle
<1>19. ASSUME NEW p \in Proc, NEW e \in Ephem, CallUseCalcephPlanets(p, e) PROVE CalcephInv'
  BY <1>19 DEF CallUseCalcephPlanets, MayConfig, AllIdle
<1>20. CASE UNCHANGED vars
  BY <1>20 DEF vars, Owners, HoldsPlanets, HoldsBodies, Current, Alone, UnlocksOwn
<1> QED
  BY <1>1, <1>2, <1>3, <1>4, <1>5, <1>6, <1>7, <1>8, <1>9, <1>10, <1>11, <1>12, <1>13, <1>14, <1>15, <1>16, <1>17, <1>18, <1>19, <1>20 DEF Next, Step

LEMMA CalcephInvariant == ASSUME QuietConfig, QuietNames PROVE Spec => []CalcephInv
BY CalcephInit, CalcephStep, PTL DEF Spec

----------------------------------------------------------------------------

\* The variables always hold values of their types.
THEOREM CalcephTypeCorrect == ASSUME QuietConfig, QuietNames PROVE Spec => []TypeOK
BY CalcephInvariant, PTL DEF CalcephInv

\* A call of the plugin unlocks the mutexes that it has locked itself, though
\* it decides which those are by reading the configuration a second time.
THEOREM OwnUnlocked == ASSUME QuietConfig, QuietNames PROVE Spec => []UnlocksOwn
BY CalcephInvariant, PTL DEF CalcephInv

LEMMA NobodyHolds == CalcephInv => IdleUnlocked
BY ConstantAssumption DEF CalcephInv, TypeOK, IdleUnlocked, AllIdle, Owners, HoldsPlanets, HoldsBodies

\* No call returns with a mutex locked.
THEOREM NothingLeftLocked == ASSUME QuietConfig, QuietNames PROVE Spec => []IdleUnlocked
BY CalcephInvariant, NobodyHolds, PTL

----------------------------------------------------------------------------

LEMMA UsedAlone == CalcephInv => NoParallelUse
<1> SUFFICES ASSUME CalcephInv, NEW p \in Proc, NEW q \in Proc, p # q, InUse[p] = InUse[q], InUse[p] # None
             PROVE  FALSE
  BY DEF NoParallelUse, Ephemerides!Exclusive
<1> USE DEF CalcephInv, TypeOK, PlanetCall, BodyCall, ConfigCall
<1>1. /\ pc[p] \in {"planetUse", "bodyUse", "name"}
      /\ pc[q] \in {"planetUse", "bodyUse", "name"}
      /\ eph[p] = eph[q]
      /\ eph[p] \notin ThreadSafe
  BY DEF InUse
<1>2. pc[p] # "name" /\ pc[q] # "name"
  BY <1>1 DEF Alone
<1>3. ~parallel[p] /\ ~parallel[q]
  BY <1>1, <1>2 DEF Current
<1>4. CASE pc[p] = "planetUse" /\ pc[q] = "planetUse"
  BY <1>3, <1>4 DEF Owners, HoldsPlanets
<1>5. CASE pc[p] = "bodyUse" /\ pc[q] = "bodyUse"
  BY <1>3, <1>5 DEF Owners, HoldsBodies
<1>6. CASE pc[p] = "planetUse" /\ pc[q] = "bodyUse"
  BY <1>1, <1>3, <1>6 DEF Owners, HoldsBodies, Current
<1>7. CASE pc[p] = "bodyUse" /\ pc[q] = "planetUse"
  BY <1>1, <1>3, <1>7 DEF Owners, HoldsBodies, Current
<1> QED
  BY <1>1, <1>2, <1>4, <1>5, <1>6, <1>7

\* An ephemeris that CALCEPH cannot use in parallel is used by one thread at a
\* time, whether for planets, for bodies or for both: the plugin implements
\* ExclusiveUse.
THEOREM EphemeridesExclusive == ASSUME QuietConfig, QuietNames PROVE Spec => SerialAccess
<1>1. Init => Ephemerides!Init
  BY DEF Init, Ephemerides!Init, InUse
<1>2. CalcephInv /\ CalcephInv' /\ NoParallelUse' /\ [Next]_vars => [Ephemerides!Next]_InUse
  <2> SUFFICES ASSUME CalcephInv, CalcephInv', NoParallelUse', [Next]_vars
               PROVE  Ephemerides!Next \/ InUse' = InUse
    OBVIOUS
  <2> USE ConstantAssumption DEF CalcephInv, TypeOK, PlanetCall, BodyCall, ConfigCall
  <2>1. ASSUME NEW p \in Proc, InUse[p] = None, \A q \in Proc \ {p} : InUse'[q] = InUse[q]
        PROVE  Ephemerides!Next \/ InUse' = InUse
    <3>1. CASE InUse'[p] = None
      BY <2>1, <3>1 DEF InUse
    <3>2. CASE InUse'[p] # None
      <4> DEFINE e == InUse'[p]
      <4>1. e \in Ephem \ ThreadSafe
        BY <3>2 DEF InUse
      <4>2. \A q \in Proc : InUse[q] # e
        BY <2>1, <3>2 DEF NoParallelUse, Ephemerides!Exclusive
      <4>3. InUse' = [InUse EXCEPT ![p] = e]
        BY <2>1 DEF InUse
      <4> QED
        BY <2>1, <4>1, <4>2, <4>3 DEF Ephemerides!Next, Ephemerides!Begin
    <3> QED
      BY <3>1, <3>2
  <2>2. ASSUME NEW p \in Proc, InUse'[p] = None, \A q \in Proc \ {p} : InUse'[q] = InUse[q]
        PROVE  Ephemerides!Next \/ InUse' = InUse
    <3>1. CASE InUse[p] = None
      BY <2>2, <3>1 DEF InUse
    <3>2. CASE InUse[p] # None
      <4>1. InUse' = [InUse EXCEPT ![p] = None]
        BY <2>2 DEF InUse
      <4> QED
        BY <3>2, <4>1 DEF Ephemerides!Next, Ephemerides!End
    <3> QED
      BY <3>1, <3>2
  <2>3. ASSUME NEW p \in Proc, \A q \in Proc \ {p} : pc'[q] = pc[q] /\ eph'[q] = eph[q],
               pc[p] \notin {"planetUse", "bodyUse", "name"} \/ pc'[p] \notin {"planetUse", "bodyUse", "name"}
        PROVE  Ephemerides!Next \/ InUse' = InUse
    <3>1. \A q \in Proc \ {p} : InUse'[q] = InUse[q]
      BY <2>3 DEF InUse
    <3>2. InUse[p] = None \/ InUse'[p] = None
      BY <2>3 DEF InUse
    <3> QED
      BY <2>1, <2>2, <3>1, <3>2
  <2>4. ASSUME NEW p \in Proc, Step(p) PROVE Ephemerides!Next \/ InUse' = InUse
    BY <2>3, <2>4 DEF Step, LockPlanets, ReadPlanets, LockSameBodies, UsePlanets, TestSameBodies, DonePlanets,
                      FindName, LockBodies, ReadBodies, UseBodies, DoneBodies, SetBodies, TestPlanets, SetPlanets,
                      Goto, config
  <2>5. ASSUME NEW p \in Proc,
               \/ CallPlanet(p) \/ CallBody(p) \/ SetSerialized(p)
               \/ \E e \in Ephem : CallUseCalceph(p, e) \/ CallUseCalcephPlanets(p, e)
        PROVE  Ephemerides!Next \/ InUse' = InUse
    BY <2>3, <2>5 DEF CallPlanet, CallBody, SetSerialized, CallUseCalceph, CallUseCalcephPlanets, Goto, config
  <2>6. CASE UNCHANGED vars
    BY <2>6 DEF vars, InUse
  <2> QED
    BY <2>4, <2>5, <2>6 DEF Next
<1> QED
  BY <1>1, <1>2, CalcephInvariant, UsedAlone, PTL DEF Spec, SerialAccess, Ephemerides!Spec

=============================================================================
