--------------------------- MODULE LazyLockProofs ---------------------------
(***************************************************************************)
(* Proof that a mutex initialised on first use implements ExclusiveUse,    *)
(* for any number of threads, if the first call returns from the           *)
(* initialisation before another call is made.                             *)
(***************************************************************************)
EXTENDS LazyLock, TLAPS

\* Whoever is in has the mutex, which nobody initialises any more; and while
\* somebody does, nobody else is in a call.
LockInv ==
    /\ TypeOK
    /\ \A p \in Proc : pc[p] = "in" => mutex = p
    /\ \A p \in Proc : pc[p] \in {"init", "mark"} => ~initialized
    /\ ~initialized => \A p \in Proc : pc[p] \in {"out", "init", "mark"}
    /\ ~initialized => \A p, q \in Proc : p # q => pc[p] = "out" \/ pc[q] = "out"

LEMMA InitLockInv == Init => LockInv
BY DEF Init, LockInv, TypeOK

LEMMA NextLockInv == ASSUME FirstAlone PROVE LockInv /\ [Next]_vars => LockInv'
<1> SUFFICES ASSUME LockInv, [Next]_vars PROVE LockInv'
  OBVIOUS
<1> USE LockAssumption DEF LockInv, TypeOK, Goto
<1>1. ASSUME NEW p \in Proc, FirstCall(p) PROVE LockInv'
  BY <1>1 DEF FirstCall, MayCall
<1>2. ASSUME NEW p \in Proc, LaterCall(p) PROVE LockInv'
  BY <1>2 DEF LaterCall
<1>3. ASSUME NEW p \in Proc, InitLock(p) PROVE LockInv'
  BY <1>3 DEF InitLock
<1>4. ASSUME NEW p \in Proc, MarkInitialized(p) PROVE LockInv'
  BY <1>4 DEF MarkInitialized
<1>5. ASSUME NEW p \in Proc, Lock(p) PROVE LockInv'
  BY <1>5 DEF Lock
<1>6. ASSUME NEW p \in Proc, Unlock(p) PROVE LockInv'
  BY <1>6 DEF Unlock
<1>7. CASE UNCHANGED vars
  BY <1>7 DEF vars
<1> QED
  BY <1>1, <1>2, <1>3, <1>4, <1>5, <1>6, <1>7 DEF Next, LockStep

\* A mutex initialised by a call of its own before threads compete for it keeps
\* what it guards in exclusive use: entering begins it, unlocking ends it, and
\* every other step is none of ExclusiveUse.
THEOREM WarmLockGuards == ASSUME FirstAlone PROVE Spec => GuardsData
<1>1. Init => Guarded!Init
  BY DEF Init, Guarded!Init, InUse
<1>2. LockInv /\ [Next]_vars => [Guarded!Next]_InUse
  <2> SUFFICES ASSUME LockInv, [Next]_vars
               PROVE  Guarded!Next \/ InUse' = InUse
    OBVIOUS
  <2> USE DEF LockInv, TypeOK, Goto, InUse
  <2>1. ASSUME NEW p \in Proc, Lock(p) PROVE Guarded!Begin(p, "data")
    <3>1. \A q \in Proc : pc[q] # "in"
      BY <2>1, LockAssumption DEF Lock
    <3> QED
      BY <2>1, <3>1 DEF Lock, Guarded!Begin
  <2>2. ASSUME NEW p \in Proc, Unlock(p) PROVE Guarded!End(p)
    BY <2>2 DEF Unlock, Guarded!End
  <2>3. ASSUME \/ UNCHANGED vars
               \/ \E p \in Proc : FirstCall(p) \/ LaterCall(p) \/ InitLock(p) \/ MarkInitialized(p)
        PROVE  InUse' = InUse
    <3>1. \A q \in Proc : pc'[q] = "in" <=> pc[q] = "in"
      BY <2>3 DEF vars, FirstCall, LaterCall, InitLock, MarkInitialized
    <3> QED
      BY <3>1
  <2> QED
    BY <2>1, <2>2, <2>3 DEF Next, LockStep, Guarded!Next
<1> QED
  BY <1>1, <1>2, InitLockInv, NextLockInv, PTL DEF Spec, GuardsData, Guarded!Spec

\* No two threads are between lock and unlock at a time.
THEOREM WarmLockExcludes == ASSUME FirstAlone PROVE Spec => []MutualExclusion
<1>1. LockInv => MutualExclusion
  BY DEF LockInv, TypeOK, MutualExclusion, Guarded!Exclusive, InUse
<1> QED
  BY <1>1, InitLockInv, NextLockInv, PTL DEF Spec

=============================================================================
