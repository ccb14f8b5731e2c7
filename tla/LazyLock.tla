------------------------------ MODULE LazyLock ------------------------------
(***************************************************************************)
(* The mutexes of iers.c and solsys-cspice.c, which the first call of      *)
(* lock_leap(), lock_eop() or mutex_lock() initialises: a flag that is     *)
(* tested and set by plain reads and writes, around novas_init_lock().     *)
(* Each step of the function is a step here.  The mutex is as the pthread  *)
(* build has it: initialising one leaves it unlocked, whoever holds it,    *)
(* and so does unlocking it.                                               *)
(***************************************************************************)
EXTENDS Naturals

CONSTANTS
    Proc,           \* the threads of the calling program
    FirstAlone,     \* TRUE if the first call returns before another begins
    NoProc          \* the owner of a free mutex

ASSUME LockAssumption ==
    /\ FirstAlone \in BOOLEAN
    /\ NoProc \notin Proc

VARIABLES
    initialized,    \* leap_mutex_initialized, eop_mutex_initialized, initialized
    mutex,          \* the owner of the mutex
    pc              \* where each thread is

vars == <<initialized, mutex, pc>>

TypeOK ==
    /\ initialized \in BOOLEAN
    /\ mutex \in Proc \cup {NoProc}
    /\ pc \in [Proc -> {"out", "init", "mark", "lock", "in"}]

Init ==
    /\ initialized = FALSE
    /\ mutex = NoProc
    /\ pc = [p \in Proc |-> "out"]

Goto(p, label) == pc' = [pc EXCEPT ![p] = label]

\* Another thread may not be in its first call.
MayCall == FirstAlone => initialized \/ \A q \in Proc : pc[q] = "out"

FirstCall(p) ==
    /\ pc[p] = "out" /\ MayCall
    /\ ~initialized
    /\ Goto(p, "init")
    /\ UNCHANGED <<initialized, mutex>>

LaterCall(p) ==
    /\ pc[p] = "out" /\ MayCall
    /\ initialized
    /\ Goto(p, "lock")
    /\ UNCHANGED <<initialized, mutex>>

InitLock(p) ==
    /\ pc[p] = "init"
    /\ mutex' = NoProc
    /\ Goto(p, "mark")
    /\ UNCHANGED initialized

MarkInitialized(p) ==
    /\ pc[p] = "mark"
    /\ initialized' = TRUE
    /\ Goto(p, "lock")
    /\ UNCHANGED mutex

\* Fault: a thread goes on when it finds the mutex locked.
LockAnyway(p) ==
    /\ pc[p] = "lock"
    /\ mutex' = p
    /\ Goto(p, "in")
    /\ UNCHANGED initialized

Lock(p) ==
    /\ pc[p] = "lock"
    /\ mutex = NoProc
    /\ mutex' = p
    /\ Goto(p, "in")
    /\ UNCHANGED initialized

\* Fault: the mutex is not unlocked on return.
LeaveLocked(p) ==
    /\ pc[p] = "in"
    /\ Goto(p, "out")
    /\ UNCHANGED <<initialized, mutex>>

Unlock(p) ==
    /\ pc[p] = "in"
    /\ mutex' = NoProc
    /\ Goto(p, "out")
    /\ UNCHANGED initialized

LockStep(p) == InitLock(p) \/ MarkInitialized(p) \/ Lock(p) \/ Unlock(p)

Next == \E p \in Proc : FirstCall(p) \/ LaterCall(p) \/ LockStep(p)

Spec == Init /\ [][Next]_vars

\* A thread in a call is scheduled; which of those that wait for the mutex gets
\* it is up to the mutex.
FairSpec == Spec /\ \A p \in Proc : WF_vars(LockStep(p))

----------------------------------------------------------------------------

\* The data that the mutex guards, as the one resource of ExclusiveUse.
InUse == [p \in Proc |-> IF pc[p] = "in" THEN "data" ELSE "nothing"]

Guarded == INSTANCE ExclusiveUse WITH
    Resource <- {"data"}, Nothing <- "nothing", using <- InUse

\* What the mutex guards is used by one thread at a time, as a specification.
GuardsData == Guarded!Spec

\* The same as an invariant, for the calls that race to be the first.
MutualExclusion == Guarded!Exclusive

\* As long as threads want the mutex, threads get it.
SomeoneEnters == (\E p \in Proc : pc[p] = "lock") ~> (\E p \in Proc : pc[p] = "in")

=============================================================================
