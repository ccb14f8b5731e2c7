------------------------- MODULE CspicePluginProofs -------------------------
(***************************************************************************)
(* Proofs about CspicePlugin, for any number of threads, kernels and       *)
(* bodies: nothing that may fail runs before the error action is RETURN;   *)
(* and if lookups by name are kept apart from other calls, the kernels and *)
(* the pending error are used by one thread at a time, each call reports   *)
(* what became of its own request, and a planet is found under either of   *)
(* its numbers.                                                            *)
(***************************************************************************)
EXTENDS CspicePlugin, TLAPS

\* The error action is RETURN once anything is registered, and from the settings
\* of each call on: also for a lookup, which rests on what was registered.
SettingsInv ==
    /\ action \in {"ABORT", "REPORT", "RETURN"}
    /\ pc \in [Proc -> {"idle", "settings", "provide", "lock"} \cup InName \cup InMutex]
    /\ job \in [Proc -> Job]
    /\ provides # {} => action = "RETURN"
    /\ \A p \in Proc :
          /\ pc[p] \notin {"idle", "settings"} /\ job[p].kind # "clear" => action = "RETURN"
          /\ pc[p] = "settings" => job[p].kind \in {"use", "add", "remove"}
          /\ pc[p] = "provide" => job[p].kind = "use"
          /\ pc[p] \in InName => job[p].kind = "name"

LEMMA SettingsStep == SettingsInv /\ [Next]_vars => SettingsInv'
<1> SUFFICES ASSUME SettingsInv, [Next]_vars PROVE SettingsInv'
  OBVIOUS
<1> USE DEF SettingsInv, InMutex, InName, Goto
<1>1. ASSUME NEW p \in Proc, NEW j \in Job, Call(p, j) PROVE SettingsInv'
  <2>1. Entry(j) \in {"nameReset", "settings", "lock"}
    BY DEF Entry
  <2>2. /\ pc' = [pc EXCEPT ![p] = Entry(j)] /\ job' = [job EXCEPT ![p] = j]
        /\ UNCHANGED <<action, provides>>
    BY <1>1 DEF Call
  <2>3. j.kind \in {"planet", "body", "name", "add", "remove", "clear", "use"}
    BY DEF Job
  <2>4. j.kind \in {"planet", "body", "name"} => action = "RETURN"
    BY <1>1 DEF Call, MayCall
  <2> QED
    BY <2>1, <2>2, <2>3, <2>4 DEF Entry
<1>2. ASSUME NEW p \in Proc, SuppressErrors(p) PROVE SettingsInv'
  BY <1>2 DEF SuppressErrors
<1>3. ASSUME NEW p \in Proc, UseCspice(p) PROVE SettingsInv'
  BY <1>3 DEF UseCspice, Return
<1>4. ASSUME NEW p \in Proc, NameReset(p) \/ NameFind(p) \/ NameCheck(p) PROVE SettingsInv'
  BY <1>4 DEF NameReset, NameFind, NameCheck, Return
<1>5. ASSUME NEW p \in Proc, MutexLock(p) \/ ResetError(p) \/ CheckError(p) \/ MutexUnlock(p)
      PROVE  SettingsInv'
  BY <1>5 DEF MutexLock, ResetError, CheckError, MutexUnlock
<1>6. ASSUME NEW p \in Proc, Compute(p) \/ AddKernel(p) \/ RemoveKernels(p) PROVE SettingsInv'
  BY <1>6 DEF Compute, AddKernel, RemoveKernels
<1>7. CASE UNCHANGED vars
  BY <1>7 DEF vars
<1> QED
  BY <1>1, <1>2, <1>3, <1>4, <1>5, <1>6, <1>7 DEF Next, Step

LEMMA SettingsInvariant == Spec => []SettingsInv
<1>1. Init => SettingsInv
  BY DEF Init, SettingsInv, Job, InName, InMutex
<1> QED
  BY <1>1, SettingsStep, PTL DEF Spec

\* No routine of CSPICE that may fail runs before the error action is RETURN,
\* whichever threads register the plugin and change kernels: failures neither end
\* the program nor pass for success.  Lookups by name may come at any time.
THEOREM ErrorsReturned == Spec => []ErrorsReturn
<1>1. SettingsInv => ErrorsReturn
  BY DEF SettingsInv, ErrorsReturn, MayFail, InName
<1> QED
  BY <1>1, SettingsInvariant, PTL

----------------------------------------------------------------------------
\* The mutex is held by the thread in the critical section.
MutexInv == \A p \in Proc : pc[p] \in InMutex <=> mutex = p

\* A thread that looks a name up is the only one in a call.
NamesAlone ==
    \A p \in Proc : pc[p] \in InName => /\ job[p].kind = "name"
                                       /\ \A q \in Proc : p # q => pc[q] = "idle"

\* An error is pending after a routine of CSPICE that did not do its work, and
\* no other.
PendingIsOwn ==
    \A p \in Proc :
        /\ pc[p] = "work" => ~pending
        /\ pc[p] = "check" => /\ pending <=> ~done[p]
                              /\ job[p].kind = "clear" => ~pending
        /\ pc[p] = "unlock" => (out[p] = "ok" <=> done[p])

\* What is known of the two attempts of thread p for a planet.
Attempt(p) ==
    LET t == job[p].target IN
    /\ pc[p] \in {"settings", "lock", "reset"} \cup InName => tried[p] = 0
    /\ pc[p] = "work" => tried[p] = 0 \/ job[p].kind = "planet"
    /\ job[p].kind = "planet" =>
          /\ pc[p] = "work" => \/ tried[p] = 0
                               \/ tried[p] = t /\ Dexxx[t] # t /\ ~Available(t)
          /\ pc[p] = "check" =>
                \/ tried[p] = t /\ (done[p] <=> Available(t))
                \/ tried[p] = Dexxx[t] /\ Dexxx[t] # t /\ ~Available(t) /\ (done[p] <=> Available(Dexxx[t]))
          /\ pc[p] = "unlock" => (done[p] <=> Available(t) \/ Available(Dexxx[t]))

Attempts == \A p \in Proc : Attempt(p)

CspiceInv == TypeOK /\ MutexInv /\ NamesAlone /\ PendingIsOwn /\ Attempts

LEMMA PlanetJob == \A j \in Job : j.kind = "planet" => j.target \in Planet
BY DEF Job

LEMMA CspiceInit == Init => CspiceInv
BY ConstantAssumption DEF Init, CspiceInv, TypeOK, Job, MutexInv, NamesAlone, PendingIsOwn, Attempts, Attempt, InMutex, InName

\* What is known of a thread stays if the thread and the kernels do.
LEMMA AttemptKept ==
    ASSUME NEW p \in Proc, Attempt(p), kernels' = kernels, job'[p] = job[p], tried'[p] = tried[p],
           done'[p] = done[p], pc'[p] = pc[p]
    PROVE  Attempt(p)'
BY DEF Attempt, Available

LEMMA AttemptIdle ==
    ASSUME NEW p \in Proc, pc'[p] = "idle" PROVE Attempt(p)'
BY DEF Attempt, InName

LEMMA CspiceStep == ASSUME QuietNames PROVE SettingsInv /\ CspiceInv /\ [Next]_vars => CspiceInv'
<1> SUFFICES ASSUME SettingsInv, CspiceInv, [Next]_vars PROVE CspiceInv'
  OBVIOUS
<1> USE ConstantAssumption DEF CspiceInv, TypeOK, InMutex, InName, Goto
<1>1. ASSUME NEW p \in Proc, NEW j \in Job, Call(p, j) PROVE CspiceInv'
  <2>0. /\ Entry(j) \in {"nameReset", "settings", "lock"}
        /\ Entry(j) = "nameReset" <=> j.kind = "name"
    BY DEF Entry, Job
  <2>1. TypeOK'
    BY <1>1, <2>0 DEF Call
  <2>2. MutexInv' /\ PendingIsOwn'
    BY <1>1, <2>0 DEF Call, MutexInv, PendingIsOwn
  <2>3. NamesAlone'
    BY <1>1, <2>0 DEF Call, MayCall, NamesAlone
  <2>4. ASSUME NEW q \in Proc PROVE Attempt(q)'
    <3>1. CASE q = p
      BY <1>1, <2>0, <3>1 DEF Call, Attempt
    <3>2. CASE q # p
      BY <1>1, <3>2, AttemptKept DEF Call, Attempts
    <3> QED
      BY <3>1, <3>2
  <2> QED
    BY <2>1, <2>2, <2>3, <2>4 DEF Attempts
<1>2. ASSUME NEW p \in Proc, NameReset(p) \/ NameFind(p) \/ NameCheck(p) PROVE CspiceInv'
  <2> USE <1>2 DEF Returns, NameReset, NameFind, NameCheck, CspiceCall, Return
  <2>1. TypeOK'
    OBVIOUS
  <2>2. MutexInv' /\ NamesAlone'
    BY DEF MutexInv, NamesAlone
  <2>3. job' = job /\ job[p].kind = "name" /\ \A q \in Proc : q # p => pc'[q] = "idle"
    BY DEF NamesAlone
  <2>4. PendingIsOwn'
    BY <2>3 DEF PendingIsOwn
  <2>5. ASSUME NEW q \in Proc PROVE Attempt(q)'
    <3>1. CASE q = p
      BY <2>3, <3>1 DEF Attempts, Attempt
    <3>2. CASE q # p
      BY <2>3, <3>2, AttemptIdle
    <3> QED
      BY <3>1, <3>2
  <2> QED
    BY <2>1, <2>2, <2>4, <2>5 DEF Attempts
<1>3. ASSUME NEW p \in Proc, MutexLock(p) \/ ResetError(p) PROVE CspiceInv'
  <2> USE <1>3 DEF MutexLock, ResetError
  <2>1. TypeOK' /\ MutexInv' /\ NamesAlone' /\ PendingIsOwn'
    <3>1. TypeOK'
      OBVIOUS
    <3>2. MutexInv' /\ NamesAlone'
      BY DEF MutexInv, NamesAlone
    <3>3. PendingIsOwn'
      BY DEF MutexInv, PendingIsOwn
    <3> QED
      BY <3>1, <3>2, <3>3
  <2>2. ASSUME NEW q \in Proc PROVE Attempt(q)'
    <3>1. CASE q = p
      BY <3>1 DEF Attempts, Attempt
    <3>2. CASE q # p
      BY <3>2, AttemptKept DEF Attempts
    <3> QED
      BY <3>1, <3>2
  <2> QED
    BY <2>1, <2>2 DEF Attempts
<1>4. ASSUME NEW p \in Proc, MutexUnlock(p) PROVE CspiceInv'
  <2> USE <1>4 DEF MutexUnlock
  <2>1. TypeOK' /\ MutexInv' /\ NamesAlone' /\ PendingIsOwn'
    BY DEF MutexInv, NamesAlone, PendingIsOwn
  <2>2. ASSUME NEW q \in Proc PROVE Attempt(q)'
    <3>1. CASE q = p
      BY <3>1, AttemptIdle
    <3>2. CASE q # p
      BY <3>2, AttemptKept DEF Attempts
    <3> QED
      BY <3>1, <3>2
  <2> QED
    BY <2>1, <2>2 DEF Attempts
<1>5. ASSUME NEW p \in Proc, Compute(p) PROVE CspiceInv'
  <2> DEFINE t == IF tried[p] = 0 THEN job[p].target ELSE Dexxx[job[p].target]
  <2>1. /\ pc[p] = "work" /\ mutex = p /\ ~pending
        /\ pc' = [pc EXCEPT ![p] = "check"]
        /\ tried' = [tried EXCEPT ![p] = t]
        /\ UNCHANGED <<kernels, action, provides, mutex, job, out>>
    BY <1>5 DEF Compute, MutexInv, PendingIsOwn
  <2>2. done' = [done EXCEPT ![p] = Available(t)] /\ pending' = ~Available(t)
    BY <1>5, <2>1 DEF Compute, CspiceCall, Returns, Available
  <2>3. t \in Target /\ (job[p].kind = "planet" => job[p].target \in Planet)
    <3>1. job[p].kind \in {"planet", "body", "name"} /\ job[p] \in Job
      BY <1>5 DEF Compute
    <3>2. job[p].target \in Target
      BY <3>1 DEF Job
    <3>3. tried[p] # 0 => job[p].kind = "planet"
      BY <2>1 DEF Attempts, Attempt
    <3> QED
      BY <3>1, <3>2, <3>3, PlanetJob
  <2>4. Available(t) \in BOOLEAN
    BY DEF Available
  <2>5. ASSUME NEW q \in Proc PROVE Attempt(q)'
    <3>1. CASE q = p
      <4>1. Attempt(p)
        BY DEF Attempts
      <4>2. \A k \in Target : Available(k)' <=> Available(k)
        BY <2>1 DEF Available
      <4> QED
        BY <2>1, <2>2, <2>3, <2>4, <3>1, <4>1, <4>2 DEF Attempt
    <3>2. CASE q # p
      BY <2>1, <2>2, <3>2, AttemptKept DEF Attempts
    <3> QED
      BY <3>1, <3>2
  <2> HIDE DEF t
  <2>6. TypeOK' /\ MutexInv' /\ NamesAlone'
    BY <2>1, <2>2, <2>3, <2>4 DEF MutexInv, NamesAlone
  <2>7. PendingIsOwn'
    <3>1. job[p].kind # "clear"
      BY <1>5 DEF Compute
    <3> QED
      BY <2>1, <2>2, <2>4, <3>1 DEF PendingIsOwn, MutexInv
  <2> QED
    BY <2>5, <2>6, <2>7 DEF Attempts
<1>6. ASSUME NEW p \in Proc, AddKernel(p) \/ RemoveKernels(p) PROVE CspiceInv'
  <2> USE <1>6 DEF AddKernel, RemoveKernels, CspiceCall, Returns
  <2>1. MutexInv' /\ NamesAlone'
    BY DEF MutexInv, NamesAlone
  <2>2. job[p] \in Job /\ job[p].kind \in {"add", "remove", "clear"}
    OBVIOUS
  <2>3. job[p].kind = "add" => job[p].kernel \in Kernel
    BY <2>2 DEF Job
  <2>4. TypeOK'
    BY <2>3
  <2>5. PendingIsOwn'
    BY DEF PendingIsOwn, MutexInv
  <2>6. ASSUME NEW q \in Proc PROVE Attempt(q)'
    <3>1. CASE q = p
      BY <2>2, <3>1 DEF Attempt
    <3>2. CASE q # p
      BY <3>2 DEF Attempts, Attempt, MutexInv
    <3> QED
      BY <3>1, <3>2
  <2> QED
    BY <2>1, <2>4, <2>5, <2>6 DEF Attempts
<1>7. ASSUME NEW p \in Proc, CheckError(p) PROVE CspiceInv'
  <2>0. Returns <=> pending
    BY <1>7 DEF CheckError, Returns, SettingsInv, PendingIsOwn
  <2> USE <1>7, <2>0 DEF CheckError, Status
  <2>1. MutexInv' /\ NamesAlone'
    BY DEF MutexInv, NamesAlone
  <2>2. TypeOK'
    OBVIOUS
  <2>3. PendingIsOwn'
    BY DEF PendingIsOwn, MutexInv
  <2>4. ASSUME NEW q \in Proc PROVE Attempt(q)'
    <3>1. CASE q = p
      <4>1. Attempt(p) /\ (pending <=> ~done[p])
        BY DEF Attempts, PendingIsOwn
      <4>2. job[p].kind = "planet" => job[p].target \in Planet
        BY PlanetJob
      <4> QED
        BY <3>1, <4>1, <4>2 DEF Attempt, Retry, Available
    <3>2. CASE q # p
      BY <3>2, AttemptKept DEF Attempts
    <3> QED
      BY <3>1, <3>2
  <2> QED
    BY <2>1, <2>2, <2>3, <2>4 DEF Attempts
<1>8. ASSUME NEW p \in Proc, SuppressErrors(p) \/ UseCspice(p) PROVE CspiceInv'
  <2> USE <1>8 DEF SuppressErrors, UseCspice, Return
  <2>1. TypeOK'
    <3>1. pc[p] = "provide" => job[p].provide \in Provided
      BY DEF SettingsInv, Job
    <3> QED
      BY <3>1
  <2>2. MutexInv' /\ NamesAlone'
    BY DEF MutexInv, NamesAlone
  <2>3. PendingIsOwn'
    BY DEF PendingIsOwn
  <2>4. ASSUME NEW q \in Proc PROVE Attempt(q)'
    <3>1. CASE q = p
      BY <3>1 DEF Attempts, Attempt
    <3>2. CASE q # p
      BY <3>2, AttemptKept DEF Attempts
    <3> QED
      BY <3>1, <3>2
  <2> QED
    BY <2>1, <2>2, <2>3, <2>4 DEF Attempts
<1>9. CASE UNCHANGED vars
  <2>1. TypeOK' /\ MutexInv' /\ NamesAlone' /\ PendingIsOwn'
    BY <1>9 DEF vars, MutexInv, NamesAlone, PendingIsOwn
  <2>2. ASSUME NEW q \in Proc PROVE Attempt(q)'
    BY <1>9, AttemptKept DEF vars, Attempts
  <2> QED
    BY <2>1, <2>2 DEF Attempts
<1> QED
  BY <1>1, <1>2, <1>3, <1>4, <1>5, <1>6, <1>7, <1>8, <1>9 DEF Next, Step

LEMMA CspiceInvariant == ASSUME QuietNames PROVE Spec => []CspiceInv
BY CspiceInit, CspiceStep, SettingsInvariant, PTL DEF Spec

\* The variables always hold values of their types.
THEOREM CspiceTypeCorrect == ASSUME QuietNames PROVE Spec => []TypeOK
<1>1. CspiceInv => TypeOK
  BY DEF CspiceInv
<1> QED
  BY <1>1, CspiceInvariant, PTL

\* A call that fails does so by an error of its own, never by one that another
\* thread, or an earlier call, has left in the toolkit.
THEOREM OwnErrors == ASSUME QuietNames PROVE Spec => []ErrorIsOwn
<1>1. CspiceInv => ErrorIsOwn
  BY DEF CspiceInv, PendingIsOwn, ErrorIsOwn
<1> QED
  BY <1>1, CspiceInvariant, PTL

\* A planet that the kernels hold, under its own number or its system's, is
\* found, though the first attempt for it may fail.
THEOREM PlanetsFound == ASSUME QuietNames PROVE Spec => []PlanetFound
<1>1. CspiceInv => PlanetFound
  BY DEF CspiceInv, PendingIsOwn, Attempts, Attempt, PlanetFound
<1> QED
  BY <1>1, CspiceInvariant, PTL

\* The plugin implements ExclusiveUse of the kernels and the pending error of the
\* toolkit: from the reset of the error to its check a thread is alone with them.
\* The settings that suppress_cspice_errors() makes before the mutex is locked are
\* not part of it.
THEOREM WorkExclusive == ASSUME QuietNames PROVE Spec => SerialWork
<1>1. Init => ToolkitWork!Init
  BY DEF Init, ToolkitWork!Init, WorkInUse, InName, InMutex
<1>2. CspiceInv /\ [Next]_vars => [ToolkitWork!Next]_WorkInUse
  <2> SUFFICES ASSUME CspiceInv, [Next]_vars
               PROVE  ToolkitWork!Next \/ WorkInUse' = WorkInUse
    OBVIOUS
  <2> DEFINE In(q) == pc[q] \in InName \cup InMutex
  <2> USE ConstantAssumption DEF CspiceInv, TypeOK, Goto, InName, InMutex
  <2>1. ASSUME NEW p \in Proc, ~In(p), In(p)', \A q \in Proc : ~In(q), \A q \in Proc \ {p} : pc'[q] = pc[q]
        PROVE  ToolkitWork!Begin(p, "cspice")
    BY <2>1 DEF ToolkitWork!Begin, WorkInUse
  <2>2. ASSUME NEW p \in Proc, In(p), ~In(p)', \A q \in Proc \ {p} : pc'[q] = pc[q]
        PROVE  ToolkitWork!End(p)
    BY <2>2 DEF ToolkitWork!End, WorkInUse
  <2>3. ASSUME \A q \in Proc : In(q)' <=> In(q)
        PROVE  WorkInUse' = WorkInUse
    BY <2>3 DEF WorkInUse
  <2>4. ASSUME NEW p \in Proc, NEW j \in Job, Call(p, j) PROVE ToolkitWork!Next \/ WorkInUse' = WorkInUse
    <3>1. CASE j.kind = "name"
      <4>1. \A q \in Proc : pc[q] = "idle"
        BY <2>4, <3>1 DEF Call, MayCall
      <4> QED
        BY <2>1, <2>4, <3>1, <4>1 DEF Call, Entry, ToolkitWork!Next
    <3>2. CASE j.kind # "name"
      BY <2>3, <2>4, <3>2 DEF Call, Entry
    <3> QED
      BY <3>1, <3>2
  <2>5. ASSUME NEW p \in Proc, MutexLock(p) PROVE ToolkitWork!Next
    <3>1. \A q \in Proc : ~In(q)
      BY <2>5 DEF MutexLock, MutexInv, NamesAlone
    <3> QED
      BY <2>1, <2>5, <3>1 DEF MutexLock, ToolkitWork!Next
  <2>6. ASSUME NEW p \in Proc, NameCheck(p) \/ MutexUnlock(p) PROVE ToolkitWork!Next
    BY <2>2, <2>6 DEF NameCheck, MutexUnlock, Return, ToolkitWork!Next
  <2>7. ASSUME NEW p \in Proc, NameReset(p) \/ NameFind(p) \/ ResetError(p) \/ CheckError(p)
                               \/ SuppressErrors(p) \/ UseCspice(p) \/ Compute(p) \/ AddKernel(p) \/ RemoveKernels(p)
        PROVE  WorkInUse' = WorkInUse
    BY <2>3, <2>7 DEF SuppressErrors, UseCspice, Return, NameReset, NameFind, ResetError, CheckError, Compute, AddKernel, RemoveKernels
  <2>8. CASE UNCHANGED vars
    BY <2>3, <2>8 DEF vars
  <2> QED
    BY <2>4, <2>5, <2>6, <2>7, <2>8 DEF Next, Step
<1> QED
  BY <1>1, <1>2, CspiceInvariant, PTL DEF Spec, SerialWork, ToolkitWork!Spec

=============================================================================
