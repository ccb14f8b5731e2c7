---------------------------- MODULE CspicePlugin ----------------------------
(***************************************************************************)
(* src/src/c99/solsys-cspice.c: threads load and unload kernels and ask    *)
(* for the positions of planets and other bodies through the CSPICE        *)
(* toolkit, which keeps its kernels and the state of its last error for    *)
(* the whole process, and so its error action.  With RETURN, which the     *)
(* plugin sets, a routine of CSPICE returns at once while an error is      *)
(* pending; with ABORT, which is in force until something else is set, an  *)
(* error ends the program; with REPORT routines go on.  The lazy           *)
(* initialisation of the mutex is the subject of LazyLock.                 *)
(***************************************************************************)
EXTENDS Naturals, FiniteSets

CONSTANTS
    Proc,           \* the threads of the calling program
    Target,         \* NAIF numbers
    Planet,         \* the planets, as NAIF numbers of the bodies themselves
    Dexxx,          \* novas_to_dexxx_planet(): the number DE files know a planet by
    Kernel,         \* kernel files
    Covers,         \* the targets each kernel has data for
    QuietNames,     \* TRUE if a lookup by name never overlaps another call
    NoProc          \* the owner of a free mutex

ASSUME ConstantAssumption ==
    /\ Planet \subseteq Target
    /\ Dexxx \in [Planet -> Target]
    /\ 0 \in Planet => Dexxx[0] = 0     \* the solar system barycenter
    /\ Covers \in [Kernel -> SUBSET Target]
    /\ QuietNames \in BOOLEAN
    /\ NoProc \notin Proc

\* What the plugin may be made the provider of.
Provided == {"planets", "bodies"}

Job == [kind : {"planet"}, target : Planet] \cup [kind : {"body", "name"}, target : Target]
       \cup [kind : {"add", "remove"}, kernel : Kernel] \cup {[kind |-> "clear"]}
       \cup [kind : {"use"}, provide : Provided]

VARIABLES
    kernels,        \* the kernels loaded
    pending,        \* whether CSPICE has an error pending
    action,         \* what CSPICE does about an error
    provides,       \* what the plugin is the provider of
    mutex,          \* the owner of the mutex
    pc,             \* where each thread is
    job,            \* the call of each thread, done or in progress
    tried,          \* the target passed to spkez_c() last, or 0
    done,           \* history: whether the last CSPICE routine called did its work
    out             \* what the last call of each thread returned

vars == <<kernels, pending, action, provides, mutex, pc, job, tried, done, out>>

InMutex == {"reset", "work", "check", "unlock"}
InName  == {"nameReset", "nameFind", "nameCheck"}

TypeOK ==
    /\ kernels \subseteq Kernel
    /\ pending \in BOOLEAN
    /\ action \in {"ABORT", "REPORT", "RETURN"}
    /\ provides \subseteq Provided
    /\ mutex \in Proc \cup {NoProc}
    /\ pc \in [Proc -> {"idle", "settings", "provide", "lock"} \cup InName \cup InMutex]
    /\ job \in [Proc -> Job]
    /\ tried \in [Proc -> Target \cup {0}]
    /\ done \in [Proc -> BOOLEAN]
    /\ out \in [Proc -> {"none", "ok", "error"}]

Init ==
    /\ kernels \in SUBSET Kernel
    /\ action \in {"ABORT", "REPORT", "RETURN"}
    /\ pending \in BOOLEAN
    /\ pending => action # "ABORT"
    /\ provides = {}
    /\ mutex = NoProc
    /\ pc = [p \in Proc |-> "idle"]
    /\ job = [p \in Proc |-> [kind |-> "clear"]]
    /\ tried = [p \in Proc |-> 0]
    /\ done = [p \in Proc |-> FALSE]
    /\ out = [p \in Proc |-> "none"]

Goto(p, label) == pc' = [pc EXCEPT ![p] = label]

Available(t) == \E k \in kernels : t \in Covers[k]

----------------------------------------------------------------------------
(* The toolkit. *)

\* return_c(): whether routines of CSPICE return at once.
Returns == pending /\ action = "RETURN"

\* A routine of CSPICE that signals an error if it fails.
CspiceCall(p, succeeds) ==
    /\ done' = [done EXCEPT ![p] = ~Returns /\ succeeds]
    /\ pending' = (pending \/ ~succeeds)

----------------------------------------------------------------------------
(* The calls. *)

\* The providers are private to the plugin: they are called once they have been
\* registered.  A name is looked up when no other call is under way, and none
\* begins while it is, if lookups by name are kept apart.
MayCall(j) ==
    /\ j.kind = "planet" => "planets" \in provides
    /\ j.kind \in {"body", "name"} => "bodies" \in provides
    /\ QuietNames => \A q \in Proc : pc[q] = "idle" \/ (pc[q] \notin InName /\ j.kind # "name")

\* Fault: a provider is registered with the error action as it is.
AsItIs(j) ==
    CASE j.kind = "name" -> "nameReset"
      [] j.kind = "use" -> "provide"
      [] j.kind \in {"add", "remove"} -> "settings"
      [] OTHER -> "lock"

\* What a call does first.
Entry(j) ==
    CASE j.kind = "name" -> "nameReset"
      [] j.kind \in {"use", "add", "remove"} -> "settings"
      [] OTHER -> "lock"

Call(p, j) ==
    /\ pc[p] = "idle" /\ MayCall(j)
    /\ Goto(p, Entry(j))
    /\ job' = [job EXCEPT ![p] = j]
    /\ tried' = [tried EXCEPT ![p] = 0]
    /\ out' = [out EXCEPT ![p] = "none"]
    /\ UNCHANGED <<kernels, pending, action, provides, mutex, done>>

Return(p, value) ==
    /\ Goto(p, "idle")
    /\ out' = [out EXCEPT ![p] = value]

\* suppress_cspice_errors(): erract_c(), and errprt_c(), which is about messages
\* only, neither of them under the mutex.  Both work while an error is pending,
\* and leave it so.
SuppressErrors(p) ==
    /\ pc[p] = "settings"
    /\ action' = "RETURN"
    /\ Goto(p, IF job[p].kind = "use" THEN "provide" ELSE "lock")
    /\ UNCHANGED <<kernels, pending, provides, mutex, job, tried, done, out>>

\* novas_use_cspice_planets() and novas_use_cspice_ephem(); novas_use_cspice()
\* calls one after the other.
UseCspice(p) ==
    /\ pc[p] = "provide"
    /\ provides' = provides \cup {job[p].provide}
    /\ Return(p, "ok")
    /\ UNCHANGED <<kernels, pending, action, mutex, job, tried, done>>

\* novas_cspice() with id -1: reset_c(), bodn2c_c() and get_cspice_error(),
\* before the mutex is locked.
NameReset(p) ==
    /\ pc[p] = "nameReset"
    /\ pending' = FALSE
    /\ Goto(p, "nameFind")
    /\ UNCHANGED <<kernels, action, provides, mutex, job, tried, done, out>>

NameFind(p) ==
    /\ pc[p] = "nameFind"
    /\ CspiceCall(p, TRUE)
    /\ Goto(p, "nameCheck")
    /\ UNCHANGED <<kernels, action, provides, mutex, job, tried, out>>

NameCheck(p) ==
    /\ pc[p] = "nameCheck"
    /\ pending' = FALSE
    /\ \/ /\ ~Returns /\ done[p]
          /\ Goto(p, "lock")
          /\ UNCHANGED out
       \/ Return(p, "error")   \* an error, or a name that is not known
    /\ UNCHANGED <<kernels, action, provides, mutex, job, tried, done>>

\* Fault: the mutex is not waited for.
LockAnyway(p) ==
    /\ pc[p] = "lock"
    /\ mutex' = p
    /\ Goto(p, "reset")
    /\ UNCHANGED <<kernels, pending, action, provides, job, tried, done, out>>

MutexLock(p) ==
    /\ pc[p] = "lock"
    /\ mutex = NoProc
    /\ mutex' = p
    /\ Goto(p, "reset")
    /\ UNCHANGED <<kernels, pending, action, provides, job, tried, done, out>>

ResetError(p) ==
    /\ pc[p] = "reset"
    /\ pending' = FALSE
    /\ Goto(p, "work")
    /\ UNCHANGED <<kernels, action, provides, mutex, job, tried, done, out>>

\* spkez_c(): for a planet first the body itself, then what DE files call it.
Compute(p) ==
    LET t == IF tried[p] = 0 THEN job[p].target ELSE Dexxx[job[p].target] IN
    /\ pc[p] = "work"
    /\ job[p].kind \in {"planet", "body", "name"}
    /\ CspiceCall(p, Available(t))
    /\ tried' = [tried EXCEPT ![p] = t]
    /\ Goto(p, "check")
    /\ UNCHANGED <<kernels, action, provides, mutex, job, out>>

\* furnsh_c() fails on a file that it cannot load.
AddKernel(p) ==
    /\ pc[p] = "work"
    /\ job[p].kind = "add"
    /\ \E loads \in BOOLEAN :
          /\ CspiceCall(p, loads)
          /\ kernels' = IF loads /\ ~Returns THEN kernels \cup {job[p].kernel} ELSE kernels
    /\ Goto(p, "check")
    /\ UNCHANGED <<action, provides, mutex, job, tried, out>>

RemoveKernels(p) ==
    /\ pc[p] = "work"
    /\ job[p].kind \in {"remove", "clear"}
    /\ CspiceCall(p, TRUE)
    /\ kernels' = IF Returns THEN kernels
                  ELSE IF job[p].kind = "clear" THEN {} ELSE kernels \ {job[p].kernel}
    /\ Goto(p, "check")
    /\ UNCHANGED <<action, provides, mutex, job, tried, out>>

\* Fault: there is no second attempt.
NoRetry(p) == FALSE

Retry(p) ==
    /\ Returns
    /\ job[p].kind = "planet"
    /\ tried[p] = job[p].target
    /\ Dexxx[tried[p]] # tried[p]

Status == IF Returns THEN "error" ELSE "ok"

\* get_cspice_error(), which also resets the error.
CheckError(p) ==
    /\ pc[p] = "check"
    /\ pending' = FALSE
    /\ \/ /\ Retry(p)
          /\ Goto(p, "work")
          /\ UNCHANGED out
       \/ /\ ~Retry(p)
          /\ Goto(p, "unlock")
          /\ out' = [out EXCEPT ![p] = Status]
    /\ UNCHANGED <<kernels, action, provides, mutex, job, tried, done>>

MutexUnlock(p) ==
    /\ pc[p] = "unlock"
    /\ mutex' = NoProc
    /\ Goto(p, "idle")
    /\ UNCHANGED <<kernels, pending, action, provides, job, tried, done, out>>

Step(p) ==
    \/ SuppressErrors(p) \/ UseCspice(p)
    \/ NameReset(p) \/ NameFind(p) \/ NameCheck(p)
    \/ MutexLock(p) \/ ResetError(p) \/ CheckError(p) \/ MutexUnlock(p)
    \/ Compute(p) \/ AddKernel(p) \/ RemoveKernels(p)

Next == \E p \in Proc : Step(p) \/ \E j \in Job : Call(p, j)

Spec == Init /\ [][Next]_vars

----------------------------------------------------------------------------
(* Properties. *)

\* A call reports an error if what it asked of CSPICE failed, and success only
\* if it was done: no call sees the error of another, or loses its own.
ErrorIsOwn == \A p \in Proc : pc[p] = "unlock" => (out[p] = "ok" <=> done[p])

\* A planet is found if the kernels have it under either of its numbers, and
\* no kernel goes away between the two attempts.
PlanetFound ==
    \A p \in Proc :
        pc[p] = "unlock" /\ job[p].kind = "planet"
        => (out[p] = "ok" <=> Available(job[p].target) \/ Available(Dexxx[job[p].target]))

\* Where a routine of CSPICE runs that may signal an error.
MayFail(p) == pc[p] = "nameFind" \/ (pc[p] = "work" /\ job[p].kind # "clear")

\* A routine that may fail runs only with the error action RETURN, whichever
\* thread has made the plugin a provider or has added kernels before: no failure
\* ends the program, and none escapes get_cspice_error(), which asks return_c().
ErrorsReturn == \A p \in Proc : MayFail(p) => action = "RETURN"

InUse == [p \in Proc |->
             IF pc[p] \in {"settings"} \cup InName \cup InMutex THEN "cspice" ELSE "nothing"]

Toolkit == INSTANCE ExclusiveUse WITH
    Resource <- {"cspice"}, Nothing <- "nothing", using <- InUse

\* The toolkit is used by one thread at a time.  It is not, for what
\* suppress_cspice_errors() does before the mutex is locked.
SerialAccess == Toolkit!Spec

WorkInUse == [p \in Proc |-> IF pc[p] \in InName \cup InMutex THEN "cspice" ELSE "nothing"]

ToolkitWork == INSTANCE ExclusiveUse WITH
    Resource <- {"cspice"}, Nothing <- "nothing", using <- WorkInUse

\* The kernels and the pending error of the toolkit are used by one thread at a
\* time, from the reset of the error to its check.  The settings of the errors
\* are not.
SerialWork == ToolkitWork!Spec

=============================================================================
