---------------------------- MODULE LeapSeconds ----------------------------
(***************************************************************************)
(* The leap seconds half of src/src/c99/iers.c: the threads of a program   *)
(* call novas_lookup_leap(), which may have to fetch the list from IERS    *)
(* first, while the list in use, what IERS publishes and the time change.  *)
(* The configuration calls, which are documented as not thread-safe, come  *)
(* when no other call is under way.                                        *)
(***************************************************************************)
EXTENDS LeapList, FiniteSets

CONSTANTS
    Proc,           \* the threads of the calling program
    File,           \* the leap seconds files there are, as sequences of lines
    Time,           \* the times that the program asks for
    MaxNow,         \* bound on the time of the day
    MaxLists,       \* bound on the number of lists that are set
    NoProc,         \* the owner of a free mutex
    Failed          \* NOVAS_INVALID_LEAP

ASSUME ConstantAssumption ==
    /\ File \subseteq Seq(Line)
    /\ Time \subseteq Int /\ Time # {}
    /\ MaxNow \in Nat
    /\ MaxLists \in Nat
    /\ NoProc \notin Proc
    /\ Failed \notin Int

VARIABLES
    now,            \* time(NULL)
    autoFetch,      \* auto_fetch_eop
    served,         \* what IERS serves
    leaps,          \* the list and leap_expiration: empty if the list is NULL
    source,         \* history: the file the list was read from
    version,        \* the number of lists set, which tells one in memory from a freed one
    lock,           \* the owner of leap_mutex, or NoProc
    pc,             \* where each thread is in its call
    asked,          \* the argument of the call in progress, or of the last one
    ref,            \* the entry found, the list it is in, and the file of that
    out             \* what the last call of each thread returned

vars == <<now, autoFetch, served, leaps, source, version, lock, pc, asked, ref, out>>
shared == <<now, autoFetch, served, leaps, source, version>>

Pc == {"idle", "locked", "fetching", "search", "read"}
NoRef == [leap |-> 0, version |-> 0]

TypeOK ==
    /\ now \in 0 .. MaxNow
    /\ autoFetch \in BOOLEAN
    /\ served \in File
    /\ leaps.expiration \in Int
    /\ source \in File \cup {<<>>}
    /\ version \in 0 .. MaxLists
    /\ lock \in Proc \cup {NoProc}
    /\ pc \in [Proc -> Pc]
    /\ asked \in [Proc -> Time]
    /\ ref \in [Proc -> [leap : Int, version : 0 .. MaxLists]]
    /\ out \in [Proc -> Int \cup {Failed}]

Init ==
    /\ now = 0
    /\ autoFetch = TRUE
    /\ served \in File
    /\ leaps = NoLeaps
    /\ source = <<>>
    /\ version = 0
    /\ lock = NoProc
    /\ pc = [p \in Proc |-> "idle"]
    /\ asked \in [Proc -> {CHOOSE t \in Time : TRUE}]
    /\ ref = [p \in Proc |-> NoRef]
    /\ out = [p \in Proc |-> Failed]

----------------------------------------------------------------------------
(* novas_lookup_leap() *)

\* set_leap_list_async(), which frees the list there was.
SetList(list, file) ==
    /\ version < MaxLists
    /\ leaps' = list
    /\ source' = file
    /\ version' = version + 1

\* Fault: an early return leaves the mutex locked.
ReturnLocked(p, value) ==
    /\ lock' = IF value = Failed THEN lock ELSE NoProc
    /\ pc' = [pc EXCEPT ![p] = "idle"]
    /\ out' = [out EXCEPT ![p] = value]

\* Unlock, and return the value.
ReturnUnlocked(p, value) ==
    /\ lock' = NoProc
    /\ pc' = [pc EXCEPT ![p] = "idle"]
    /\ out' = [out EXCEPT ![p] = value]

LookupLeap(p, t) ==
    /\ pc[p] = "idle"
    /\ lock = NoProc
    /\ lock' = p
    /\ pc' = [pc EXCEPT ![p] = "locked"]
    /\ asked' = [asked EXCEPT ![p] = t]
    /\ out' = [out EXCEPT ![p] = Failed]
    /\ UNCHANGED <<shared, ref>>

\* There is no list, or it has expired, for t and for now.
Outdated(t) == leaps.entries = <<>> \/ (t >= leaps.expiration /\ now >= leaps.expiration)

UseList(p) ==
    /\ pc[p] = "locked"
    /\ ~Outdated(asked[p])
    /\ pc' = [pc EXCEPT ![p] = "search"]
    /\ UNCHANGED <<shared, lock, asked, ref, out>>

StartFetch(p) ==
    /\ pc[p] = "locked"
    /\ Outdated(asked[p])
    /\ autoFetch
    /\ pc' = [pc EXCEPT ![p] = "fetching"]
    /\ UNCHANGED <<shared, lock, asked, ref, out>>

FetchDisabled(p) ==
    /\ pc[p] = "locked"
    /\ Outdated(asked[p])
    /\ ~autoFetch
    /\ ReturnUnlocked(p, Failed)
    /\ UNCHANGED <<shared, asked, ref>>

FetchOk(p) ==
    LET list == ParseLeaps(served) IN
    /\ pc[p] = "fetching"
    /\ list # NoLeaps
    /\ SetList(list, served)
    /\ pc' = [pc EXCEPT ![p] = "search"]
    /\ UNCHANGED <<now, autoFetch, served, lock, asked, ref, out>>

\* No reply, or one that cannot be parsed.
FetchFails(p) ==
    /\ pc[p] = "fetching"
    /\ ReturnUnlocked(p, Failed)
    /\ UNCHANGED <<shared, asked, ref>>

BeyondCoverage(p) ==
    /\ pc[p] = "search"
    /\ Beyond(leaps, asked[p])
    /\ ReturnUnlocked(p, Failed)
    /\ UNCHANGED <<shared, asked, ref>>

Found(p) == First(Holding(leaps, asked[p]))

\* The entry is found under the lock, and read after the unlock.
EntryFound(p) ==
    /\ pc[p] = "search"
    /\ ~Beyond(leaps, asked[p])
    /\ Holding(leaps, asked[p]) # {}
    /\ ref' = [ref EXCEPT ![p] = [leap |-> leaps.entries[Found(p)].leap, version |-> version]]
    /\ lock' = NoProc
    /\ pc' = [pc EXCEPT ![p] = "read"]
    /\ UNCHANGED <<shared, asked, out>>

ReadEntry(p) ==
    /\ pc[p] = "read"
    /\ pc' = [pc EXCEPT ![p] = "idle"]
    /\ out' = [out EXCEPT ![p] = ref[p].leap]
    /\ UNCHANGED <<shared, lock, asked, ref>>

NoEntry(p) ==
    /\ pc[p] = "search"
    /\ ~Beyond(leaps, asked[p])
    /\ Holding(leaps, asked[p]) = {}
    /\ ReturnUnlocked(p, 0)
    /\ UNCHANGED <<shared, asked, ref>>

----------------------------------------------------------------------------
(* The configuration calls, and the world. *)

Quiet == \A p \in Proc : pc[p] = "idle"
Silent == UNCHANGED <<lock, pc, asked, ref>> /\ out' = [p \in Proc |-> Failed]

\* novas_set_leap_list() of a file that is no good changes nothing.
SetLeapList(file) ==
    LET list == ParseLeaps(file) IN
    /\ Quiet
    /\ list # NoLeaps
    /\ SetList(list, file)
    /\ Silent
    /\ UNCHANGED <<now, autoFetch, served>>

\* novas_set_leap_list(NULL), of which novas_reset_eop() does as much.
ClearLeapList ==
    /\ Quiet
    /\ leaps # NoLeaps
    /\ SetList(NoLeaps, <<>>)
    /\ Silent
    /\ UNCHANGED <<now, autoFetch, served>>

SetAutoFetch ==
    /\ Quiet
    /\ autoFetch' = ~autoFetch
    /\ Silent
    /\ UNCHANGED <<now, served, leaps, source, version>>

Tick ==
    /\ now < MaxNow
    /\ now' = now + 1
    /\ UNCHANGED <<autoFetch, served, leaps, source, version, lock, pc, asked, ref, out>>

Publish(file) ==
    /\ served' = file
    /\ UNCHANGED <<now, autoFetch, leaps, source, version, lock, pc, asked, ref, out>>

Lookup(p) ==
    \/ UseList(p) \/ StartFetch(p) \/ FetchDisabled(p) \/ FetchOk(p) \/ FetchFails(p)
    \/ BeyondCoverage(p) \/ EntryFound(p) \/ ReadEntry(p) \/ NoEntry(p)

Next ==
    \/ \E p \in Proc : Lookup(p) \/ \E t \in Time : LookupLeap(p, t)
    \/ \E file \in File : SetLeapList(file) \/ Publish(file)
    \/ ClearLeapList \/ SetAutoFetch \/ Tick

Spec == Init /\ [][Next]_vars

----------------------------------------------------------------------------
(* Properties. *)

\* leap_mutex is held from the lookup of the list to the entry found, through
\* the fetch, and every return gives it back.
LockDiscipline == \A p \in Proc : pc[p] \in {"locked", "fetching", "search"} <=> lock = p

\* What a search of the list in use comes to.
Result(t) ==
    IF Beyond(leaps, t) THEN Failed
    ELSE IF Holding(leaps, t) = {} THEN 0
    ELSE leaps.entries[First(Holding(leaps, t))].leap

\* Whatever list is in use when a thread searches it, set by the program or
\* fetched by any thread: up to its expiration the answer is what the file that
\* it was read from says, 0 before the first leap second included.
AnswerIsPublished ==
    \A p \in Proc :
        pc[p] = "search" /\ WellFormed(source) /\ asked[p] < Expiration(source)
        => Result(asked[p]) = Published(source, asked[p])

\* The same at the expiration, where there may also be no answer.
AnswerAtExpiry ==
    \A p \in Proc :
        pc[p] = "search" /\ WellFormed(source) /\ asked[p] = Expiration(source)
        => Result(asked[p]) \in {Failed, Published(source, asked[p])}

\* The entry that a lookup reads after it has unlocked the list is in memory.
EntryInMemory == \A p \in Proc : pc[p] = "read" => ref[p].version = version

=============================================================================
